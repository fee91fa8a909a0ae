------------------------- MODULE DriverModuleProofs -------------------------
(***************************************************************************)
(* Proofs about DriverModule, for any number of users and of devices of    *)
(* 05: what the init function of each driver acquires, its error paths and *)
(* its exit function release, once and in an order that keeps what others  *)
(* are built on.                                                           *)
(***************************************************************************)
EXTENDS DriverModule, SequenceTheorems, TLAPS

-----------------------------------------------------------------------------
(* What there is to prove about the tables                                 *)

\* r is built on b, which is one of R.
BuiltOn(r, b, R) ==
  b \in R /\ \E n \in Needs : r[1] = n[1] /\ b = Base(n[2], r[2])

NoDup(s) == \A i, j \in DOMAIN s : s[i] = s[j] => i = j

\* s acquires nothing before what it is built on.
Up(s) ==
  \A i \in DOMAIN s : \A b : BuiltOn(s[i], b, ToSet(s)) =>
    \E j \in DOMAIN s : j < i /\ s[j] = b

\* s releases each of its resources once, and what it is built on, of R,
\* after it: in s itself, or among what comes later.
Down(s, later, R) ==
  /\ NoDup(s)
  /\ \A i \in DOMAIN s : \A b : BuiltOn(s[i], b, R) =>
       b \in later \/ \E j \in DOMAIN s : i < j /\ s[j] = b

\* u releases all of R that is acquired.
Undoes(u, acquired, R) ==
  u \in Seq(R) /\ ToSet(u) = acquired /\ Down(u, {}, R)

\* The resources acquired when the k-th step is next.
Before(s, k) == {s[j] : j \in 1..k - 1}

GoodTables(init, exit) ==
  LET s == init.steps
      R == ToSet(s) IN
  /\ s \in Seq(R) /\ s # <<>>
  /\ Up(s)
  /\ \A k \in 1..Len(s) : Undoes(init.unwind[k], Before(s, k), R)
  /\ Undoes(exit, R, R)

-----------------------------------------------------------------------------
(* The inductive invariant                                                 *)

\* Memory keeps what was in it when it is freed, which is what kfree does unless
\* the kernel is made to clear it: then init returns the error it has met.
\* Where this does not hold, an init that has failed can return success, and
\* the theorems that rest on it are false: NeedsHeld, LiveComplete and the rest
\* speak of a module that has what it should have.
Exact == FreedReads = {"error"}

LoadInv ==
  /\ module \in {"unloaded", "coming", "live", "going"}
  /\ failed \in 0..Len(Steps) /\ step \in 0..Len(Steps) + 1
  /\ module = "coming" => step >= 1
  /\ module # "coming" => step = 0 /\ failed = 0
  /\ failed # 0 => step = failed
  /\ module = "unloaded" => held = {} /\ todo = <<>>
  /\ module = "coming" /\ failed = 0 => held = Before(Steps, step) /\ todo = <<>>
  /\ failed # 0 => Undoes(todo, held, ToSet(Steps))
  /\ module = "live" =>
       held \subseteq ToSet(Steps) /\ todo = <<>> /\ (Exact => held = ToSet(Steps))
  /\ module = "going" =>
       /\ todo \in Seq(ToSet(Steps)) /\ held \subseteq ToSet(todo)
       /\ Exact => Undoes(todo, held, ToSet(Steps))

FileInv ==
  /\ file \in [Users -> Devices \cup {NoFile}] /\ early \subseteq Users
  /\ driver \notin Unowned =>
       \A u \in Users \ early : file[u] # NoFile =>
         \/ module = "live"
         \/ module = "coming" /\ failed = 0 /\ step > Len(Steps)

ModuleInv == driver \in Drivers /\ LoadInv /\ FileInv

-----------------------------------------------------------------------------
(* The tables of the drivers with one device: the opposite of each step,   *)
(* in reverse order                                                        *)

\* u undoes the first n steps of s in reverse order.
Reverses(u, s, n) ==
  u \in Seq(ToSet(s)) /\ Len(u) = n /\ \A j \in 1..n : u[j] = s[n + 1 - j]

LEMMA ReversedUndoes ==
  ASSUME NEW S, NEW s \in Seq(S), NoDup(s), Up(s), NEW n \in 0..Len(s), NEW u,
         Reverses(u, s, n)
  PROVE  Undoes(u, Before(s, n + 1), ToSet(s))
  <1>1. /\ DOMAIN s = 1..Len(s) /\ Len(s) \in Nat /\ DOMAIN u = 1..n /\ n \in Nat
        /\ \A j \in 1..n : u[j] = s[n + 1 - j] /\ n + 1 - j \in DOMAIN s
    BY DEF Reverses
  <1>2. ToSet(u) = Before(s, n + 1)
    <2>1. ASSUME NEW j \in 1..n  PROVE u[j] \in Before(s, n + 1)
      <3>1. n + 1 - j \in 1..(n + 1) - 1
        BY <1>1
      <3> QED  BY <1>1, <3>1 DEF Before
    <2>2. ASSUME NEW j \in 1..(n + 1) - 1  PROVE s[j] \in ToSet(u)
      <3>1. n + 1 - j \in 1..n /\ u[n + 1 - j] = s[j]
        BY <1>1
      <3> QED  BY <1>1, <3>1 DEF ToSet
    <2> QED  BY <1>1, <2>1, <2>2 DEF ToSet, Before
  <1>3. NoDup(u)
    <2> SUFFICES ASSUME NEW i \in 1..n, NEW j \in 1..n, u[i] = u[j]  PROVE i = j
      BY <1>1 DEF NoDup
    <2>1. n + 1 - i = n + 1 - j
      BY <1>1 DEF NoDup
    <2> QED  BY <2>1
  <1>4. ASSUME NEW i \in 1..n, NEW b, BuiltOn(u[i], b, ToSet(s))
        PROVE  \E j \in DOMAIN u : i < j /\ u[j] = b
    <2>1. PICK j \in DOMAIN s : j < n + 1 - i /\ s[j] = b
      BY <1>1, <1>4 DEF Up
    <2>2. n + 1 - j \in 1..n /\ i < n + 1 - j /\ n + 1 - (n + 1 - j) = j
      BY <1>1, <2>1
    <2> QED  BY <1>1, <2>1, <2>2
  <1> QED  BY <1>1, <1>2, <1>3, <1>4 DEF Undoes, Down, Reverses

LEMMA ReversedTables ==
  ASSUME NEW init, NEW exit, NEW S, init.steps \in Seq(S), init.steps # <<>>,
         NoDup(init.steps), Up(init.steps),
         \A k \in 1..Len(init.steps) : Reverses(init.unwind[k], init.steps, k - 1),
         Reverses(exit, init.steps, Len(init.steps))
  PROVE  GoodTables(init, exit)
  <1> DEFINE s == init.steps
  <1>1. Len(s) \in Nat /\ DOMAIN s = 1..Len(s) /\ s \in Seq(ToSet(s))
    BY DEF ToSet
  <1>2. ASSUME NEW k \in 1..Len(s)  PROVE Undoes(init.unwind[k], Before(s, k), ToSet(s))
    <2>1. k - 1 \in 0..Len(s) /\ (k - 1) + 1 = k
      BY <1>1
    <2> QED  BY <2>1, ReversedUndoes
  <1>3. Undoes(exit, ToSet(s), ToSet(s))
    <2>1. Len(s) \in 0..Len(s)
      BY <1>1
    <2>2. Undoes(exit, Before(s, Len(s) + 1), ToSet(s))
      BY <2>1, ReversedUndoes
    <2>3. Before(s, Len(s) + 1) = ToSet(s)
      BY <1>1 DEF Before, ToSet
    <2> QED  BY <2>2, <2>3
  <1> QED  BY <1>1, <1>2, <1>3 DEF GoodTables

AllKinds == {"chrdev", "region", "class", "dev", "buffer", "cdev", "node", "data",
             "major", "tag_set", "disk"}

LEMMA SeqRetype ==
  ASSUME NEW S, NEW T, NEW s \in Seq(S), \A i \in 1..Len(s) : s[i] \in T
  PROVE  s \in Seq(T)
  OBVIOUS

AllOf(i) == AllKinds \X {i}

LEMMA OfFacts ==
  ASSUME NEW i, NEW kinds \in Seq(AllKinds)
  PROVE  /\ Of(i, kinds) \in Seq(AllOf(i)) /\ Len(Of(i, kinds)) = Len(kinds)
         /\ \A k \in 1..Len(kinds) : Of(i, kinds)[k] = <<kinds[k], i>>
  <1>1. DOMAIN kinds = 1..Len(kinds) /\ Len(kinds) \in Nat
    OBVIOUS
  <1>2. Of(i, kinds) \in [1..Len(kinds) -> AllOf(i)]
    BY <1>1 DEF Of, AllOf
  <1> QED  BY <1>1, <1>2 DEF Of

\* What the kinds of the steps must be like.
KindsUp(kinds) ==
  /\ \A i, j \in 1..Len(kinds) : kinds[i] = kinds[j] => i = j
  /\ \A n \in Needs : \A i, j \in 1..Len(kinds) :
       kinds[i] = n[1] /\ kinds[j] = n[2] => j < i

LEMMA OfUp ==
  ASSUME NEW kinds \in Seq(AllKinds), kinds # <<>>, KindsUp(kinds)
  PROVE  /\ Of0(kinds) \in Seq(AllOf(0)) /\ Of0(kinds) # <<>>
         /\ NoDup(Of0(kinds)) /\ Up(Of0(kinds))
  <1> DEFINE s == Of0(kinds)
             N == Len(kinds)
  <1>1. s \in Seq(AllOf(0)) /\ Len(s) = N /\ \A k \in 1..N : s[k] = <<kinds[k], 0>>
    BY OfFacts DEF Of0
  <1>2. N \in Nat \ {0} /\ DOMAIN s = 1..N
    BY <1>1, EmptySeq
  <1> HIDE DEF s, N
  <1>3. s # <<>>
    BY <1>1, <1>2
  <1>4. NoDup(s)
    BY <1>1, <1>2 DEF NoDup, KindsUp, N
  <1>5. Up(s)
    <2> SUFFICES ASSUME NEW i \in 1..N, NEW b, BuiltOn(s[i], b, ToSet(s))
                 PROVE  \E j \in 1..N : j < i /\ s[j] = b
      BY <1>2 DEF Up
    <2>1. PICK n \in Needs : kinds[i] = n[1] /\ b = Base(n[2], 0)
      BY <1>1 DEF BuiltOn
    <2>2. PICK j \in 1..N : s[j] = b
      BY <1>2 DEF BuiltOn, ToSet
    <2>3. kinds[j] = n[2]
      BY <1>1, <2>1, <2>2 DEF Base
    <2> QED  BY <2>1, <2>2, <2>3 DEF KindsUp, N
  <1> QED  BY <1>1, <1>3, <1>4, <1>5 DEF s

\* kinds backwards, from the n-th on
Backwards(u, kinds, n) ==
  u \in Seq(AllKinds) /\ Len(u) = n /\ \A j \in 1..n : u[j] = kinds[n + 1 - j]

LEMMA OfReverses ==
  ASSUME NEW kinds \in Seq(AllKinds), NEW n \in 0..Len(kinds), NEW u,
         Backwards(u, kinds, n)
  PROVE  Reverses(Of0(u), Of0(kinds), n)
  <1> DEFINE s == Of0(kinds)
             t == Of0(u)
  <1>1. /\ s \in Seq(AllOf(0)) /\ Len(s) = Len(kinds)
        /\ \A k \in 1..Len(kinds) : s[k] = <<kinds[k], 0>>
    BY OfFacts DEF Of0
  <1>2. u \in Seq(AllKinds) /\ Len(u) = n /\ \A j \in 1..n : u[j] = kinds[n + 1 - j]
    BY DEF Backwards, AllKinds
  <1>3. t \in Seq(AllOf(0)) /\ Len(t) = n /\ \A k \in 1..n : t[k] = <<u[k], 0>>
    BY <1>2, OfFacts DEF Of0
  <1> HIDE DEF s, t
  <1>4. \A j \in 1..n : n + 1 - j \in 1..Len(s) /\ t[j] = s[n + 1 - j]
    <2>1. Len(s) \in Nat /\ n \in 0..Len(s)
      BY <1>1
    <2>2. \A j \in 1..n : n + 1 - j \in 1..Len(s)
      BY <2>1
    <2> QED  BY <1>1, <1>2, <1>3, <2>2
  <1>5. DOMAIN s = 1..Len(s)
    BY <1>1
  <1>6. \A j \in 1..n : t[j] \in ToSet(s)
    BY <1>4, <1>5 DEF ToSet
  <1>7. t \in Seq(ToSet(s))
    BY <1>3, <1>6
  <1> QED  BY <1>3, <1>4, <1>7 DEF Reverses, s, t

LEMMA EmptyReverses ==
  ASSUME NEW kinds \in Seq(AllKinds)
  PROVE  Reverses(<<>>, Of0(kinds), 0)
  BY DEF Reverses

LEMMA CharTables == GoodTables(chardev_init, chardev_exit)
  <1> DEFINE K == <<"chrdev">>
  <1>1. K \in Seq(AllKinds) /\ K # <<>> /\ Len(K) = 1 /\ KindsUp(K)
    BY DEF KindsUp, Needs, AllKinds
  <1>2. Backwards(K, K, 1)
    BY DEF Backwards, AllKinds
  <1>3. Reverses(Of0(K), Of0(K), 1)
    <2> HIDE DEF K
    <2> QED  BY <1>1, <1>2, OfReverses
  <1>4. Len(Of0(K)) = 1
    BY <1>1, OfFacts DEF Of0
  <1> HIDE DEF K
  <1>5. chardev_init.steps = Of0(K) /\ chardev_init.unwind[1] = <<>> /\ chardev_exit = Of0(K)
    BY DEF chardev_init, chardev_exit, K
  <1> QED
    <2>1. \A k \in 1..Len(Of0(K)) : Reverses(chardev_init.unwind[k], Of0(K), k - 1)
      BY <1>3, <1>4, <1>5, <1>1, EmptyReverses
    <2> QED  BY <1>1, <1>3, <1>4, <1>5, <2>1, OfUp, ReversedTables

LEMMA IoctlTables == GoodTables(ioctl_init, ioctl_exit)
  <1> DEFINE K == <<"region", "dev", "cdev">>
  <1>1. K \in Seq(AllKinds) /\ K # <<>> /\ Len(K) = 3 /\ KindsUp(K)
    BY DEF KindsUp, Needs, AllKinds
  <1>2. /\ Backwards(<<"region">>, K, 1)
        /\ Backwards(<<"dev", "region">>, K, 2)
        /\ Backwards(<<"cdev", "dev", "region">>, K, 3)
    BY DEF Backwards, AllKinds
  <1>3. /\ Reverses(Of0(<<"region">>), Of0(K), 1)
        /\ Reverses(Of0(<<"dev", "region">>), Of0(K), 2)
        /\ Reverses(Of0(<<"cdev", "dev", "region">>), Of0(K), 3)
    <2> HIDE DEF K
    <2> QED  BY <1>1, <1>2, OfReverses
  <1>4. Len(Of0(K)) = 3
    BY <1>1, OfFacts DEF Of0
  <1> HIDE DEF K
  <1>5. /\ ioctl_init.steps = Of0(K) /\ ioctl_init.unwind[1] = <<>>
        /\ ioctl_init.unwind[2] = Of0(<<"region">>)
        /\ ioctl_init.unwind[3] = Of0(<<"dev", "region">>)
        /\ ioctl_exit = Of0(<<"cdev", "dev", "region">>)
    BY DEF ioctl_init, ioctl_exit, K
  <1> QED
    <2>1. \A k \in 1..Len(Of0(K)) : Reverses(ioctl_init.unwind[k], Of0(K), k - 1)
      BY <1>3, <1>4, <1>5, <1>1, EmptyReverses
    <2> QED  BY <1>1, <1>3, <1>4, <1>5, <2>1, OfUp, ReversedTables

LEMMA BlockingTables == GoodTables(blocking_init, blocking_exit)
  <1> DEFINE K == <<"region", "class", "dev", "buffer", "cdev", "node">>
  <1>1. K \in Seq(AllKinds) /\ K # <<>> /\ Len(K) = 6 /\ KindsUp(K)
    BY DEF KindsUp, Needs, AllKinds
  <1>2. /\ Backwards(<<"region">>, K, 1)
        /\ Backwards(<<"class", "region">>, K, 2)
        /\ Backwards(<<"dev", "class", "region">>, K, 3)
        /\ Backwards(<<"buffer", "dev", "class", "region">>, K, 4)
        /\ Backwards(<<"cdev", "buffer", "dev", "class", "region">>, K, 5)
        /\ Backwards(<<"node", "cdev", "buffer", "dev", "class", "region">>, K, 6)
    BY DEF Backwards, AllKinds
  <1>3. /\ Reverses(Of0(<<"region">>), Of0(K), 1)
        /\ Reverses(Of0(<<"class", "region">>), Of0(K), 2)
        /\ Reverses(Of0(<<"dev", "class", "region">>), Of0(K), 3)
        /\ Reverses(Of0(<<"buffer", "dev", "class", "region">>), Of0(K), 4)
        /\ Reverses(Of0(<<"cdev", "buffer", "dev", "class", "region">>), Of0(K), 5)
        /\ Reverses(Of0(<<"node", "cdev", "buffer", "dev", "class", "region">>), Of0(K), 6)
    <2> HIDE DEF K
    <2>1. \A n, u : n \in 0..6 /\ Backwards(u, K, n) => Reverses(Of0(u), Of0(K), n)
      BY <1>1, OfReverses
    <2> QED  BY <1>2, <2>1
  <1>4. Len(Of0(K)) = 6
    BY <1>1, OfFacts DEF Of0
  <1> HIDE DEF K
  <1>5. /\ blocking_init.steps = Of0(K) /\ blocking_init.unwind[1] = <<>>
        /\ blocking_init.unwind[2] = Of0(<<"region">>)
        /\ blocking_init.unwind[3] = Of0(<<"class", "region">>)
        /\ blocking_init.unwind[4] = Of0(<<"dev", "class", "region">>)
        /\ blocking_init.unwind[5] = Of0(<<"buffer", "dev", "class", "region">>)
        /\ blocking_init.unwind[6] = Of0(<<"cdev", "buffer", "dev", "class", "region">>)
        /\ blocking_exit = Of0(<<"node", "cdev", "buffer", "dev", "class", "region">>)
    BY DEF blocking_init, blocking_exit, K
  <1> QED
    <2>1. \A k \in 1..Len(Of0(K)) : Reverses(blocking_init.unwind[k], Of0(K), k - 1)
      BY <1>3, <1>4, <1>5, <1>1, EmptyReverses
    <2> QED  BY <1>1, <1>3, <1>4, <1>5, <2>1, OfUp, ReversedTables

LEMMA RamdiskTables == GoodTables(ramdisk_init, ramdisk_exit)
  <1> DEFINE K == <<"dev", "data", "major", "tag_set", "disk", "node">>
  <1>1. K \in Seq(AllKinds) /\ K # <<>> /\ Len(K) = 6 /\ KindsUp(K)
    BY DEF KindsUp, Needs, AllKinds
  <1>2. /\ Backwards(<<"dev">>, K, 1)
        /\ Backwards(<<"data", "dev">>, K, 2)
        /\ Backwards(<<"major", "data", "dev">>, K, 3)
        /\ Backwards(<<"tag_set", "major", "data", "dev">>, K, 4)
        /\ Backwards(<<"disk", "tag_set", "major", "data", "dev">>, K, 5)
        /\ Backwards(<<"node", "disk", "tag_set", "major", "data", "dev">>, K, 6)
    BY DEF Backwards, AllKinds
  <1>3. /\ Reverses(Of0(<<"dev">>), Of0(K), 1)
        /\ Reverses(Of0(<<"data", "dev">>), Of0(K), 2)
        /\ Reverses(Of0(<<"major", "data", "dev">>), Of0(K), 3)
        /\ Reverses(Of0(<<"tag_set", "major", "data", "dev">>), Of0(K), 4)
        /\ Reverses(Of0(<<"disk", "tag_set", "major", "data", "dev">>), Of0(K), 5)
        /\ Reverses(Of0(<<"node", "disk", "tag_set", "major", "data", "dev">>), Of0(K), 6)
    <2> HIDE DEF K
    <2>1. \A n, u : n \in 0..6 /\ Backwards(u, K, n) => Reverses(Of0(u), Of0(K), n)
      BY <1>1, OfReverses
    <2> QED  BY <1>2, <2>1
  <1>4. Len(Of0(K)) = 6
    BY <1>1, OfFacts DEF Of0
  <1> HIDE DEF K
  <1>5. /\ ramdisk_init.steps = Of0(K) /\ ramdisk_init.unwind[1] = <<>>
        /\ ramdisk_init.unwind[2] = Of0(<<"dev">>)
        /\ ramdisk_init.unwind[3] = Of0(<<"data", "dev">>)
        /\ ramdisk_init.unwind[4] = Of0(<<"major", "data", "dev">>)
        /\ ramdisk_init.unwind[5] = Of0(<<"tag_set", "major", "data", "dev">>)
        /\ ramdisk_init.unwind[6] = Of0(<<"disk", "tag_set", "major", "data", "dev">>)
        /\ ramdisk_exit = Of0(<<"node", "disk", "tag_set", "major", "data", "dev">>)
    BY DEF ramdisk_init, ramdisk_exit, K
  <1> QED
    <2>1. \A k \in 1..Len(Of0(K)) : Reverses(ramdisk_init.unwind[k], Of0(K), k - 1)
      BY <1>3, <1>4, <1>5, <1>1, EmptyReverses
    <2> QED  BY <1>1, <1>3, <1>4, <1>5, <2>1, OfUp, ReversedTables

LEMMA UnownedSteps ==
  ASSUME NEW d \in Unowned
  PROVE  \A r \in ToSet(InitOf[d].steps) : r[1] = "chrdev"
  <1>1. InitOf[d].steps = Of0(<<"chrdev">>)
    BY DEF Unowned, InitOf, chardev_init
  <1>2. DOMAIN Of0(<<"chrdev">>) = {1} /\ Of0(<<"chrdev">>)[1] = <<"chrdev", 0>>
    BY DEF Of0, Of
  <1> QED  BY <1>1, <1>2 DEF ToSet

-----------------------------------------------------------------------------
(* The tables of 05: a loop over the devices                               *)

LEMMA ConcatFacts ==
  ASSUME NEW S, NEW a \in Seq(S), NEW b \in Seq(S)
  PROVE  /\ a \o b \in Seq(S) /\ Len(a \o b) = Len(a) + Len(b)
         /\ Len(a) \in Nat /\ Len(b) \in Nat
         /\ \A i \in 1..Len(a) : (a \o b)[i] = a[i]
         /\ \A i \in 1..Len(b) : (a \o b)[Len(a) + i] = b[i]
  BY ConcatProperties

LEMMA DownJoin ==
  ASSUME NEW S, NEW a \in Seq(S), NEW b \in Seq(S), NEW later, NEW R,
         Down(a, ToSet(b) \cup later, R), Down(b, later, R),
         ToSet(a) \cap ToSet(b) = {}
  PROVE  /\ a \o b \in Seq(S) /\ ToSet(a \o b) = ToSet(a) \cup ToSet(b)
         /\ Down(a \o b, later, R)
  <1> DEFINE u == a \o b
  <1>1. /\ u \in Seq(S) /\ Len(u) = Len(a) + Len(b) /\ Len(a) \in Nat /\ Len(b) \in Nat
        /\ \A i \in 1..Len(a) : u[i] = a[i]
        /\ \A i \in 1..Len(b) : u[Len(a) + i] = b[i]
    BY ConcatFacts
  <1>2. DOMAIN u = 1..Len(u) /\ DOMAIN a = 1..Len(a) /\ DOMAIN b = 1..Len(b)
    BY <1>1
  <1> HIDE DEF u
  <1>3. \A i \in DOMAIN u :
          \/ i \in DOMAIN a /\ u[i] = a[i]
          \/ i \notin DOMAIN a /\ i - Len(a) \in DOMAIN b /\ u[i] = b[i - Len(a)]
    <2> SUFFICES ASSUME NEW i \in DOMAIN u, i \notin DOMAIN a
                 PROVE  i - Len(a) \in DOMAIN b /\ u[i] = b[i - Len(a)]
      BY <1>1, <1>2
    <2>1. i - Len(a) \in 1..Len(b) /\ Len(a) + (i - Len(a)) = i
      BY <1>1, <1>2
    <2> QED  BY <1>1, <1>2, <2>1
  <1>4. /\ \A i \in DOMAIN a : i \in DOMAIN u /\ u[i] = a[i]
        /\ \A i \in DOMAIN b : Len(a) + i \in DOMAIN u /\ u[Len(a) + i] = b[i]
    BY <1>1, <1>2
  <1>5. ToSet(u) = ToSet(a) \cup ToSet(b)
    BY <1>3, <1>4 DEF ToSet
  <1>6. NoDup(u)
    <2> SUFFICES ASSUME NEW i \in DOMAIN u, NEW j \in DOMAIN u, u[i] = u[j]  PROVE i = j
      BY DEF NoDup
    <2>1. CASE i \in DOMAIN a /\ j \in DOMAIN a
      BY <1>4, <2>1 DEF Down, NoDup
    <2>2. CASE i \notin DOMAIN a /\ j \notin DOMAIN a
      <3>1. i - Len(a) = j - Len(a)
        BY <1>3, <2>2 DEF Down, NoDup
      <3> QED  BY <1>1, <1>2, <3>1
    <2>3. CASE i \in DOMAIN a /\ j \notin DOMAIN a
      <3>1. u[i] \in ToSet(a) /\ u[j] \in ToSet(b)
        BY <1>3, <2>3 DEF ToSet
      <3> QED  BY <3>1
    <2>4. CASE i \notin DOMAIN a /\ j \in DOMAIN a
      <3>1. u[i] \in ToSet(b) /\ u[j] \in ToSet(a)
        BY <1>3, <2>4 DEF ToSet
      <3> QED  BY <3>1
    <2> QED  BY <2>1, <2>2, <2>3, <2>4
  <1>7. ASSUME NEW i \in DOMAIN u, NEW r, BuiltOn(u[i], r, R), r \notin later
        PROVE  \E j \in DOMAIN u : i < j /\ u[j] = r
    <2>1. CASE i \in DOMAIN a
      <3>1. u[i] = a[i]
        BY <1>4, <2>1
      <3>2. CASE \E j \in DOMAIN a : i < j /\ a[j] = r
        BY <1>4, <3>2
      <3>3. CASE r \in ToSet(b)
        <4>1. PICK j \in DOMAIN b : b[j] = r
          BY <3>3 DEF ToSet
        <4>2. Len(a) + j \in DOMAIN u /\ u[Len(a) + j] = r /\ i < Len(a) + j
          BY <1>1, <1>2, <1>4, <2>1, <4>1
        <4> QED  BY <4>2
      <3> QED  BY <1>7, <2>1, <3>1, <3>2, <3>3 DEF Down
    <2>2. CASE i \notin DOMAIN a
      <3>1. i - Len(a) \in DOMAIN b /\ u[i] = b[i - Len(a)]
        BY <1>3, <2>2
      <3>2. PICK j \in DOMAIN b : i - Len(a) < j /\ b[j] = r
        BY <1>7, <3>1 DEF Down
      <3>3. Len(a) + j \in DOMAIN u /\ u[Len(a) + j] = r /\ i < Len(a) + j
        BY <1>1, <1>2, <1>4, <3>2
      <3> QED  BY <3>3
    <2> QED  BY <2>1, <2>2
  <1> QED  BY <1>1, <1>5, <1>6, <1>7 DEF Down, u

LEMMA LoopAt ==
  ASSUME NEW i \in Nat, NEW m \in 1..3
  PROVE  DeviceAt(3 * i + m) = i /\ CallAt(3 * i + m) = m
  BY DEF DeviceAt, CallAt

LEMMA LoopFrom ==
  ASSUME NEW n \in Nat, NEW k \in 1..3 * n
  PROVE  /\ DeviceAt(k) \in 0..n - 1 /\ CallAt(k) \in 1..3
         /\ k = 3 * DeviceAt(k) + CallAt(k)
  BY DEF DeviceAt, CallAt

Common == {<<"region", 0>>, <<"class", 0>>}
Own(n) == {"dev", "cdev", "node"} \X (0..n - 1)

\* The resources of 05, and what they are built on.
AutoAll == Common \cup Own(NUM_DEVICES)

LEMMA AutoBuiltOn ==
  ASSUME NEW r, NEW b, BuiltOn(r, b, AutoAll)
  PROVE  /\ r[1] \notin {"dev", "region", "class"}
         /\ r[1] = "cdev" => b \in {<<"dev", r[2]>>, <<"region", 0>>}
         /\ r[1] = "node" => b \in {<<"class", 0>>, <<"cdev", r[2]>>}
  <1>1. PICK n \in Needs : r[1] = n[1] /\ b = Base(n[2], r[2])
    BY DEF BuiltOn
  <1>2. b[1] \in {"region", "class", "dev", "cdev", "node"}
    BY DEF BuiltOn, AutoAll, Common, Own
  <1>3. n[2] \in {"region", "class", "dev", "cdev", "node"}
    BY <1>1, <1>2 DEF Base
  <1> QED  BY <1>1, <1>3 DEF Needs, Base

LEMMA DeviceCalls ==
  ASSUME NEW i
  PROVE  /\ init_device(i)[1] = <<"dev", i>> /\ init_device(i)[2] = <<"cdev", i>>
         /\ init_device(i)[3] = <<"node", i>>
         /\ cleanup_device(i)[1] = <<"node", i>> /\ cleanup_device(i)[2] = <<"cdev", i>>
         /\ cleanup_device(i)[3] = <<"dev", i>>
  BY DEF init_device, cleanup_device, Of

\* cleanup_devices(n)
LEMMA CleanupDevices ==
  ASSUME NEW n \in 0..NUM_DEVICES
  PROVE  /\ cleanup_devices(n) \in Seq(AutoAll) /\ ToSet(cleanup_devices(n)) = Own(n)
         /\ Down(cleanup_devices(n), Common, AutoAll)
  <1> DEFINE u == cleanup_devices(n)
  <1>0. NUM_DEVICES \in Nat \ {0} /\ n \in Nat
    BY TablesAssumption
  <1>1. Min({n, NUM_DEVICES}) = n
    BY <1>0 DEF Min
  <1>2. u = [k \in 1..3 * n |-> cleanup_device(DeviceAt(k))[CallAt(k)]]
    BY <1>1 DEF cleanup_devices
  <1>3. DOMAIN u = 1..3 * n /\ \A k \in 1..3 * n : u[k] = cleanup_device(DeviceAt(k))[CallAt(k)]
    BY <1>2
  <1> HIDE DEF u
  <1>4. ASSUME NEW i \in 0..n - 1
        PROVE  /\ u[3 * i + 1] = <<"node", i>> /\ u[3 * i + 2] = <<"cdev", i>>
               /\ u[3 * i + 3] = <<"dev", i>>
               /\ 3 * i + 1 \in 1..3 * n /\ 3 * i + 2 \in 1..3 * n /\ 3 * i + 3 \in 1..3 * n
    <2>1. 3 * i + 1 \in 1..3 * n /\ 3 * i + 2 \in 1..3 * n /\ 3 * i + 3 \in 1..3 * n /\ i \in Nat
      BY <1>0
    <2>2. /\ DeviceAt(3 * i + 1) = i /\ CallAt(3 * i + 1) = 1
          /\ DeviceAt(3 * i + 2) = i /\ CallAt(3 * i + 2) = 2
          /\ DeviceAt(3 * i + 3) = i /\ CallAt(3 * i + 3) = 3
      <3>1. 1 \in 1..3 /\ 2 \in 1..3 /\ 3 \in 1..3
        OBVIOUS
      <3> QED  BY <2>1, <3>1, LoopAt
    <2> QED  BY <1>3, <2>1, <2>2, DeviceCalls
  <1>5. ASSUME NEW k \in 1..3 * n
        PROVE  \E i \in 0..n - 1 : \/ k = 3 * i + 1 /\ u[k] = <<"node", i>>
                                   \/ k = 3 * i + 2 /\ u[k] = <<"cdev", i>>
                                   \/ k = 3 * i + 3 /\ u[k] = <<"dev", i>>
    <2>1. DeviceAt(k) \in 0..n - 1 /\ CallAt(k) \in {1, 2, 3} /\ k = 3 * DeviceAt(k) + CallAt(k)
      BY <1>0, LoopFrom
    <2> QED  BY <1>4, <2>1
  <1>6. ToSet(u) = Own(n)
    <2>1. \A k \in 1..3 * n : u[k] \in Own(n)
      <3> SUFFICES ASSUME NEW k \in 1..3 * n  PROVE u[k] \in Own(n)
        OBVIOUS
      <3>1. PICK i \in 0..n - 1 : u[k] \in {<<"node", i>>, <<"cdev", i>>, <<"dev", i>>}
        BY <1>5
      <3> QED  BY <3>1 DEF Own
    <2>2. ASSUME NEW r \in Own(n)  PROVE \E k \in 1..3 * n : u[k] = r
      <3>1. PICK i \in 0..n - 1 : r \in {<<"dev", i>>, <<"cdev", i>>, <<"node", i>>}
        BY DEF Own
      <3> QED  BY <1>4, <3>1
    <2> QED  BY <1>3, <2>1, <2>2 DEF ToSet
  <1>7. u \in Seq(AutoAll)
    <2>1. Own(n) \subseteq AutoAll
      BY <1>0 DEF Own, AutoAll
    <2>2. u \in [1..3 * n -> AutoAll] /\ 3 * n \in Nat
      BY <1>0, <1>2, <1>3, <1>6, <2>1 DEF ToSet, u
    <2> QED  BY <2>2
  <1>8. NoDup(u)
    <2> SUFFICES ASSUME NEW k \in 1..3 * n, NEW j \in 1..3 * n, u[k] = u[j]  PROVE k = j
      BY <1>3 DEF NoDup
    <2> QED  BY <1>5
  <1>9. ASSUME NEW k \in 1..3 * n, NEW b, BuiltOn(u[k], b, AutoAll)
        PROVE  b \in Common \/ \E j \in 1..3 * n : k < j /\ u[j] = b
    <2>1. PICK i \in 0..n - 1 : \/ k = 3 * i + 1 /\ u[k] = <<"node", i>>
                                \/ k = 3 * i + 2 /\ u[k] = <<"cdev", i>>
                                \/ k = 3 * i + 3 /\ u[k] = <<"dev", i>>
      BY <1>5
    <2>2. b \in Common \/ (k = 3 * i + 1 /\ b = <<"cdev", i>>)
                       \/ (k = 3 * i + 2 /\ b = <<"dev", i>>)
      BY <1>9, <2>1, AutoBuiltOn DEF Common
    <2> QED  BY <1>4, <2>2
  <1> QED  BY <1>3, <1>6, <1>7, <1>8, <1>9 DEF Down, u

LEMMA CleanupCommon ==
  /\ cleanup_class_and_devnum \in Seq(AutoAll)
  /\ ToSet(cleanup_class_and_devnum) = Common
  /\ Down(cleanup_class_and_devnum, {}, AutoAll)
  <1> DEFINE u == cleanup_class_and_devnum
             kinds == <<"class", "region">>
  <1>0. kinds \in Seq(AllKinds) /\ Len(kinds) = 2 /\ kinds[1] = "class" /\ kinds[2] = "region"
    BY DEF AllKinds
  <1>1. /\ u \in Seq(AllOf(0)) /\ Len(u) = 2
        /\ u[1] = <<"class", 0>> /\ u[2] = <<"region", 0>>
    <2>1. u = Of(0, kinds)
      BY DEF cleanup_class_and_devnum, Of0
    <2> HIDE DEF u, kinds
    <2> QED  BY <1>0, <2>1, OfFacts
  <1> HIDE DEF u, kinds
  <1>2. u \in Seq(AutoAll) /\ DOMAIN u = 1..2
    <2>1. DOMAIN u = 1..2
      BY <1>1
    <2>2. \A i \in 1..2 : u[i] \in AutoAll
      BY <1>1 DEF AutoAll, Common
    <2> QED  BY <1>1, <2>1, <2>2, SeqRetype
  <1>3. ToSet(u) = Common
    BY <1>1, <1>2 DEF ToSet, Common
  <1>4. Down(u, {}, AutoAll)
    <2>1. NoDup(u)
      BY <1>1, <1>2 DEF NoDup
    <2>2. ASSUME NEW i \in 1..2, NEW b, BuiltOn(u[i], b, AutoAll)  PROVE FALSE
      <3>1. u[i][1] \in {"class", "region"}
        BY <1>1
      <3> QED  BY <2>2, <3>1, AutoBuiltOn
    <2> QED  BY <1>2, <2>1, <2>2 DEF Down
  <1> QED  BY <1>2, <1>3, <1>4 DEF u

LEMMA AutoSteps ==
  LET s == auto_init.steps IN
  /\ s \in Seq(AutoAll) /\ Len(s) = 3 * NUM_DEVICES + 2
  /\ s[1] = <<"region", 0>> /\ s[2] = <<"class", 0>>
  /\ \A i \in 0..NUM_DEVICES - 1 :
       /\ s[3 * i + 3] = <<"dev", i>> /\ s[3 * i + 4] = <<"cdev", i>>
       /\ s[3 * i + 5] = <<"node", i>>
  /\ \A k \in 3..3 * NUM_DEVICES + 2 : \E i \in 0..NUM_DEVICES - 1 :
       k \in {3 * i + 3, 3 * i + 4, 3 * i + 5}
  <1> DEFINE N == NUM_DEVICES
             s == auto_init.steps
             kinds == <<"region", "class">>
             a == Of0(kinds)
             b == [k \in 1..3 * N |-> init_device(DeviceAt(k))[CallAt(k)]]
  <1>0. N \in Nat \ {0}
    BY TablesAssumption
  <1>1. /\ a \in Seq(AllOf(0)) /\ Len(a) = 2
        /\ a[1] = <<"region", 0>> /\ a[2] = <<"class", 0>>
    <2>1. /\ kinds \in Seq(AllKinds) /\ Len(kinds) = 2
          /\ kinds[1] = "region" /\ kinds[2] = "class"
      BY DEF AllKinds
    <2>2. a = Of(0, kinds)
      BY DEF Of0
    <2> HIDE DEF a, kinds
    <2> QED  BY <2>1, <2>2, OfFacts
  <1>2. s = a \o b
    BY DEF auto_init
  <1> HIDE DEF a, s
  <1>3. a \in Seq(AutoAll)
    <2>1. \A i \in 1..2 : a[i] \in AutoAll
      BY <1>1 DEF AutoAll, Common
    <2> QED  BY <1>1, <2>1, SeqRetype
  <1>4. ASSUME NEW i \in 0..N - 1
        PROVE  /\ b[3 * i + 1] = <<"dev", i>> /\ b[3 * i + 2] = <<"cdev", i>>
               /\ b[3 * i + 3] = <<"node", i>>
               /\ 3 * i + 1 \in 1..3 * N /\ 3 * i + 2 \in 1..3 * N /\ 3 * i + 3 \in 1..3 * N
    <2>1. 3 * i + 1 \in 1..3 * N /\ 3 * i + 2 \in 1..3 * N /\ 3 * i + 3 \in 1..3 * N /\ i \in Nat
      BY <1>0
    <2>2. /\ DeviceAt(3 * i + 1) = i /\ CallAt(3 * i + 1) = 1
          /\ DeviceAt(3 * i + 2) = i /\ CallAt(3 * i + 2) = 2
          /\ DeviceAt(3 * i + 3) = i /\ CallAt(3 * i + 3) = 3
      <3>1. 1 \in 1..3 /\ 2 \in 1..3 /\ 3 \in 1..3
        OBVIOUS
      <3> QED  BY <2>1, <3>1, LoopAt
    <2>3. \A k \in 1..3 * N : b[k] = init_device(DeviceAt(k))[CallAt(k)]
      OBVIOUS
    <2> HIDE DEF b
    <2> QED  BY <2>1, <2>2, <2>3, DeviceCalls
  <1>5. ASSUME NEW k \in 1..3 * N
        PROVE  \E i \in 0..N - 1 : k \in {3 * i + 1, 3 * i + 2, 3 * i + 3}
    <2>1. DeviceAt(k) \in 0..N - 1 /\ CallAt(k) \in {1, 2, 3} /\ k = 3 * DeviceAt(k) + CallAt(k)
      BY <1>0, LoopFrom
    <2> QED  BY <2>1
  <1>6. b \in Seq(AutoAll) /\ Len(b) = 3 * N
    <2>1. \A k \in 1..3 * N : b[k] \in AutoAll
      <3> SUFFICES ASSUME NEW k \in 1..3 * N  PROVE b[k] \in AutoAll
        OBVIOUS
      <3>1. PICK i \in 0..N - 1 : b[k] \in {<<"dev", i>>, <<"cdev", i>>, <<"node", i>>}
        <4> HIDE DEF b
        <4> QED  BY <1>4, <1>5
      <3> HIDE DEF b
      <3> QED  BY <3>1 DEF AutoAll, Own
    <2>2. b \in [1..3 * N -> AutoAll] /\ 3 * N \in Nat /\ DOMAIN b = 1..3 * N
      BY <1>0, <2>1
    <2> HIDE DEF b
    <2> QED  BY <2>2
  <1> HIDE DEF b
  <1>7. /\ s \in Seq(AutoAll) /\ Len(s) = 3 * N + 2
        /\ s[1] = a[1] /\ s[2] = a[2]
        /\ \A k \in 1..3 * N : s[k + 2] = b[k]
    <2>1. /\ s \in Seq(AutoAll) /\ Len(s) = Len(a) + Len(b)
          /\ \A k \in 1..Len(a) : s[k] = a[k]
          /\ \A k \in 1..Len(b) : s[Len(a) + k] = b[k]
      <3>2. a \in Seq(AutoAll) /\ b \in Seq(AutoAll)
        BY <1>3, <1>6
      <3>1. /\ a \o b \in Seq(AutoAll) /\ Len(a \o b) = Len(a) + Len(b)
            /\ \A k \in 1..Len(a) : (a \o b)[k] = a[k]
            /\ \A k \in 1..Len(b) : (a \o b)[Len(a) + k] = b[k]
        BY ONLY <3>2, ConcatFacts
      <3> QED  BY <1>2, <3>1
    <2>2. \A k \in 1..3 * N : k + 2 = 2 + k
      BY <1>0
    <2> QED  BY <1>0, <1>1, <1>6, <2>1, <2>2
  <1>8. \A i \in 0..N - 1 : /\ s[3 * i + 3] = <<"dev", i>> /\ s[3 * i + 4] = <<"cdev", i>>
                            /\ s[3 * i + 5] = <<"node", i>>
    <2> SUFFICES ASSUME NEW i \in 0..N - 1
                 PROVE  /\ s[3 * i + 3] = <<"dev", i>> /\ s[3 * i + 4] = <<"cdev", i>>
                        /\ s[3 * i + 5] = <<"node", i>>
      OBVIOUS
    <2>1. /\ (3 * i + 1) + 2 = 3 * i + 3 /\ (3 * i + 2) + 2 = 3 * i + 4
          /\ (3 * i + 3) + 2 = 3 * i + 5
      BY <1>0
    <2> QED  BY <1>4, <1>7, <2>1
  <1>9. \A k \in 3..3 * N + 2 : \E i \in 0..N - 1 : k \in {3 * i + 3, 3 * i + 4, 3 * i + 5}
    <2> SUFFICES ASSUME NEW k \in 3..3 * N + 2
                 PROVE  \E i \in 0..N - 1 : k \in {3 * i + 3, 3 * i + 4, 3 * i + 5}
      OBVIOUS
    <2>1. k - 2 \in 1..3 * N
      BY <1>0
    <2>2. PICK i \in 0..N - 1 : k - 2 \in {3 * i + 1, 3 * i + 2, 3 * i + 3}
      BY <1>5, <2>1
    <2> QED  BY <1>0, <2>2
  <1> QED  BY <1>1, <1>7, <1>8, <1>9 DEF s

\* What is acquired when the next step is the m-th of device i.
LEMMA AutoBefore ==
  LET s == auto_init.steps IN
  /\ Before(s, 1) = {} /\ Before(s, 2) = {<<"region", 0>>} /\ ToSet(s) = AutoAll
  /\ \A i \in 0..NUM_DEVICES - 1 :
       /\ Before(s, 3 * i + 3) = Common \cup Own(i)
       /\ Before(s, 3 * i + 4) = Common \cup Own(i) \cup {<<"dev", i>>}
       /\ Before(s, 3 * i + 5) = Common \cup Own(i) \cup {<<"dev", i>>, <<"cdev", i>>}
  <1> DEFINE N == NUM_DEVICES
             s == auto_init.steps
  <1>0. N \in Nat \ {0}
    BY TablesAssumption
  <1>1. /\ s \in Seq(AutoAll) /\ Len(s) = 3 * N + 2
        /\ s[1] = <<"region", 0>> /\ s[2] = <<"class", 0>>
        /\ \A i \in 0..N - 1 : /\ s[3 * i + 3] = <<"dev", i>> /\ s[3 * i + 4] = <<"cdev", i>>
                               /\ s[3 * i + 5] = <<"node", i>>
        /\ \A k \in 3..3 * N + 2 : \E i \in 0..N - 1 : k \in {3 * i + 3, 3 * i + 4, 3 * i + 5}
    BY AutoSteps
  <1> HIDE DEF s
  <1>2. Before(s, 1) = {} /\ Before(s, 2) = {<<"region", 0>>}
    <2>1. 1..1 - 1 = {} /\ 1..2 - 1 = {1}
      OBVIOUS
    <2> QED  BY <1>1, <2>1 DEF Before
  <1>3. ASSUME NEW n \in 0..N  PROVE {s[k] : k \in 1..3 * n + 2} = Common \cup Own(n)
    <2>1. ASSUME NEW k \in 1..3 * n + 2  PROVE s[k] \in Common \cup Own(n)
      <3>1. CASE k \in {1, 2}
        BY <1>1, <3>1 DEF Common
      <3>2. CASE k \notin {1, 2}
        <4>1. k \in 3..3 * N + 2
          BY <1>0, <3>2
        <4>2. PICK i \in 0..N - 1 : k \in {3 * i + 3, 3 * i + 4, 3 * i + 5}
          BY <1>1, <4>1
        <4>3. i \in 0..n - 1
          BY <1>0, <4>2
        <4>4. s[k] \in {<<"dev", i>>, <<"cdev", i>>, <<"node", i>>}
          BY <1>1, <4>2
        <4> QED  BY <4>3, <4>4 DEF Own
      <3> QED  BY <3>1, <3>2
    <2>2. ASSUME NEW r \in Common \cup Own(n)  PROVE \E k \in 1..3 * n + 2 : s[k] = r
      <3>1. CASE r \in Common
        <4>1. 1 \in 1..3 * n + 2 /\ 2 \in 1..3 * n + 2
          BY <1>0
        <4> QED  BY <1>1, <3>1, <4>1 DEF Common
      <3>2. CASE r \in Own(n)
        <4>1. PICK i \in 0..n - 1 : r \in {<<"dev", i>>, <<"cdev", i>>, <<"node", i>>}
          BY <3>2 DEF Own
        <4>2. i \in 0..N - 1 /\ 3 * i + 3 \in 1..3 * n + 2 /\ 3 * i + 4 \in 1..3 * n + 2
              /\ 3 * i + 5 \in 1..3 * n + 2
          BY <1>0
        <4> QED  BY <1>1, <4>1, <4>2
      <3> QED  BY <2>2, <3>1, <3>2
    <2> QED  BY <2>1, <2>2
  <1>4. ToSet(s) = AutoAll
    <2>1. DOMAIN s = 1..3 * N + 2 /\ N \in 0..N
      BY <1>0, <1>1
    <2> QED  BY <1>3, <2>1 DEF ToSet, AutoAll
  <1>5. ASSUME NEW i \in 0..N - 1
        PROVE  /\ Before(s, 3 * i + 3) = Common \cup Own(i)
               /\ Before(s, 3 * i + 4) = Common \cup Own(i) \cup {<<"dev", i>>}
               /\ Before(s, 3 * i + 5) = Common \cup Own(i) \cup {<<"dev", i>>, <<"cdev", i>>}
    <2>1. i \in 0..N /\ i \in Nat
      BY <1>0
    <2>2. /\ 1..(3 * i + 3) - 1 = 1..3 * i + 2
          /\ 1..(3 * i + 4) - 1 = (1..3 * i + 2) \cup {3 * i + 3}
          /\ 1..(3 * i + 5) - 1 = (1..3 * i + 2) \cup {3 * i + 3, 3 * i + 4}
      BY <2>1
    <2>3. {s[k] : k \in 1..3 * i + 2} = Common \cup Own(i)
      BY <1>3, <2>1
    <2>4. \A A, x : {s[k] : k \in A \cup {x}} = {s[k] : k \in A} \cup {s[x]}
      OBVIOUS
    <2>5. \A A, x, y : {s[k] : k \in A \cup {x, y}} = {s[k] : k \in A} \cup {s[x], s[y]}
      OBVIOUS
    <2>6. /\ Before(s, 3 * i + 3) = {s[k] : k \in 1..3 * i + 2}
          /\ Before(s, 3 * i + 4) = {s[k] : k \in (1..3 * i + 2) \cup {3 * i + 3}}
          /\ Before(s, 3 * i + 5) = {s[k] : k \in (1..3 * i + 2) \cup {3 * i + 3, 3 * i + 4}}
      BY <2>2 DEF Before
    <2>7. Before(s, 3 * i + 4) = {s[k] : k \in 1..3 * i + 2} \cup {s[3 * i + 3]}
      BY <2>4, <2>6
    <2>8. Before(s, 3 * i + 5)
            = {s[k] : k \in 1..3 * i + 2} \cup {s[3 * i + 3], s[3 * i + 4]}
      BY <2>5, <2>6
    <2>9. s[3 * i + 3] = <<"dev", i>> /\ s[3 * i + 4] = <<"cdev", i>>
      BY <1>1
    <2> QED  BY <2>3, <2>6, <2>7, <2>8, <2>9
  <1> QED  BY <1>2, <1>4, <1>5 DEF s

LEMMA AutoUp == Up(auto_init.steps)
  <1> DEFINE N == NUM_DEVICES
             s == auto_init.steps
  <1>0. N \in Nat \ {0}
    BY TablesAssumption
  <1>1. /\ s \in Seq(AutoAll) /\ Len(s) = 3 * N + 2
        /\ s[1] = <<"region", 0>> /\ s[2] = <<"class", 0>>
        /\ \A i \in 0..N - 1 : /\ s[3 * i + 3] = <<"dev", i>> /\ s[3 * i + 4] = <<"cdev", i>>
                               /\ s[3 * i + 5] = <<"node", i>>
        /\ \A k \in 3..3 * N + 2 : \E i \in 0..N - 1 : k \in {3 * i + 3, 3 * i + 4, 3 * i + 5}
        /\ ToSet(s) = AutoAll
    BY AutoSteps, AutoBefore
  <1> HIDE DEF s
  <1>2. DOMAIN s = 1..3 * N + 2
    BY <1>0, <1>1
  <1>3. ASSUME NEW k \in 1..3 * N + 2, NEW b, BuiltOn(s[k], b, AutoAll)
        PROVE  \E j \in 1..3 * N + 2 : j < k /\ s[j] = b
    <2>1. k # 1 /\ k # 2
      BY <1>1, <1>3, AutoBuiltOn
    <2>2. k \in 3..3 * N + 2
      BY <1>0, <2>1
    <2>3. PICK i \in 0..N - 1 : k \in {3 * i + 3, 3 * i + 4, 3 * i + 5}
      BY <1>1, <2>2
    <2>4. /\ 1 \in 1..3 * N + 2 /\ 2 \in 1..3 * N + 2
          /\ 3 * i + 3 \in 1..3 * N + 2 /\ 3 * i + 4 \in 1..3 * N + 2 /\ 1 < k /\ 2 < k
      BY <1>0, <2>2
    <2>5. CASE k = 3 * i + 3
      <3>1. s[k] = <<"dev", i>>
        BY <1>1, <2>5
      <3> QED  BY <1>3, <3>1, AutoBuiltOn
    <2>6. CASE k = 3 * i + 4
      <3>1. s[k] = <<"cdev", i>>
        BY <1>1, <2>6
      <3>2. b \in {<<"dev", i>>, <<"region", 0>>}
        BY <1>3, <3>1, AutoBuiltOn
      <3>3. s[3 * i + 3] = <<"dev", i>> /\ 3 * i + 3 < k
        BY <1>0, <1>1, <2>6
      <3>4. CASE b = <<"dev", i>>
        BY <2>4, <3>3, <3>4
      <3>5. CASE b = <<"region", 0>>
        BY <1>1, <2>4, <3>5
      <3> QED  BY <3>2, <3>4, <3>5
    <2>7. CASE k = 3 * i + 5
      <3>1. s[k] = <<"node", i>>
        BY <1>1, <2>7
      <3>2. b \in {<<"class", 0>>, <<"cdev", i>>}
        BY <1>3, <3>1, AutoBuiltOn
      <3>3. s[3 * i + 4] = <<"cdev", i>> /\ 3 * i + 4 < k
        BY <1>0, <1>1, <2>7
      <3>4. CASE b = <<"cdev", i>>
        BY <2>4, <3>3, <3>4
      <3>5. CASE b = <<"class", 0>>
        BY <1>1, <2>4, <3>5
      <3> QED  BY <3>2, <3>4, <3>5
    <2> QED  BY <2>3, <2>5, <2>6, <2>7
  <1>4. Up(s)
    BY <1>1, <1>2, <1>3 DEF Up
  <1> QED  BY <1>4 DEF s

LEMMA DownMore ==
  ASSUME NEW s, NEW later, NEW more, NEW R, Down(s, later, R), later \subseteq more
  PROVE  Down(s, more, R)
  BY DEF Down

LEMMA EmptyDown ==
  ASSUME NEW later, NEW R
  PROVE  ToSet(<<>>) = {} /\ Down(<<>>, later, R)
  BY DEF ToSet, Down, NoDup

\* What init_device(i) undoes itself.
LEMMA UndoDevice ==
  ASSUME NEW i \in 0..NUM_DEVICES - 1
  PROVE  /\ \A m \in 1..3 : /\ init_device_undo(i)[m] \in Seq(AutoAll)
                            /\ Down(init_device_undo(i)[m], Common, AutoAll)
         /\ ToSet(init_device_undo(i)[1]) = {}
         /\ ToSet(init_device_undo(i)[2]) = {<<"dev", i>>}
         /\ ToSet(init_device_undo(i)[3]) = {<<"dev", i>>, <<"cdev", i>>}
  <1> DEFINE k2 == <<"dev">>
             k3 == <<"cdev", "dev">>
             u2 == Of(i, k2)
             u3 == Of(i, k3)
  <1>1. /\ init_device_undo(i)[1] = <<>> /\ init_device_undo(i)[2] = u2
        /\ init_device_undo(i)[3] = u3
    BY DEF init_device_undo
  <1>2. /\ k2 \in Seq(AllKinds) /\ Len(k2) = 1 /\ k2[1] = "dev"
        /\ k3 \in Seq(AllKinds) /\ Len(k3) = 2 /\ k3[1] = "cdev" /\ k3[2] = "dev"
    BY DEF AllKinds
  <1> HIDE DEF k2, k3
  <1>3. /\ u2 \in Seq(AllOf(i)) /\ Len(u2) = 1 /\ u2[1] = <<"dev", i>>
        /\ u3 \in Seq(AllOf(i)) /\ Len(u3) = 2 /\ u3[1] = <<"cdev", i>> /\ u3[2] = <<"dev", i>>
    BY <1>2, OfFacts
  <1> HIDE DEF u2, u3
  <1>4. <<"dev", i>> \in AutoAll /\ <<"cdev", i>> \in AutoAll
    BY DEF AutoAll, Own
  <1>5. DOMAIN u2 = {1} /\ DOMAIN u3 = {1, 2} /\ 1..Len(u2) = {1} /\ 1..Len(u3) = {1, 2}
    BY <1>3
  <1>6. u2 \in Seq(AutoAll) /\ u3 \in Seq(AutoAll)
    <2>1. \A k \in 1..Len(u2) : u2[k] \in AutoAll
      BY <1>3, <1>4, <1>5
    <2>2. \A k \in 1..Len(u3) : u3[k] \in AutoAll
      BY <1>3, <1>4, <1>5
    <2> QED  BY <1>3, <2>1, <2>2, SeqRetype
  <1>7. ToSet(u2) = {u2[1]} /\ ToSet(u3) = {u3[1], u3[2]}
    BY <1>5 DEF ToSet
  <1>8. Down(u2, Common, AutoAll)
    <2>1. NoDup(u2)
      BY <1>5 DEF NoDup
    <2>2. \A b : ~BuiltOn(u2[1], b, AutoAll)
      BY <1>3, AutoBuiltOn
    <2> QED  BY <1>5, <2>1, <2>2 DEF Down
  <1>9. Down(u3, Common, AutoAll)
    <2>1. NoDup(u3)
      BY <1>3, <1>5 DEF NoDup
    <2>2. \A b : BuiltOn(u3[1], b, AutoAll) => b \in Common \/ b = u3[2]
      BY <1>3, AutoBuiltOn DEF Common
    <2>3. \A b : ~BuiltOn(u3[2], b, AutoAll)
      BY <1>3, AutoBuiltOn
    <2> QED  BY <1>5, <2>1, <2>2, <2>3 DEF Down
  <1>10. <<>> \in Seq(AutoAll) /\ ToSet(<<>>) = {} /\ Down(<<>>, Common, AutoAll)
    BY EmptyDown
  <1>11. \A m \in 1..3 : m = 1 \/ m = 2 \/ m = 3
    OBVIOUS
  <1>12. \A m \in 1..3 : /\ init_device_undo(i)[m] \in Seq(AutoAll)
                          /\ Down(init_device_undo(i)[m], Common, AutoAll)
    BY <1>1, <1>6, <1>8, <1>9, <1>10, <1>11
  <1>13. /\ ToSet(init_device_undo(i)[1]) = {}
         /\ ToSet(init_device_undo(i)[2]) = {<<"dev", i>>}
         /\ ToSet(init_device_undo(i)[3]) = {<<"dev", i>>, <<"cdev", i>>}
    BY <1>1, <1>3, <1>7, <1>10
  <1> QED  BY <1>12, <1>13

\* The error path when the m-th call for device i fails.
LEMMA AutoUndo ==
  ASSUME NEW i \in 0..NUM_DEVICES - 1, NEW m \in 1..3
  PROVE  LET a == init_device_undo(i)[m]
             u == a \o cleanup_devices(i) \o cleanup_class_and_devnum IN
         Undoes(u, Common \cup Own(i) \cup ToSet(a), AutoAll)
  <1> DEFINE a == init_device_undo(i)[m]
             b == cleanup_devices(i)
             c == cleanup_class_and_devnum
  <1>0. NUM_DEVICES \in Nat \ {0} /\ i \in 0..NUM_DEVICES
    BY TablesAssumption
  <1>1. /\ a \in Seq(AutoAll) /\ Down(a, Common, AutoAll)
        /\ ToSet(a) \subseteq {<<"dev", i>>, <<"cdev", i>>}
    <2>1. m = 1 \/ m = 2 \/ m = 3
      OBVIOUS
    <2> QED  BY <2>1, UndoDevice
  <1>2. b \in Seq(AutoAll) /\ ToSet(b) = Own(i) /\ Down(b, Common, AutoAll)
    BY <1>0, CleanupDevices
  <1>3. c \in Seq(AutoAll) /\ ToSet(c) = Common /\ Down(c, {}, AutoAll)
    BY CleanupCommon
  <1> HIDE DEF a, b, c
  <1>4. ToSet(a) \cap Own(i) = {} /\ (ToSet(a) \cup Own(i)) \cap Common = {}
    <2>1. <<"dev", i>> \notin Own(i) /\ <<"cdev", i>> \notin Own(i)
      BY <1>0 DEF Own
    <2>2. Own(i) \cap Common = {}
      BY DEF Own, Common
    <2>3. <<"dev", i>> \notin Common /\ <<"cdev", i>> \notin Common
      BY DEF Common
    <2> QED  BY <1>1, <2>1, <2>2, <2>3
  <1>5. Down(a, ToSet(b) \cup Common, AutoAll)
    BY <1>1, DownMore
  <1>6. /\ a \o b \in Seq(AutoAll) /\ ToSet(a \o b) = ToSet(a) \cup Own(i)
        /\ Down(a \o b, Common, AutoAll)
    BY <1>1, <1>2, <1>4, <1>5, DownJoin
  <1>7. Down(a \o b, ToSet(c) \cup {}, AutoAll) /\ ToSet(a \o b) \cap ToSet(c) = {}
    BY <1>3, <1>4, <1>6
  <1>8. /\ (a \o b) \o c \in Seq(AutoAll)
        /\ ToSet((a \o b) \o c) = (ToSet(a) \cup Own(i)) \cup Common
        /\ Down((a \o b) \o c, {}, AutoAll)
    <2> DEFINE ab == a \o b
    <2>1. /\ ab \in Seq(AutoAll) /\ c \in Seq(AutoAll) /\ ToSet(ab) \cap ToSet(c) = {}
          /\ Down(ab, ToSet(c) \cup {}, AutoAll) /\ Down(c, {}, AutoAll)
          /\ ToSet(ab) = ToSet(a) \cup Own(i) /\ ToSet(c) = Common
      BY <1>3, <1>6, <1>7
    <2> HIDE DEF ab
    <2>2. /\ ab \o c \in Seq(AutoAll) /\ ToSet(ab \o c) = ToSet(ab) \cup ToSet(c)
          /\ Down(ab \o c, {}, AutoAll)
      BY <2>1, DownJoin
    <2>3. ToSet(ab \o c) = (ToSet(a) \cup Own(i)) \cup Common
      BY <2>1, <2>2
    <2> QED  BY <2>2, <2>3 DEF ab
  <1>9. Undoes((a \o b) \o c, Common \cup Own(i) \cup ToSet(a), AutoAll)
    BY <1>8 DEF Undoes
  <1> QED  BY <1>9 DEF a, b, c

LEMMA AutoUnwind ==
  /\ auto_init.unwind[1] = <<>> /\ auto_init.unwind[2] = Of0(<<"region">>)
  /\ \A i \in 0..NUM_DEVICES - 1, m \in 1..3 :
       auto_init.unwind[3 * i + m + 2]
         = init_device_undo(i)[m] \o cleanup_devices(i) \o cleanup_class_and_devnum
  <1> DEFINE N == NUM_DEVICES
             P(k) == init_device_undo(DeviceAt(k))[CallAt(k)]
                       \o cleanup_devices(DeviceAt(k)) \o cleanup_class_and_devnum
             a == << <<>>, Of0(<<"region">>) >>
             b == [k \in 1..3 * N |-> P(k)]
             S == {<<>>, Of0(<<"region">>)} \cup {P(k) : k \in 1..3 * N}
             w == auto_init.unwind
  <1>0. N \in Nat \ {0}
    BY TablesAssumption
  <1>1. w = a \o b
    BY DEF auto_init
  <1>2. a \in Seq(S) /\ Len(a) = 2 /\ a[1] = <<>> /\ a[2] = Of0(<<"region">>)
    OBVIOUS
  <1>3. b \in Seq(S) /\ Len(b) = 3 * N
    <2>1. \A k \in 1..3 * N : P(k) \in S
      OBVIOUS
    <2>2. 3 * N \in Nat
      BY <1>0
    <2> HIDE DEF P, S
    <2>3. b \in [1..3 * N -> S]
      BY <2>1
    <2> HIDE DEF b
    <2> QED  BY <2>2, <2>3
  <1>4. \A k \in 1..3 * N : b[k] = P(k)
    OBVIOUS
  <1> HIDE DEF P, a, b, S, w
  <1>5. a \in Seq(S) /\ b \in Seq(S)
    BY <1>2, <1>3
  <1>6. /\ \A k \in 1..Len(a) : (a \o b)[k] = a[k]
        /\ \A k \in 1..Len(b) : (a \o b)[Len(a) + k] = b[k]
    BY ONLY <1>5, ConcatFacts
  <1>7. w[1] = a[1] /\ w[2] = a[2]
    <2>1. 1 \in 1..Len(a) /\ 2 \in 1..Len(a)
      BY <1>2
    <2> QED  BY <1>1, <1>6, <2>1
  <1>8. \A i \in 0..N - 1, m \in 1..3 : w[3 * i + m + 2] = P(3 * i + m)
    <2> SUFFICES ASSUME NEW i \in 0..N - 1, NEW m \in 1..3
                 PROVE  w[3 * i + m + 2] = P(3 * i + m)
      OBVIOUS
    <2>1. 3 * i + m \in 1..3 * N /\ 3 * i + m + 2 = 2 + (3 * i + m)
      BY <1>0
    <2>2. 3 * i + m \in 1..Len(b) /\ Len(a) = 2
      BY <1>2, <1>3, <2>1
    <2>3. (a \o b)[2 + (3 * i + m)] = b[3 * i + m]
      BY <1>6, <2>2
    <2> QED  BY <1>1, <1>4, <2>1, <2>3
  <1>9. \A i \in 0..N - 1, m \in 1..3 : DeviceAt(3 * i + m) = i /\ CallAt(3 * i + m) = m
    <2> SUFFICES ASSUME NEW i \in 0..N - 1, NEW m \in 1..3
                 PROVE  DeviceAt(3 * i + m) = i /\ CallAt(3 * i + m) = m
      OBVIOUS
    <2>1. i \in Nat
      BY <1>0
    <2> QED  BY <2>1, LoopAt
  <1> QED  BY <1>2, <1>7, <1>8, <1>9 DEF P, w

LEMMA RegionUndo == Undoes(Of0(<<"region">>), {<<"region", 0>>}, AutoAll)
  <1> DEFINE kinds == <<"region">>
             u == Of0(kinds)
  <1>1. kinds \in Seq(AllKinds) /\ Len(kinds) = 1 /\ kinds[1] = "region"
    BY DEF AllKinds
  <1> HIDE DEF kinds
  <1>2. u \in Seq(AllOf(0)) /\ Len(u) = 1 /\ u[1] = <<"region", 0>>
    BY <1>1, OfFacts DEF Of0
  <1> HIDE DEF u
  <1>3. DOMAIN u = {1} /\ 1..Len(u) = {1} /\ <<"region", 0>> \in AutoAll
    BY <1>2 DEF AutoAll, Common
  <1>4. u \in Seq(AutoAll)
    <2>1. \A k \in 1..Len(u) : u[k] \in AutoAll
      BY <1>2, <1>3
    <2> QED  BY <1>2, <2>1, SeqRetype
  <1>5. ToSet(u) = {u[1]} /\ NoDup(u)
    BY <1>3 DEF ToSet, NoDup
  <1>6. Down(u, {}, AutoAll)
    <2>1. \A b : ~BuiltOn(u[1], b, AutoAll)
      BY <1>2, AutoBuiltOn
    <2> QED  BY <1>3, <1>5, <2>1 DEF Down
  <1>7. Undoes(u, {<<"region", 0>>}, AutoAll)
    BY <1>2, <1>4, <1>5, <1>6 DEF Undoes
  <1> QED  BY <1>7 DEF u, kinds

LEMMA AutoTables == GoodTables(auto_init, auto_exit)
  <1> DEFINE N == NUM_DEVICES
             s == auto_init.steps
             w == auto_init.unwind
  <1>0. N \in Nat \ {0} /\ N \in 0..N
    BY TablesAssumption
  <1>1. s \in Seq(AutoAll) /\ Len(s) = 3 * N + 2 /\ ToSet(s) = AutoAll
    BY AutoSteps, AutoBefore
  <1>2. \A k \in 3..3 * N + 2 : \E i \in 0..N - 1 : k \in {3 * i + 3, 3 * i + 4, 3 * i + 5}
    BY AutoSteps
  <1>3. ASSUME NEW k \in 1..3 * N + 2  PROVE Undoes(w[k], Before(s, k), AutoAll)
    <2>1. CASE k = 1
      <3>1. Undoes(<<>>, {}, AutoAll)
        BY EmptyDown DEF Undoes
      <3> QED  BY <2>1, <3>1, AutoBefore, AutoUnwind
    <2>2. CASE k = 2
      BY <2>2, AutoBefore, AutoUnwind, RegionUndo
    <2>3. CASE k \notin {1, 2}
      <3>1. k \in 3..3 * N + 2
        BY <1>0, <2>3
      <3>2. PICK i \in 0..N - 1 : k \in {3 * i + 3, 3 * i + 4, 3 * i + 5}
        BY <1>2, <3>1
      <3>3. CASE k = 3 * i + 3
        <4>1. 3 * i + 1 + 2 = k /\ 1 \in 1..3
          BY <1>0, <3>3
        <4>2. w[k] = init_device_undo(i)[1] \o cleanup_devices(i) \o cleanup_class_and_devnum
          BY <4>1, AutoUnwind
        <4>3. Before(s, k) = Common \cup Own(i) \cup ToSet(init_device_undo(i)[1])
          BY <3>3, AutoBefore, UndoDevice
        <4> QED  BY <4>1, <4>2, <4>3, AutoUndo
      <3>4. CASE k = 3 * i + 4
        <4>1. 3 * i + 2 + 2 = k /\ 2 \in 1..3
          BY <1>0, <3>4
        <4>2. w[k] = init_device_undo(i)[2] \o cleanup_devices(i) \o cleanup_class_and_devnum
          BY <4>1, AutoUnwind
        <4>3. Before(s, k) = Common \cup Own(i) \cup ToSet(init_device_undo(i)[2])
          BY <3>4, AutoBefore, UndoDevice
        <4> QED  BY <4>1, <4>2, <4>3, AutoUndo
      <3>5. CASE k = 3 * i + 5
        <4>1. 3 * i + 3 + 2 = k /\ 3 \in 1..3
          BY <1>0, <3>5
        <4>2. w[k] = init_device_undo(i)[3] \o cleanup_devices(i) \o cleanup_class_and_devnum
          BY <4>1, AutoUnwind
        <4>3. Before(s, k) = Common \cup Own(i) \cup ToSet(init_device_undo(i)[3])
          BY <3>5, AutoBefore, UndoDevice
        <4> QED  BY <4>1, <4>2, <4>3, AutoUndo
      <3> QED  BY <3>2, <3>3, <3>4, <3>5
    <2> QED  BY <2>1, <2>2, <2>3
  <1>4. Undoes(auto_exit, AutoAll, AutoAll)
    <2> DEFINE b == cleanup_devices(N)
               c == cleanup_class_and_devnum
    <2>1. b \in Seq(AutoAll) /\ ToSet(b) = Own(N) /\ Down(b, Common, AutoAll)
      BY <1>0, CleanupDevices
    <2>2. c \in Seq(AutoAll) /\ ToSet(c) = Common /\ Down(c, {}, AutoAll)
      BY CleanupCommon
    <2>3. auto_exit = b \o c
      BY DEF auto_exit
    <2> HIDE DEF b, c
    <2>4. ToSet(b) \cap ToSet(c) = {} /\ Down(b, ToSet(c) \cup {}, AutoAll)
      BY <2>1, <2>2 DEF Own, Common
    <2>5. /\ b \o c \in Seq(AutoAll) /\ ToSet(b \o c) = Own(N) \cup Common
          /\ Down(b \o c, {}, AutoAll)
      BY <2>1, <2>2, <2>4, DownJoin
    <2> QED  BY <2>3, <2>5 DEF Undoes, AutoAll
  <1> HIDE DEF s, w
  <1>5. s # <<>>
    BY <1>0, <1>1
  <1>6. Up(s)
    BY AutoUp DEF s
  <1> QED  BY <1>1, <1>3, <1>4, <1>5, <1>6 DEF GoodTables, s, w

-----------------------------------------------------------------------------
\* Init, the error paths and exit of every driver fit together.
LEMMA TablesAreGood ==
  ASSUME NEW d \in DOMAIN InitOf
  PROVE  GoodTables(InitOf[d], ExitOf[d])
  <1>1. d \in {"char", "multibuf", "ioctl", "auto", "blocking", "poll", "ramdisk"}
    BY DEF InitOf
  <1>2. CASE d \in {"char", "multibuf"}
    BY <1>2, CharTables DEF InitOf, ExitOf
  <1>3. CASE d = "ioctl"
    BY <1>3, IoctlTables DEF InitOf, ExitOf
  <1>4. CASE d = "auto"
    BY <1>4, AutoTables DEF InitOf, ExitOf
  <1>5. CASE d \in {"blocking", "poll"}
    BY <1>5, BlockingTables DEF InitOf, ExitOf, poll_init, poll_exit
  <1>6. CASE d = "ramdisk"
    BY <1>6, RamdiskTables DEF InitOf, ExitOf
  <1> QED  BY <1>1, <1>2, <1>3, <1>4, <1>5, <1>6

-----------------------------------------------------------------------------
(* Sequences that release                                                  *)

LEMMA PopKeeps ==
  ASSUME NEW R, NEW acquired, NEW u, Undoes(u, acquired, R), u # <<>>
  PROVE  Head(u) \in acquired /\ Undoes(Tail(u), acquired \ {Head(u)}, R)
  <1> DEFINE t == Tail(u)
  <1>1. /\ u \in Seq(R) /\ Head(u) = u[1] /\ 1 \in DOMAIN u
        /\ t \in Seq(R) /\ Len(t) = Len(u) - 1 /\ Len(u) \in Nat \ {0}
        /\ \A i \in 1..Len(t) : t[i] = u[i + 1]
    BY HeadTailProperties, EmptySeq DEF Undoes
  <1>2. DOMAIN u = 1..Len(u) /\ DOMAIN t = 1..Len(u) - 1
    BY <1>1
  <1>3. NoDup(u) /\ ToSet(u) = acquired
    BY DEF Undoes, Down
  <1>4. \A i \in DOMAIN u : i = 1 \/ (i - 1 \in DOMAIN t /\ t[i - 1] = u[i])
    BY <1>1, <1>2
  <1>5. ToSet(t) = acquired \ {Head(u)}
    <2>1. \A i \in DOMAIN t : t[i] \in acquired /\ t[i] # Head(u)
      <3> SUFFICES ASSUME NEW i \in DOMAIN t  PROVE t[i] \in acquired /\ t[i] # Head(u)
        OBVIOUS
      <3>1. i + 1 \in DOMAIN u /\ i + 1 # 1 /\ t[i] = u[i + 1]
        BY <1>1, <1>2
      <3> HIDE DEF t
      <3> QED  BY <1>1, <1>3, <3>1 DEF NoDup, ToSet
    <2>2. ASSUME NEW r \in acquired \ {Head(u)}  PROVE \E i \in DOMAIN t : t[i] = r
      <3>1. PICK i \in DOMAIN u : u[i] = r
        BY <1>3 DEF ToSet
      <3>2. i - 1 \in DOMAIN t /\ t[i - 1] = r
        BY <1>1, <1>4, <3>1
      <3> HIDE DEF t
      <3> QED  BY <3>2
    <2> HIDE DEF t
    <2> QED  BY <2>1, <2>2 DEF ToSet
  <1>6. NoDup(t)
    <2> SUFFICES ASSUME NEW i \in DOMAIN t, NEW j \in DOMAIN t, t[i] = t[j]  PROVE i = j
      BY DEF NoDup
    <2>1. i + 1 \in DOMAIN u /\ j + 1 \in DOMAIN u /\ u[i + 1] = u[j + 1]
      BY <1>1, <1>2
    <2>2. i + 1 = j + 1
      BY <1>3, <2>1 DEF NoDup
    <2> QED  BY <1>2, <2>2
  <1>7. ASSUME NEW i \in DOMAIN t, NEW b, BuiltOn(t[i], b, R)
        PROVE  \E j \in DOMAIN t : i < j /\ t[j] = b
    <2>1. i + 1 \in DOMAIN u /\ t[i] = u[i + 1] /\ i \in Nat
      BY <1>1, <1>2
    <2>2. PICK j \in DOMAIN u : i + 1 < j /\ u[j] = b
      BY <1>7, <2>1 DEF Undoes, Down
    <2>3. j - 1 \in DOMAIN t /\ t[j - 1] = b /\ i < j - 1
      BY <1>1, <1>2, <2>1, <2>2
    <2> HIDE DEF t
    <2> QED  BY <2>3
  <1> HIDE DEF t
  <1>8. Down(t, {}, R)
    BY <1>6, <1>7 DEF Down
  <1> QED  BY <1>1, <1>3, <1>5, <1>8 DEF Undoes, ToSet, t

LEMMA PopCovers ==
  ASSUME NEW R, NEW u \in Seq(R), u # <<>>
  PROVE  Tail(u) \in Seq(R) /\ ToSet(u) \ {Head(u)} \subseteq ToSet(Tail(u))
  <1> DEFINE t == Tail(u)
  <1>1. /\ Head(u) = u[1] /\ t \in Seq(R) /\ DOMAIN u = 1..Len(u)
        /\ Len(t) = Len(u) - 1 /\ Len(u) \in Nat /\ DOMAIN t = 1..Len(t)
        /\ \A i \in 1..Len(t) : t[i] = u[i + 1]
    BY HeadTailProperties
  <1>2. ASSUME NEW i \in DOMAIN u, u[i] # Head(u)  PROVE u[i] \in ToSet(t)
    <2>1. i - 1 \in DOMAIN t /\ t[i - 1] = u[i]
      BY <1>1, <1>2
    <2> HIDE DEF t
    <2> QED  BY <2>1 DEF ToSet
  <1> HIDE DEF t
  <1>3. ToSet(u) \ {Head(u)} \subseteq ToSet(t)
    BY <1>2 DEF ToSet
  <1> QED  BY <1>1, <1>3 DEF t

\* What is acquired stands on what is acquired.
Stands(acquired, R) ==
  \A r \in acquired : \A b : BuiltOn(r, b, R) => b \in acquired

LEMMA UndoesStands ==
  ASSUME NEW R, NEW acquired, NEW u, Undoes(u, acquired, R)
  PROVE  Stands(acquired, R)
  BY DEF Undoes, Down, Stands, ToSet

LEMMA BeforeStands ==
  ASSUME NEW S, NEW s \in Seq(S), Up(s), NEW k \in 1..Len(s) + 1
  PROVE  Stands(Before(s, k), ToSet(s)) /\ Before(s, Len(s) + 1) = ToSet(s)
  <1>1. DOMAIN s = 1..Len(s) /\ Len(s) \in Nat
    OBVIOUS
  <1>2. Stands(Before(s, k), ToSet(s))
    <2> SUFFICES ASSUME NEW j \in 1..k - 1, NEW b, BuiltOn(s[j], b, ToSet(s))
                 PROVE  b \in Before(s, k)
      BY DEF Stands, Before
    <2>1. j \in DOMAIN s
      BY <1>1
    <2>2. PICK i \in DOMAIN s : i < j /\ s[i] = b
      BY <2>1 DEF Up
    <2> QED  BY <1>1, <2>2 DEF Before
  <1>3. Before(s, Len(s) + 1) = ToSet(s)
    BY <1>1 DEF Before, ToSet
  <1> QED  BY <1>2, <1>3

LEMMA AllStands ==
  ASSUME NEW S, NEW s \in Seq(S), Up(s)
  PROVE  Stands(ToSet(s), ToSet(s))
  BY DEF Stands, BuiltOn

-----------------------------------------------------------------------------
(* The steps                                                               *)

LEMMA LoadInit == Init => ModuleInv
  <1> SUFFICES ASSUME Init  PROVE ModuleInv
    OBVIOUS
  <1>0. driver \in DOMAIN InitOf
    BY ModuleAssumption DEF Init
  <1>1. Len(Steps) \in Nat
    BY <1>0, TablesAreGood DEF GoodTables, Steps
  <1>2. LoadInv
    BY <1>1 DEF Init, LoadInv
  <1>3. FileInv
    BY DEF Init, FileInv
  <1> QED  BY <1>2, <1>3 DEF ModuleInv, Init

\* What the tables give, of the driver that is loaded.
LEMMA TableFacts ==
  ASSUME ModuleInv
  PROVE  /\ GoodTables(InitOf[driver], ExitOf[driver])
         /\ Steps \in Seq(ToSet(Steps)) /\ Len(Steps) \in Nat \ {0} /\ Up(Steps)
         /\ DOMAIN Steps = 1..Len(Steps)
         /\ \A k \in 1..Len(Steps) :
              Undoes(InitOf[driver].unwind[k], Before(Steps, k), ToSet(Steps))
         /\ Undoes(ExitOf[driver], ToSet(Steps), ToSet(Steps))
  <1>1. GoodTables(InitOf[driver], ExitOf[driver])
    BY TablesAreGood, ModuleAssumption DEF ModuleInv
  <1>2. Steps \in Seq(ToSet(Steps)) /\ Steps # <<>>
    BY <1>1 DEF GoodTables, Steps
  <1>3. Len(Steps) \in Nat \ {0} /\ DOMAIN Steps = 1..Len(Steps)
    BY <1>2, EmptySeq
  <1> QED  BY <1>1, <1>2, <1>3 DEF GoodTables, Steps

\* A file that is not early has been opened on a driver that is there.
LEMMA FilesKeep ==
  ASSUME FileInv, UNCHANGED <<driver, fileVars>>, Len(Steps) \in Nat,
         module = "live" => module' = "live" \/ driver \in Unowned
                                             \/ \A u \in Users : file[u] = NoFile,
         module = "coming" /\ failed = 0 /\ step > Len(Steps) =>
           module' = "live" \/ UNCHANGED <<module, failed, step>>
  PROVE  FileInv'
  BY DEF FileInv, fileVars, Devices, Steps

LEMMA LoadSteps ==
  ASSUME ModuleInv, Insmod \/ InitStep \/ InitStepFails
  PROVE  ModuleInv'
  <1> USE TableFacts
  <1>1. UNCHANGED <<driver, fileVars>> /\ Steps' = Steps
    BY DEF Insmod, InitStep, InitStepFails, Steps
  <1>2. CASE Insmod
    <2>1. LoadInv'
      BY <1>1, <1>2 DEF ModuleInv, LoadInv, Insmod, Before
    <2>2. FileInv'
      BY <1>1, <1>2, FilesKeep DEF ModuleInv, Insmod
    <2> QED  BY <1>1, <2>1, <2>2 DEF ModuleInv
  <1>3. CASE InitStep
    <2>1. step \in 1..Len(Steps) /\ held = Before(Steps, step) /\ todo = <<>>
      BY <1>3 DEF ModuleInv, LoadInv, InitStep
    <2>2. held' = Before(Steps, step + 1)
      <3>1. held' = held \cup {Steps[step]}
        BY <1>3 DEF InitStep
      <3>2. 1..(step + 1) - 1 = (1..step - 1) \cup {step}
        BY <2>1
      <3> QED  BY <2>1, <3>1, <3>2 DEF Before
    <2>3. step' \in 1..Len(Steps) + 1
      BY <1>3, <2>1 DEF InitStep
    <2>4. LoadInv'
      BY <1>1, <1>3, <2>1, <2>2, <2>3 DEF ModuleInv, LoadInv, InitStep
    <2>5. FileInv'
      BY <1>1, <1>3, <2>1, FilesKeep DEF ModuleInv, InitStep
    <2> QED  BY <1>1, <2>4, <2>5 DEF ModuleInv
  <1>4. CASE InitStepFails
    <2>1. step \in 1..Len(Steps) /\ held = Before(Steps, step) /\ todo = <<>>
      BY <1>4 DEF ModuleInv, LoadInv, InitStepFails
    <2>2. Undoes(todo', held', ToSet(Steps)')
      BY <1>1, <1>4, <2>1 DEF InitStepFails
    <2>3. LoadInv'
      BY <1>1, <1>4, <2>1, <2>2 DEF ModuleInv, LoadInv, InitStepFails
    <2>4. FileInv'
      BY <1>1, <1>4, <2>1, FilesKeep DEF ModuleInv, InitStepFails
    <2> QED  BY <1>1, <2>3, <2>4 DEF ModuleInv
  <1> QED  BY <1>2, <1>3, <1>4

LEMMA ReleaseStep ==
  ASSUME ModuleInv, Release
  PROVE  ModuleInv'
  <1>1. UNCHANGED <<driver, module, step, failed, fileVars>> /\ Steps' = Steps
    BY DEF Release, Steps
  <1>2. module = "going" \/ failed # 0
    BY DEF Release, ModuleInv, LoadInv
  <1>3. failed # 0 \/ (module = "going" /\ Exact) => Undoes(todo', held', ToSet(Steps)')
    BY <1>1, PopKeeps DEF Release, ModuleInv, LoadInv
  <1>7. module = "going" => todo' \in Seq(ToSet(Steps)) /\ held' \subseteq ToSet(todo')
    BY <1>1, PopCovers DEF Release, ModuleInv, LoadInv
  <1>4. module \in {"coming", "going"} /\ (module = "coming" => failed # 0)
    BY <1>2 DEF ModuleInv, LoadInv
  <1>5. LoadInv'
    BY <1>1, <1>3, <1>4, <1>7 DEF ModuleInv, LoadInv
  <1>6. FileInv'
    BY <1>1, TableFacts, FilesKeep DEF ModuleInv
  <1> QED  BY <1>1, <1>5, <1>6 DEF ModuleInv

LEMMA NothingToUndo ==
  ASSUME NEW R, NEW acquired, Undoes(<<>>, acquired, R)
  PROVE  acquired = {}
  BY DEF Undoes, ToSet

LEMMA ReturnSteps ==
  ASSUME ModuleInv, InitReturns \/ Rmmod \/ ExitReturns
  PROVE  ModuleInv'
  <1> USE TableFacts
  <1>1. UNCHANGED <<driver, held, fileVars>> /\ Steps' = Steps
    BY DEF InitReturns, Rmmod, ExitReturns, Steps
  <1>2. CASE InitReturns
    <2>0. module = "coming" /\ todo = <<>> /\ todo' = <<>> /\ step' = 0 /\ failed' = 0
      BY <1>2 DEF InitReturns
    <2>1. CASE failed = 0
      <3>1. step = Len(Steps) + 1 /\ module' = "live" /\ held = Before(Steps, step)
        BY <1>2, <2>0, <2>1 DEF InitReturns, ModuleInv, LoadInv
      <3>2. held = ToSet(Steps)
        BY <3>1, BeforeStands
      <3>3. LoadInv'
        BY <1>1, <2>0, <3>1, <3>2 DEF LoadInv
      <3>4. FileInv'
        BY <1>1, <2>0, <3>1, FilesKeep DEF ModuleInv
      <3> QED  BY <1>1, <3>3, <3>4 DEF ModuleInv
    <2>2. CASE failed # 0
      <3>1. module' = "unloaded" \/ (module' = "live" /\ ~Exact)
        BY <1>2, <2>2 DEF InitReturns, ErrorCodes, Exact
      <3>2. held = {}
        BY <2>0, <2>2, NothingToUndo DEF ModuleInv, LoadInv
      <3>3. LoadInv'
        BY <1>1, <2>0, <3>1, <3>2 DEF LoadInv
      <3>4. FileInv'
        BY <1>1, <2>0, <2>2, <3>1, FilesKeep DEF ModuleInv
      <3> QED  BY <1>1, <3>3, <3>4 DEF ModuleInv
    <2> QED  BY <2>1, <2>2
  <1>3. CASE Rmmod
    <2>1. /\ module = "live" /\ module' = "going" /\ step' = 0 /\ failed' = 0
          /\ held \subseteq ToSet(Steps) /\ (Exact => held = ToSet(Steps))
          /\ todo' = ExitOf[driver]
          /\ todo' \in Seq(ToSet(Steps)) /\ ToSet(todo') = ToSet(Steps)
      BY <1>3 DEF Rmmod, ModuleInv, LoadInv, Undoes
    <2>2. LoadInv'
      BY <1>1, <2>1 DEF LoadInv
    <2>3. FileInv'
      BY <1>1, <1>3, <2>1, FilesKeep DEF ModuleInv, Rmmod, Pinned
    <2> QED  BY <1>1, <2>2, <2>3 DEF ModuleInv
  <1>4. CASE ExitReturns
    <2>1. /\ module = "going" /\ module' = "unloaded" /\ step' = 0 /\ failed' = 0
          /\ todo = <<>> /\ todo' = <<>>
      BY <1>4 DEF ExitReturns, ModuleInv, LoadInv
    <2>2. held = {}
      BY <2>1 DEF ModuleInv, LoadInv, ToSet
    <2>3. LoadInv'
      BY <1>1, <2>1, <2>2 DEF LoadInv
    <2>4. FileInv'
      BY <1>1, <2>1, FilesKeep DEF ModuleInv
    <2> QED  BY <1>1, <2>3, <2>4 DEF ModuleInv
  <1> QED  BY <1>2, <1>3, <1>4

LEMMA FileSteps ==
  ASSUME ModuleInv, NEW u \in Users, Open(u) \/ Close(u)
  PROVE  ModuleInv'
  <1>1. UNCHANGED <<driver, module, step, failed, todo, held>> /\ Steps' = Steps
        /\ Devices' = Devices
    BY DEF Open, Close, Steps, Devices
  <1>2. LoadInv'
    BY <1>1 DEF ModuleInv, LoadInv
  <1>3. CASE Open(u)
    <2>1. file' \in [Users -> Devices \cup {NoFile}] /\ early' \subseteq Users
      BY <1>3 DEF Open, ModuleInv, FileInv
    <2>2. \A v \in Users \ {u} : file'[v] = file[v] /\ (v \in early' <=> v \in early)
      BY <1>3 DEF Open, ModuleInv, FileInv
    <2>3. u \notin early' => \/ module = "live"
                             \/ module = "coming" /\ failed = 0 /\ step > Len(Steps)
      BY <1>3, TableFacts DEF Open, Initialising, ModuleInv, LoadInv
    <2>4. FileInv'
      BY <1>1, <2>1, <2>2, <2>3 DEF ModuleInv, FileInv
    <2> QED  BY <1>1, <1>2, <2>4 DEF ModuleInv
  <1>4. CASE Close(u)
    <2>1. file' \in [Users -> Devices \cup {NoFile}] /\ early' \subseteq Users
      BY <1>4 DEF Close, ModuleInv, FileInv
    <2>2. /\ file'[u] = NoFile
          /\ \A v \in Users \ {u} : file'[v] = file[v] /\ (v \in early' <=> v \in early)
      BY <1>4 DEF Close, ModuleInv, FileInv
    <2>3. FileInv'
      BY <1>1, <2>1, <2>2 DEF ModuleInv, FileInv
    <2> QED  BY <1>1, <1>2, <2>3 DEF ModuleInv
  <1> QED  BY <1>3, <1>4

-----------------------------------------------------------------------------
(* Theorems                                                                *)

\* ModuleInv is inductive, whatever is read back from freed memory.
THEOREM ModuleInvariance == Spec => []ModuleInv
  <1>1. ModuleInv /\ [Next]_moduleVars => ModuleInv'
    <2> SUFFICES ASSUME ModuleInv, [Next]_moduleVars  PROVE ModuleInv'
      OBVIOUS
    <2>1. CASE Insmod \/ InitStep \/ InitStepFails
      BY <2>1, LoadSteps
    <2>2. CASE Release
      BY <2>2, ReleaseStep
    <2>3. CASE InitReturns \/ Rmmod \/ ExitReturns
      BY <2>3, ReturnSteps
    <2>4. CASE \E u \in Users : Open(u) \/ Close(u)
      BY <2>4, FileSteps
    <2>5. CASE UNCHANGED moduleVars
      BY <2>5 DEF moduleVars, fileVars, ModuleInv, LoadInv, FileInv, Steps, Devices
    <2> QED  BY <2>1, <2>2, <2>3, <2>4, <2>5 DEF Next
  <1> QED  BY <1>1, LoadInit, PTL DEF Spec

\* Every variable keeps its type, of each driver.
THEOREM ModuleTypeCorrect == Spec => []TypeOK
  <1>1. ModuleInv => TypeOK
    <2> SUFFICES ASSUME ModuleInv  PROVE TypeOK
      OBVIOUS
    <2>1. held \subseteq ToSet(Steps) /\ ToSet(todo) \subseteq ToSet(Steps)
      <3>1. CASE module = "going" \/ failed # 0
        <4>1. todo \in Seq(ToSet(Steps)) /\ held \subseteq ToSet(todo)
          BY <3>1 DEF ModuleInv, LoadInv, Undoes
        <4> QED  BY <4>1 DEF ToSet
      <3>2. CASE ~(module = "going" \/ failed # 0)
        <4>1. todo = <<>>
          BY <3>2 DEF ModuleInv, LoadInv
        <4>2. ToSet(todo) = {}
          BY <4>1 DEF ToSet
        <4>3. held \subseteq ToSet(Steps)
          BY <3>2, TableFacts DEF ModuleInv, LoadInv, Before, ToSet
        <4> QED  BY <4>2, <4>3
      <3> QED  BY <3>1, <3>2
    <2> QED  BY <2>1 DEF ModuleInv, LoadInv, FileInv, TypeOK
  <1> QED  BY <1>1, ModuleInvariance, PTL

\* Whichever step of init fails, and after exit, all is released.
THEOREM NothingLeaks == Spec => []NoLeak
  <1>1. ModuleInv => NoLeak
    BY DEF ModuleInv, LoadInv, NoLeak
  <1> QED  BY <1>1, ModuleInvariance, PTL

\* An error path, and exit, releases what is acquired, and that once, as long
\* as freed memory keeps the error code that 06, 07 and 08 read back from it.
THEOREM ReleasesOnce ==
  ASSUME FreedReads = {"error"}
  PROVE  Spec => []ReleasedOnce
  <1>1. ModuleInv => ReleasedOnce
    BY PopKeeps DEF ModuleInv, LoadInv, ReleasedOnce, Exact
  <1> QED  BY <1>1, ModuleInvariance, PTL

\* Init and exit, and every error path, keep what is built on something within
\* the life of that, as long as freed memory keeps the error code.
THEOREM BasesOutlive ==
  ASSUME FreedReads = {"error"}
  PROVE  Spec => []NeedsHeld
  <1>1. ModuleInv => NeedsHeld
    <2> SUFFICES ASSUME ModuleInv  PROVE NeedsHeld
      OBVIOUS
    <2>1. Stands(held, ToSet(Steps))
      <3>1. CASE module = "going" \/ failed # 0
        BY <3>1, UndoesStands DEF ModuleInv, LoadInv, Exact
      <3>2. CASE module = "coming" /\ failed = 0
        <4>1. held = Before(Steps, step) /\ step \in 1..Len(Steps) + 1
          BY <3>2, TableFacts DEF ModuleInv, LoadInv
        <4> QED  BY <4>1, TableFacts, BeforeStands
      <3>3. CASE module = "live"
        BY <3>3, TableFacts, AllStands DEF ModuleInv, LoadInv, Exact
      <3>4. CASE module = "unloaded"
        BY <3>4 DEF ModuleInv, LoadInv, Stands
      <3> QED  BY <3>1, <3>2, <3>3, <3>4 DEF ModuleInv, LoadInv
    <2> QED  BY <2>1 DEF NeedsHeld, Stands, BuiltOn
  <1> QED  BY <1>1, ModuleInvariance, PTL

\* A module that is live has all that its init function acquires, as long as
\* freed memory keeps the error code: a run shows 06, 07 and 08 live without
\* their device where it does not.
THEOREM LiveIsComplete ==
  ASSUME FreedReads = {"error"}
  PROVE  Spec => []LiveComplete
  <1>1. ModuleInv => LiveComplete
    BY DEF ModuleInv, LoadInv, LiveComplete, Exact
  <1> QED  BY <1>1, ModuleInvariance, PTL

\* The device under an open file stays, unless it was opened before init had
\* made all devices, as long as freed memory keeps the error code.
THEOREM OpenFilesStaySafe ==
  ASSUME FreedReads = {"error"}
  PROVE  Spec => []OpenFilesSafe
  <1>1. ModuleInv => OpenFilesSafe
    <2> SUFFICES ASSUME ModuleInv, NEW u \in Users \ early, file[u] # NoFile,
                        NEW kind \in {"dev", "buffer", "data"},
                        <<kind, file[u]>> \in ToSet(Steps)
                 PROVE  <<kind, file[u]>> \in held
      BY DEF OpenFilesSafe
    <2>1. CASE driver \in Unowned
      <3>1. \A r \in ToSet(Steps) : r[1] = "chrdev"
        BY <2>1, UnownedSteps DEF Steps
      <3> QED  BY <3>1
    <2>2. CASE driver \notin Unowned /\ module = "live"
      BY <2>2 DEF ModuleInv, LoadInv, Exact
    <2>3. CASE module = "coming" /\ failed = 0 /\ step > Len(Steps)
      <3>1. step = Len(Steps) + 1 /\ held = Before(Steps, step)
        BY <2>3, TableFacts DEF ModuleInv, LoadInv
      <3> QED  BY <3>1, TableFacts, BeforeStands
    <2> QED  BY <2>1, <2>2, <2>3 DEF ModuleInv, FileInv
  <1> QED  BY <1>1, ModuleInvariance, PTL
=============================================================================
