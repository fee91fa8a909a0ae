--------------------------- MODULE RamDiskProofs ---------------------------
(***************************************************************************)
(* Proofs about RamDisk, for any disk, requests cut in any way and any     *)
(* number of CPUs: a request is transferred whole, and each sector is a    *)
(* safe register.                                                          *)
(***************************************************************************)
EXTENDS RamDisk, TLAPS

-----------------------------------------------------------------------------
(* The inductive invariant                                                 *)

Labels == {"idle", "bio", "segment", "copy", "end"}

Bios == Seq(Seq(Nat))

DiskTypes ==
  /\ disk \in [0..Size - 1 -> Piece]
  /\ pc \in [Cpus -> Labels]
  /\ rq \in [Cpus -> Requests \cup {NoRq}]
  /\ bios \in [Cpus -> Bios]
  /\ segs \in [Cpus -> Seq(Nat)]
  /\ sector \in [Cpus -> Nat]
  /\ copied \in [Cpus -> Nat]
  /\ done \in [Cpus -> Nat]
  /\ page \in [Cpus -> Seq(Piece)]
  /\ status \in [Cpus -> {"none", "OK", "IOERR"}]
  /\ clean \subseteq Cpus
  /\ known \subseteq 0..NSECTORS - 1

Total(c) == End(rq[c].shape)

\* The segments still to visit, and the bios after them, are the rest of the
\* request, and what is copied is what was before them.
AtSegment(c) ==
  LET s == segs[c] IN
  /\ Len(s) > 0 /\ Last(s) <= Total(c)
  /\ \A i, j \in 1..Len(s) : i < j => s[i] < s[j]
  /\ Covers(bios[c], Last(s), Total(c))
  /\ sector[c] = rq[c].first + s[1]
  /\ done[c] = s[1] * SECTOR_SIZE + copied[c]

\* What a CPU has established at each label.
Place(c) ==
  /\ pc[c] = "idle" => rq[c] = NoRq /\ done[c] = 0
  /\ pc[c] # "idle" => rq[c] \in Requests
  /\ pc[c] # "copy" => copied[c] = 0
  /\ pc[c] = "bio" =>
       /\ Covers(bios[c], done[c] \div SECTOR_SIZE, Total(c))
       /\ ~InSector(c)
  /\ pc[c] \in {"segment", "copy"} => AtSegment(c)
  /\ pc[c] = "copy" => /\ Len(segs[c]) > 1
                       /\ copied[c] <= SegLen(c) * SECTOR_SIZE
  /\ pc[c] = "end" => /\ status[c] = "OK"
                      /\ done[c] = Total(c) * SECTOR_SIZE

DiskInv == DiskTypes /\ \A c \in Cpus : Place(c)

-----------------------------------------------------------------------------
(* Sectors and pieces, requests and bios                                   *)

LEMMA PieceOf ==
  ASSUME NEW q \in Nat, NEW r \in Nat, r < SECTOR_SIZE
  PROVE  /\ (q * SECTOR_SIZE + r) \div SECTOR_SIZE = q
         /\ (q * SECTOR_SIZE + r) % SECTOR_SIZE = r
  <1>1. \A a, b, d \in Nat : d > 0 /\ b < d => (a * d + b) \div d = a
    OBVIOUS
  <1>2. \A a, b, d \in Nat : d > 0 /\ b < d => (a * d + b) % d = b
    OBVIOUS
  <1> QED  BY <1>1, <1>2, DiskAssumption

LEMMA SplitPiece ==
  ASSUME NEW n \in Nat
  PROVE  /\ n \div SECTOR_SIZE \in Nat
         /\ n % SECTOR_SIZE \in 0..SECTOR_SIZE - 1
         /\ n = (n \div SECTOR_SIZE) * SECTOR_SIZE + (n % SECTOR_SIZE)
  <1>1. \A a, d \in Nat : d > 0 => a = (a \div d) * d + (a % d)
    OBVIOUS
  <1>2. \A a, d \in Nat : d > 0 => a % d \in 0..d - 1
    OBVIOUS
  <1>3. \A a, d \in Nat : d > 0 => a \div d \in Nat
    OBVIOUS
  <1> QED  BY <1>1, <1>2, <1>3, DiskAssumption

LEMMA WholeSectors ==
  ASSUME NEW q \in Nat
  PROVE  /\ (q * SECTOR_SIZE) \div SECTOR_SIZE = q
         /\ (q * SECTOR_SIZE) % SECTOR_SIZE = 0
  <1>1. q * SECTOR_SIZE + 0 = q * SECTOR_SIZE
    BY DiskAssumption
  <1> QED  BY <1>1, PieceOf, DiskAssumption

LEMMA BetweenSectors ==
  ASSUME NEW n \in Nat, n % SECTOR_SIZE = 0
  PROVE  /\ n \div SECTOR_SIZE \in Nat
         /\ n = (n \div SECTOR_SIZE) * SECTOR_SIZE
  <1>1. /\ n \div SECTOR_SIZE \in Nat
        /\ n = (n \div SECTOR_SIZE) * SECTOR_SIZE + (n % SECTOR_SIZE)
    BY SplitPiece
  <1>2. (n \div SECTOR_SIZE) * SECTOR_SIZE \in Nat
    BY <1>1, DiskAssumption
  <1> QED  BY <1>1, <1>2

\* Fewer sectors hold fewer pieces.
LEMMA SectorsBelow ==
  ASSUME NEW a \in Nat, NEW b \in Nat, a <= b
  PROVE  a * SECTOR_SIZE <= b * SECTOR_SIZE
  <1>1. \A x, y, d \in Nat : x <= y => x * d <= y * d
    OBVIOUS
  <1> QED  BY <1>1, DiskAssumption

LEMMA SizeNat == Size \in Nat
  BY DiskAssumption DEF Size

LEMMA RequestFacts ==
  ASSUME NEW r \in Requests
  PROVE  /\ r.dir \in {"READ", "WRITE"} /\ r.first \in 0..NSECTORS - 1
         /\ r.dir = "WRITE" => r.value \in Values
         /\ r.shape \in Bios /\ r.shape # <<>>
         /\ Covers(r.shape, 0, End(r.shape)) /\ End(r.shape) \in Nat
         /\ r.first + End(r.shape) <= NSECTORS
  <1>1. /\ r.dir \in {"READ", "WRITE"} /\ r.first \in 0..NSECTORS - 1
        /\ r.dir = "WRITE" => r.value \in Values
        /\ r.shape \in Shapes
        /\ r.first + End(r.shape) <= NSECTORS
    BY DEF Requests
  <1>2. /\ r.shape \in Bios /\ r.shape # <<>>
        /\ Covers(r.shape, 0, End(r.shape))
    BY <1>1, DiskAssumption DEF Bios
  <1>3. End(r.shape) \in Nat
    <2>1. Len(r.shape) \in 1..Len(r.shape) /\ r.shape[Len(r.shape)] \in Seq(Nat)
      BY <1>2 DEF Bios
    <2>2. Len(r.shape[Len(r.shape)]) > 1
      BY <1>2, <2>1 DEF Covers
    <2> QED  BY <2>1, <2>2 DEF End, Last
  <1> QED  BY <1>1, <1>2, <1>3

\* The first of the bios still to visit starts where they do.
LEMMA FirstBio ==
  ASSUME NEW s \in Bios, s # <<>>, NEW from \in Nat, NEW to \in Nat,
         Covers(s, from, to)
  PROVE  LET b == Head(s) IN
         /\ b = s[1] /\ b \in Seq(Nat) /\ Len(b) > 1
         /\ b[1] = from /\ Last(b) \in Nat /\ Last(b) <= to
         /\ \A i, j \in 1..Len(b) : i < j => b[i] < b[j]
         /\ Tail(s) \in Bios /\ Covers(Tail(s), Last(b), to)
  <1> DEFINE b == Head(s)
             t == Tail(s)
  <1>1. /\ b = s[1] /\ 1 \in 1..Len(s) /\ b \in Seq(Nat) /\ t \in Bios
        /\ Len(t) = Len(s) - 1
        /\ \A k \in 1..Len(t) : k + 1 \in 1..Len(s) /\ t[k] = s[k + 1]
    BY DEF Bios
  <1>2. /\ Len(b) > 1 /\ Last(b) <= to /\ b[1] = from
        /\ \A i, j \in 1..Len(b) : i < j => b[i] < b[j]
    BY <1>1 DEF Covers
  <1>3. Last(b) \in Nat
    BY <1>1, <1>2 DEF Last
  <1> HIDE DEF b, t
  <1>4. Covers(t, Last(b), to)
    <2>1. CASE t = <<>>
      <3>1. Len(s) = 1
        <4>1. Len(t) = 0  BY <2>1
        <4>2. Len(s) \in Nat  BY DEF Bios
        <4> QED  BY <1>1, <4>1, <4>2
      <3>2. End(s) = Last(b)
        BY <1>1, <3>1 DEF End, Last
      <3> QED  BY <2>1, <3>2 DEF Covers
    <2>2. CASE t # <<>>
      <3>1. Len(t) \in Nat /\ Len(t) > 0 /\ Len(t) + 1 = Len(s)
        BY <1>1, <2>2 DEF Bios
      <3>2. End(t) = End(s)
        <4>1. t[Len(t)] = s[Len(s)]
          BY <1>1, <3>1
        <4> QED  BY <4>1 DEF End, Last
      <3>3. t[1] = s[2] /\ s[2][1] = Last(s[1])
        BY <1>1, <3>1 DEF Covers
      <3>4. ASSUME NEW k \in 1..Len(t)
            PROVE  /\ Len(t[k]) > 1 /\ Last(t[k]) <= to
                   /\ \A i, j \in 1..Len(t[k]) : i < j => t[k][i] < t[k][j]
                   /\ k > 1 => t[k][1] = Last(t[k - 1])
        <4>1. k + 1 \in 1..Len(s) /\ t[k] = s[k + 1] /\ k + 1 > 1
          BY <1>1
        <4>2. k > 1 => t[k - 1] = s[k]
          BY <1>1, <3>1
        <4>3. (k + 1) - 1 = k
          OBVIOUS
        <4> QED  BY <4>1, <4>2, <4>3 DEF Covers
      <3> QED  BY <1>1, <2>2, <3>2, <3>3, <3>4 DEF Covers
    <2> QED  BY <2>1, <2>2
  <1> QED  BY <1>1, <1>2, <1>3, <1>4 DEF b, t

-----------------------------------------------------------------------------
(* The invariant is preserved                                              *)

\* A step of one CPU leaves where the others are.
SamePlace(o) ==
  /\ pc'[o] = pc[o] /\ rq'[o] = rq[o] /\ bios'[o] = bios[o]
  /\ segs'[o] = segs[o] /\ sector'[o] = sector[o] /\ copied'[o] = copied[o]
  /\ done'[o] = done[o] /\ status'[o] = status[o]

LEMMA PlaceFrame ==
  ASSUME DiskInv, NEW c \in Cpus, DiskTypes', Place(c)',
         \A o \in Cpus \ {c} : SamePlace(o)
  PROVE  DiskInv'
  <1> SUFFICES ASSUME NEW o \in Cpus \ {c}  PROVE Place(o)'
    BY DEF DiskInv
  <1>1. Place(o) /\ SamePlace(o)  BY DEF DiskInv
  <1> QED  BY <1>1 DEF Place, AtSegment, Total, SegLen, InSector, SamePlace

LEMMA InitDiskInv == Init => DiskInv
  <1> SUFFICES ASSUME Init  PROVE DiskInv
    OBVIOUS
  <1>1. Zero \in Piece  BY DEF Piece
  <1>2. DiskTypes
    <2>1. <<>> \in Bios /\ <<>> \in Seq(Nat) /\ <<>> \in Seq(Piece)
      BY DEF Bios
    <2> QED  BY <1>1, <2>1 DEF DiskTypes, Init, Labels
  <1>3. ASSUME NEW c \in Cpus  PROVE Place(c)
    BY DEF Place, Init
  <1> QED  BY <1>2, <1>3 DEF DiskInv

LEMMA HistoryTypes ==
  ASSUME History
  PROVE  clean' \subseteq Cpus /\ known' \subseteq 0..NSECTORS - 1
  BY DEF History

LEMMA QueueRqInv ==
  ASSUME DiskInv, NEW c \in Cpus, QueueRq(c), History
  PROVE  DiskInv'
  <1> USE DEF QueueRq, Goto
  <1>1. PICK r \in Requests : /\ rq' = [rq EXCEPT ![c] = r]
                              /\ bios' = [bios EXCEPT ![c] = r.shape]
    OBVIOUS
  <1>2. DiskTypes'
    BY <1>1, RequestFacts, HistoryTypes DEF DiskInv, DiskTypes, Labels
  <1>3. Place(c)'
    <2>1. /\ pc'[c] = "bio" /\ rq'[c] = r /\ bios'[c] = r.shape
          /\ done'[c] = 0 /\ copied'[c] = 0
      BY <1>1 DEF DiskInv, DiskTypes, Place
    <2>2. 0 \div SECTOR_SIZE = 0 /\ 0 % SECTOR_SIZE = 0
      <3>1. 0 * SECTOR_SIZE = 0  BY DiskAssumption
      <3> QED  BY <3>1, WholeSectors
    <2> QED
      BY <2>1, <2>2, RequestFacts DEF Place, Total, InSector
  <1>4. \A o \in Cpus \ {c} : SamePlace(o)
    BY <1>1 DEF DiskInv, DiskTypes, SamePlace
  <1> QED  BY <1>2, <1>3, <1>4, PlaceFrame

LEMMA NextBioInv ==
  ASSUME DiskInv, NEW c \in Cpus, NextBio(c), History
  PROVE  DiskInv'
  <1> USE DEF NextBio, Goto
  <1> DEFINE b  == Head(bios[c])
             at == done[c] \div SECTOR_SIZE
  <1>1. /\ rq[c] \in Requests /\ bios[c] \in Bios /\ bios[c] # <<>>
        /\ Covers(bios[c], at, Total(c)) /\ done[c] \in Nat
        /\ done[c] % SECTOR_SIZE = 0 /\ copied[c] = 0
    BY DEF DiskInv, DiskTypes, Place, InSector
  <1>2. Total(c) \in Nat /\ rq[c].first \in Nat
    BY <1>1, RequestFacts DEF Total
  <1>3. at \in Nat /\ done[c] = at * SECTOR_SIZE
    BY <1>1, BetweenSectors
  <1> HIDE DEF at
  <1>4. /\ b = bios[c][1] /\ b \in Seq(Nat) /\ Len(b) > 1
        /\ b[1] = at /\ Last(b) \in Nat /\ Last(b) <= Total(c)
        /\ \A i, j \in 1..Len(b) : i < j => b[i] < b[j]
        /\ Tail(bios[c]) \in Bios /\ Covers(Tail(bios[c]), Last(b), Total(c))
    BY <1>1, <1>2, <1>3, FirstBio
  <1> HIDE DEF b
  <1>5. /\ sector' = [sector EXCEPT ![c] = rq[c].first + at]
        /\ segs' = [segs EXCEPT ![c] = b]
        /\ bios' = [bios EXCEPT ![c] = Tail(bios[c])]
        /\ pc' = [pc EXCEPT ![c] = "segment"]
    BY <1>4 DEF b
  <1>6. DiskTypes'
    <2>1. rq[c].first + at \in Nat
      BY <1>2, <1>3
    <2>2. sector' \in [Cpus -> Nat]
      BY <1>5, <2>1 DEF DiskInv, DiskTypes
    <2>3. segs' \in [Cpus -> Seq(Nat)]
      BY <1>4, <1>5 DEF DiskInv, DiskTypes
    <2>4. bios' \in [Cpus -> Bios]
      BY <1>4, <1>5 DEF DiskInv, DiskTypes
    <2> QED  BY <1>5, <2>2, <2>3, <2>4, HistoryTypes DEF DiskInv, DiskTypes, Labels
  <1>7. Place(c)'
    <2>1. /\ sector'[c] = rq[c].first + at /\ segs'[c] = b
          /\ bios'[c] = Tail(bios[c]) /\ pc'[c] = "segment"
          /\ rq'[c] = rq[c] /\ done'[c] = done[c] /\ copied'[c] = copied[c]
      BY <1>5 DEF DiskInv, DiskTypes
    <2>2. Total(c)' = Total(c)
      BY <2>1 DEF Total
    <2>3. done[c] = at * SECTOR_SIZE + copied[c]
      BY <1>1, <1>3, DiskAssumption
    <2>4. AtSegment(c)'
      BY <1>4, <2>1, <2>2, <2>3 DEF AtSegment
    <2> QED  BY <1>1, <2>1, <2>4 DEF Place
  <1>8. \A o \in Cpus \ {c} : SamePlace(o)
    BY <1>5 DEF DiskInv, DiskTypes, SamePlace
  <1> QED  BY <1>6, <1>7, <1>8, PlaceFrame

\* The current segment is within the request, and so within the disk.
LEMMA InDisk ==
  ASSUME DiskInv, NEW c \in Cpus, pc[c] \in {"segment", "copy"},
         Len(segs[c]) > 1
  PROVE  /\ segs[c][1] \in Nat /\ segs[c][2] \in Nat
         /\ segs[c][1] < segs[c][2] /\ segs[c][2] <= Last(segs[c])
         /\ SegLen(c) \in Nat /\ SegLen(c) > 0
         /\ sector[c] + SegLen(c) <= rq[c].first + Total(c)
         /\ sector[c] + SegLen(c) <= NSECTORS
  <1>1. segs[c] \in Seq(Nat) /\ AtSegment(c) /\ rq[c] \in Requests
    BY DEF DiskInv, DiskTypes, Place
  <1>2. Len(segs[c]) \in Nat
    BY <1>1
  <1>3. segs[c][1] \in Nat /\ segs[c][2] \in Nat /\ Last(segs[c]) \in Nat
    BY <1>1, <1>2 DEF Last
  <1>4. segs[c][1] < segs[c][2]
    BY <1>1, <1>2 DEF AtSegment
  <1>5. segs[c][2] <= Last(segs[c])
    BY <1>1, <1>2, <1>3 DEF AtSegment, Last
  <1>6. /\ Last(segs[c]) <= Total(c) /\ sector[c] = rq[c].first + segs[c][1]
    BY <1>1 DEF AtSegment
  <1>7. /\ Total(c) \in Nat /\ rq[c].first \in Nat
        /\ rq[c].first + Total(c) <= NSECTORS
    BY <1>1, RequestFacts DEF Total
  <1>8. NSECTORS \in Nat
    BY DiskAssumption
  <1>9. \A f, x, y, z, t, n \in Nat :
          x < y /\ y <= z /\ z <= t /\ f + t <= n =>
            /\ y - x \in Nat /\ y - x > 0
            /\ f + x + (y - x) <= f + t /\ f + x + (y - x) <= n
    OBVIOUS
  <1> DEFINE f == rq[c].first
             x == segs[c][1]
             y == segs[c][2]
             z == Last(segs[c])
             t == Total(c)
  <1>10. SegLen(c) = y - x /\ sector[c] = f + x
    BY <1>6 DEF SegLen
  <1>11. /\ f \in Nat /\ x \in Nat /\ y \in Nat /\ z \in Nat /\ t \in Nat
         /\ x < y /\ y <= z /\ z <= t /\ f + t <= NSECTORS
    BY <1>3, <1>4, <1>5, <1>6, <1>7
  <1> HIDE DEF f, x, y, z, t
  <1>12. /\ SegLen(c) \in Nat /\ SegLen(c) > 0
         /\ sector[c] + SegLen(c) <= f + t /\ sector[c] + SegLen(c) <= NSECTORS
    BY <1>8, <1>9, <1>10, <1>11
  <1> QED  BY <1>11, <1>12 DEF f, x, y, z, t

LEMMA SegmentStartsInv ==
  ASSUME DiskInv, NEW c \in Cpus, SegmentStarts(c), History
  PROVE  DiskInv'
  <1> USE DEF SegmentStarts, Goto, loopVars
  <1>1. pc[c] = "segment" /\ AtSegment(c) /\ Len(segs[c]) > 1
    BY DEF DiskInv, Place
  <1>2. ~PastEnd(c)
    <2>1. /\ sector[c] + SegLen(c) \in Nat /\ sector[c] + SegLen(c) <= NSECTORS
      BY <1>1, InDisk DEF DiskInv, DiskTypes
    <2>2. (sector[c] + SegLen(c)) * SECTOR_SIZE <= NSECTORS * SECTOR_SIZE
      BY <2>1, SectorsBelow, DiskAssumption
    <2>3. /\ (sector[c] + SegLen(c)) * SECTOR_SIZE \in Nat
          /\ NSECTORS * SECTOR_SIZE \in Nat
      BY <2>1, DiskAssumption
    <2> QED  BY <2>2, <2>3 DEF PastEnd, Size
  <1>3. pc' = [pc EXCEPT ![c] = "copy"] /\ status' = [status EXCEPT ![c] = @]
    BY <1>2
  <1>4. DiskTypes'
    BY <1>3, HistoryTypes DEF DiskInv, DiskTypes, Labels
  <1>5. Place(c)'
    <2>1. /\ pc'[c] = "copy" /\ copied'[c] = 0 /\ segs'[c] = segs[c]
          /\ rq'[c] = rq[c]
      BY <1>1, <1>3 DEF DiskInv, DiskTypes, Place
    <2>2. AtSegment(c)'
      BY <1>1 DEF AtSegment, Total
    <2>3. 0 <= SegLen(c)' * SECTOR_SIZE
      <3>1. SegLen(c) \in Nat /\ SegLen(c)' = SegLen(c)
        BY <1>1, InDisk DEF SegLen
      <3> QED  BY <3>1, DiskAssumption
    <2>4. rq[c] \in Requests
      BY <1>1 DEF DiskInv, Place
    <2> QED  BY <1>1, <2>1, <2>2, <2>3, <2>4 DEF Place
  <1>6. \A o \in Cpus \ {c} : SamePlace(o)
    BY <1>3 DEF DiskInv, DiskTypes, SamePlace
  <1> QED  BY <1>4, <1>5, <1>6, PlaceFrame

\* A piece is copied to or from the place of the disk that the request means.
LEMMA PlaceOfPiece ==
  ASSUME DiskInv, NEW c \in Cpus, pc[c] = "copy",
         copied[c] < SegLen(c) * SECTOR_SIZE
  PROVE  /\ sector[c] * SECTOR_SIZE + copied[c]
              = rq[c].first * SECTOR_SIZE + done[c]
         /\ rq[c].first * SECTOR_SIZE + done[c] \in 0..Size - 1
  <1> DEFINE f == rq[c].first
             x == segs[c][1]
             d == copied[c]
             l == SegLen(c)
  <1>1. /\ AtSegment(c) /\ Len(segs[c]) > 1 /\ rq[c] \in Requests
        /\ copied[c] \in Nat /\ done[c] \in Nat /\ sector[c] \in Nat
    BY DEF DiskInv, DiskTypes, Place
  <1>2. /\ x \in Nat /\ l \in Nat /\ sector[c] + l <= NSECTORS
    BY <1>1, InDisk
  <1>3. f \in Nat /\ d \in Nat
    BY <1>1, RequestFacts
  <1>4. sector[c] = f + x /\ done[c] = x * SECTOR_SIZE + d
    BY <1>1 DEF AtSegment
  <1>5. SECTOR_SIZE \in Nat /\ NSECTORS \in Nat
    BY DiskAssumption
  <1>6. d < l * SECTOR_SIZE
    OBVIOUS
  <1> HIDE DEF f, x, d, l
  <1>7. (f + x) * SECTOR_SIZE + d = f * SECTOR_SIZE + (x * SECTOR_SIZE + d)
    <2>1. \A u, v, w, k \in Nat : (u + v) * w + k = u * w + (v * w + k)
      OBVIOUS
    <2> QED  BY <1>2, <1>3, <1>5, <2>1
  <1>8. (f + x) * SECTOR_SIZE + d < NSECTORS * SECTOR_SIZE
    <2>1. (f + x) * SECTOR_SIZE + l * SECTOR_SIZE = (f + x + l) * SECTOR_SIZE
      <3>1. \A u, v, w \in Nat : u * w + v * w = (u + v) * w
        OBVIOUS
      <3> QED  BY <1>2, <1>3, <1>5, <3>1
    <2>2. (f + x + l) * SECTOR_SIZE <= NSECTORS * SECTOR_SIZE
      BY <1>2, <1>3, <1>4, <1>5, SectorsBelow
    <2>3. /\ (f + x) * SECTOR_SIZE \in Nat /\ l * SECTOR_SIZE \in Nat
          /\ (f + x + l) * SECTOR_SIZE \in Nat /\ NSECTORS * SECTOR_SIZE \in Nat
      BY <1>2, <1>3, <1>5
    <2> QED  BY <1>3, <1>6, <2>1, <2>2, <2>3
  <1>9. (f + x) * SECTOR_SIZE + d \in Nat /\ NSECTORS * SECTOR_SIZE \in Nat
    BY <1>2, <1>3, <1>5
  <1>10. /\ sector[c] * SECTOR_SIZE + d = f * SECTOR_SIZE + done[c]
         /\ f * SECTOR_SIZE + done[c] \in 0..Size - 1
    BY <1>4, <1>7, <1>8, <1>9 DEF Size
  <1> QED  BY <1>10 DEF f, d

LEMMA CopyPieceInv ==
  ASSUME DiskInv, NEW c \in Cpus, CopyPiece(c), History
  PROVE  DiskInv'
  <1> USE DEF CopyPiece
  <1> DEFINE at   == sector[c] * SECTOR_SIZE + copied[c]
             mine == rq[c].first * SECTOR_SIZE + done[c]
  <1>1. at = mine /\ mine \in 0..Size - 1
    BY PlaceOfPiece
  <1>2. /\ pc[c] = "copy" /\ AtSegment(c) /\ Len(segs[c]) > 1
        /\ rq[c] \in Requests /\ copied[c] \in Nat /\ done[c] \in Nat
        /\ segs[c] \in Seq(Nat)
    BY DEF DiskInv, DiskTypes, Place
  <1> HIDE DEF at, mine
  <1>3. disk' \in [0..Size - 1 -> Piece] /\ page' \in [Cpus -> Seq(Piece)]
    <2>1. CASE rq[c].dir = "WRITE"
      <3>1. <<rq[c].value, mine>> \in Piece
        BY <1>1, <1>2, <2>1, RequestFacts DEF Piece
      <3>2. disk' = [disk EXCEPT ![at] = <<rq[c].value, mine>>] /\ page' = page
        BY <2>1 DEF at, mine
      <3> QED  BY <3>1, <3>2 DEF DiskInv, DiskTypes
    <2>2. CASE rq[c].dir # "WRITE"
      <3>1. disk[at] \in Piece
        BY <1>1 DEF DiskInv, DiskTypes
      <3>2. disk' = disk /\
            page' = [page EXCEPT ![c] =
              IF InSector(c) THEN Append(page[c], disk[at]) ELSE <<disk[at]>>]
        BY <2>2 DEF at
      <3>3. /\ Append(page[c], disk[at]) \in Seq(Piece)
            /\ <<disk[at]>> \in Seq(Piece)
        BY <3>1 DEF DiskInv, DiskTypes
      <3> HIDE DEF at
      <3> QED  BY <3>2, <3>3 DEF DiskInv, DiskTypes
    <2> QED  BY <2>1, <2>2
  <1>4. DiskTypes'
    <2>1. copied' \in [Cpus -> Nat] /\ done' \in [Cpus -> Nat]
      BY <1>2 DEF DiskInv, DiskTypes
    <2> QED  BY <1>3, <2>1, HistoryTypes DEF DiskInv, DiskTypes
  <1>5. Place(c)'
    <2>1. /\ pc'[c] = "copy" /\ rq'[c] = rq[c] /\ bios'[c] = bios[c]
          /\ segs'[c] = segs[c] /\ sector'[c] = sector[c]
          /\ copied'[c] = copied[c] + 1 /\ done'[c] = done[c] + 1
      BY <1>2 DEF DiskInv, DiskTypes
    <2>2. done[c] + 1 = segs[c][1] * SECTOR_SIZE + (copied[c] + 1)
      <3>1. segs[c][1] \in Nat
        BY <1>2, InDisk
      <3>2. segs[c][1] * SECTOR_SIZE \in Nat
        BY <3>1, DiskAssumption
      <3> QED  BY <1>2, <3>2 DEF AtSegment
    <2>3. AtSegment(c)'
      BY <1>2, <2>1, <2>2 DEF AtSegment, Total
    <2>4. copied[c] + 1 <= SegLen(c) * SECTOR_SIZE
      <3>1. SegLen(c) \in Nat
        BY <1>2, InDisk
      <3>2. SegLen(c) * SECTOR_SIZE \in Nat
        BY <3>1, DiskAssumption
      <3> QED  BY <1>2, <3>2
    <2> QED
      BY <1>2, <2>1, <2>3, <2>4 DEF Place, SegLen
  <1>6. \A o \in Cpus \ {c} : SamePlace(o)
    BY DEF DiskInv, DiskTypes, SamePlace
  <1> QED  BY <1>4, <1>5, <1>6, PlaceFrame

LEMMA SegmentEndsInv ==
  ASSUME DiskInv, NEW c \in Cpus, SegmentEnds(c), History
  PROVE  DiskInv'
  <1> USE DEF SegmentEnds, Goto
  <1> DEFINE s == segs[c]
             t == Tail(segs[c])
  <1>1. /\ pc[c] = "copy" /\ AtSegment(c) /\ Len(s) > 1
        /\ rq[c] \in Requests /\ s \in Seq(Nat) /\ rq[c].first \in Nat
    BY RequestFacts DEF DiskInv, DiskTypes, Place
  <1>2. /\ s[1] \in Nat /\ s[2] \in Nat /\ SegLen(c) \in Nat
        /\ SegLen(c) = s[2] - s[1]
    BY <1>1, InDisk DEF SegLen
  <1>3. copied[c] \div SECTOR_SIZE = SegLen(c)
    BY <1>2, WholeSectors
  <1>4. /\ t \in Seq(Nat) /\ Len(t) = Len(s) - 1
        /\ \A i \in 1..Len(t) : t[i] = s[i + 1] /\ i + 1 \in 1..Len(s)
    BY <1>1
  <1>5. /\ s[1] <= s[2] /\ Len(s) \in Nat
        /\ copied[c] = (s[2] - s[1]) * SECTOR_SIZE
    BY <1>1, <1>2, InDisk
  <1>6. sector[c] = rq[c].first + s[1] /\ done[c] = s[1] * SECTOR_SIZE + copied[c]
    BY <1>1 DEF AtSegment
  <1> HIDE DEF s, t
  <1>8. s[2] * SECTOR_SIZE = s[1] * SECTOR_SIZE + copied[c]
    <2>1. \A u, v, w \in Nat : u <= v => v * w = u * w + (v - u) * w
      OBVIOUS
    <2> QED  BY <1>2, <1>5, <2>1, DiskAssumption
  <1>7. sector[c] + SegLen(c) = rq[c].first + s[2]
    <2>1. \A u, v, w \in Nat : (u + v) + (w - v) = u + w
      OBVIOUS
    <2>2. SegLen(c) = s[2] - s[1]
      BY <1>2
    <2> QED  BY <1>1, <1>2, <1>6, <2>1, <2>2
  <1>9. /\ sector' = [sector EXCEPT ![c] = rq[c].first + s[2]]
        /\ segs' = [segs EXCEPT ![c] = t]
        /\ copied' = [copied EXCEPT ![c] = 0]
        /\ page' = [page EXCEPT ![c] = <<>>]
        /\ pc' = [pc EXCEPT ![c] = "segment"]
    BY <1>3, <1>7 DEF t
  <1>10. DiskTypes'
    <2>1. rq[c].first + s[2] \in Nat
      BY <1>1, <1>2
    <2>2. sector' \in [Cpus -> Nat]
      BY <1>9, <2>1 DEF DiskInv, DiskTypes
    <2>3. segs' \in [Cpus -> Seq(Nat)]
      BY <1>4, <1>9 DEF DiskInv, DiskTypes
    <2>4. copied' \in [Cpus -> Nat] /\ page' \in [Cpus -> Seq(Piece)]
      BY <1>9 DEF DiskInv, DiskTypes
    <2> QED
      BY <1>9, <2>2, <2>3, <2>4, HistoryTypes DEF DiskInv, DiskTypes, Labels
  <1>11. Place(c)'
    <2>1. /\ pc'[c] = "segment" /\ rq'[c] = rq[c] /\ bios'[c] = bios[c]
          /\ segs'[c] = t /\ sector'[c] = rq[c].first + s[2]
          /\ copied'[c] = 0 /\ done'[c] = done[c]
      BY <1>9 DEF DiskInv, DiskTypes
    <2>2. Len(t) > 0 /\ Last(t) = Last(s) /\ t[1] = s[2]
      <3>1. Len(t) \in 1..Len(t) /\ 1 \in 1..Len(t) /\ Len(t) + 1 = Len(s)
        BY <1>1, <1>4, <1>5
      <3>2. t[Len(t)] = s[Len(t) + 1] /\ t[1] = s[1 + 1]
        BY <1>4, <3>1
      <3> QED  BY <3>1, <3>2 DEF Last
    <2>3. \A i, j \in 1..Len(t) : i < j => t[i] < t[j]
      <3> SUFFICES ASSUME NEW i \in 1..Len(t), NEW j \in 1..Len(t), i < j
                   PROVE  t[i] < t[j]
        OBVIOUS
      <3>1. t[i] = s[i + 1] /\ t[j] = s[j + 1]
        BY <1>4
      <3>2. i + 1 < j + 1
        BY <1>4, <1>5
      <3>3. i + 1 \in 1..Len(s) /\ j + 1 \in 1..Len(s)
        BY <1>4
      <3> QED  BY <1>1, <3>1, <3>2, <3>3 DEF AtSegment, s
    <2>4. done[c] = s[2] * SECTOR_SIZE + 0
      <3>1. s[2] * SECTOR_SIZE \in Nat
        BY <1>2, DiskAssumption
      <3> QED  BY <1>6, <1>8, <3>1
    <2>5. Last(s) <= Total(c) /\ Covers(bios[c], Last(s), Total(c))
      BY <1>1 DEF AtSegment, s
    <2>6. Total(c)' = Total(c)
      BY <2>1 DEF Total
    <2>7. AtSegment(c)'
      BY <2>1, <2>2, <2>3, <2>4, <2>5, <2>6 DEF AtSegment
    <2> QED  BY <1>1, <2>1, <2>7 DEF Place
  <1>12. \A o \in Cpus \ {c} : SamePlace(o)
    BY <1>9 DEF DiskInv, DiskTypes, SamePlace
  <1> QED  BY <1>10, <1>11, <1>12, PlaceFrame

LEMMA BioEndsInv ==
  ASSUME DiskInv, NEW c \in Cpus, BioEnds(c), History
  PROVE  DiskInv'
  <1> USE DEF BioEnds, Goto, loopVars
  <1>1. /\ pc[c] = "segment" /\ AtSegment(c) /\ Len(segs[c]) = 1
        /\ segs[c] \in Seq(Nat) /\ rq[c] \in Requests /\ copied[c] = 0
        /\ done[c] \in Nat
    BY DEF DiskInv, DiskTypes, Place
  <1>2. Last(segs[c]) = segs[c][1] /\ segs[c][1] \in Nat
    BY <1>1 DEF Last
  <1>3. done[c] = segs[c][1] * SECTOR_SIZE
    <2>1. segs[c][1] * SECTOR_SIZE \in Nat
      BY <1>2, DiskAssumption
    <2> QED  BY <1>1, <2>1 DEF AtSegment
  <1>4. done[c] \div SECTOR_SIZE = segs[c][1] /\ done[c] % SECTOR_SIZE = 0
    BY <1>2, <1>3, WholeSectors
  <1>5. DiskTypes'
    BY HistoryTypes DEF DiskInv, DiskTypes, Labels
  <1>6. Place(c)'
    <2>1. /\ pc'[c] = "bio" /\ rq'[c] = rq[c] /\ bios'[c] = bios[c]
          /\ copied'[c] = 0 /\ done'[c] = done[c]
      BY <1>1 DEF DiskInv, DiskTypes
    <2>2. Covers(bios[c], done[c] \div SECTOR_SIZE, Total(c))
      BY <1>1, <1>2, <1>4 DEF AtSegment
    <2> QED  BY <1>1, <1>4, <2>1, <2>2 DEF Place, Total, InSector
  <1>7. \A o \in Cpus \ {c} : SamePlace(o)
    BY DEF DiskInv, DiskTypes, SamePlace
  <1> QED  BY <1>5, <1>6, <1>7, PlaceFrame

LEMMA BiosEndInv ==
  ASSUME DiskInv, NEW c \in Cpus, BiosEnd(c), History
  PROVE  DiskInv'
  <1> USE DEF BiosEnd, Goto, loopVars
  <1>1. /\ pc[c] = "bio" /\ bios[c] = <<>> /\ rq[c] \in Requests
        /\ Covers(bios[c], done[c] \div SECTOR_SIZE, Total(c))
        /\ done[c] \in Nat /\ done[c] % SECTOR_SIZE = 0 /\ copied[c] = 0
    BY DEF DiskInv, DiskTypes, Place, InSector
  <1>2. done[c] = Total(c) * SECTOR_SIZE
    <2>1. done[c] \div SECTOR_SIZE = Total(c)
      BY <1>1 DEF Covers
    <2> QED  BY <1>1, <2>1, BetweenSectors
  <1>3. DiskTypes'
    BY HistoryTypes DEF DiskInv, DiskTypes, Labels
  <1>4. Place(c)'
    <2>1. /\ pc'[c] = "end" /\ rq'[c] = rq[c] /\ status'[c] = "OK"
          /\ copied'[c] = 0 /\ done'[c] = done[c]
      BY <1>1 DEF DiskInv, DiskTypes
    <2> QED  BY <1>1, <1>2, <2>1 DEF Place, Total
  <1>5. \A o \in Cpus \ {c} : SamePlace(o)
    BY DEF DiskInv, DiskTypes, SamePlace
  <1> QED  BY <1>3, <1>4, <1>5, PlaceFrame

LEMMA EndRequestInv ==
  ASSUME DiskInv, NEW c \in Cpus, EndRequest(c), History
  PROVE  DiskInv'
  <1> USE DEF EndRequest, Goto
  <1>1. pc[c] = "end" /\ copied[c] = 0
    BY DEF DiskInv, Place
  <1>2. DiskTypes'
    <2>1. <<>> \in Bios /\ <<>> \in Seq(Nat)
      BY DEF Bios
    <2> QED  BY <2>1, HistoryTypes DEF DiskInv, DiskTypes, Labels
  <1>3. Place(c)'
    <2>1. /\ pc'[c] = "idle" /\ rq'[c] = NoRq /\ copied'[c] = 0 /\ done'[c] = 0
      BY <1>1 DEF DiskInv, DiskTypes
    <2> QED  BY <2>1 DEF Place
  <1>4. \A o \in Cpus \ {c} : SamePlace(o)
    BY DEF DiskInv, DiskTypes, SamePlace
  <1> QED  BY <1>2, <1>3, <1>4, PlaceFrame

LEMMA StepInv ==
  ASSUME DiskInv, NEW c \in Cpus, myramdisk_queue_rq(c), History
  PROVE  DiskInv'
  BY QueueRqInv, NextBioInv, SegmentStartsInv, CopyPieceInv, SegmentEndsInv,
     BioEndsInv, BiosEndInv, EndRequestInv
  DEF myramdisk_queue_rq, myramdisk_transfer_bio

LEMMA StutterInv ==
  ASSUME DiskInv, UNCHANGED diskVars
  PROVE  DiskInv'
  <1> USE DEF diskVars, loopVars
  <1>1. DiskTypes'
    BY DEF DiskInv, DiskTypes
  <1>2. \A c \in Cpus : Place(c)'
    BY DEF DiskInv, Place, AtSegment, Total, SegLen, InSector
  <1> QED  BY <1>1, <1>2 DEF DiskInv

-----------------------------------------------------------------------------
\* DiskInv is inductive.
THEOREM DiskInvariance == Spec => []DiskInv
  <1>1. DiskInv /\ [Next]_diskVars => DiskInv'
    BY StepInv, StutterInv DEF Next
  <1> QED  BY <1>1, InitDiskInv, PTL DEF Spec

\* No request the block layer can make is refused or cut short: the check of
\* the bounds in myramdisk_transfer_bio never fails one that fits the disk.
THEOREM AlwaysTransferredWhole == Spec => []TransferredWhole
  <1>1. DiskInv => TransferredWhole
    BY DEF DiskInv, Place, Total, TransferredWhole
  <1> QED  BY <1>1, DiskInvariance, PTL

-----------------------------------------------------------------------------
(* The sectors as safe registers.  What they hold after a step depends on  *)
(* what the CPUs that are clean have done to them so far.                  *)

Numbers == 0..NSECTORS - 1

\* The place in its sector of the next piece.
PlaceIn(c) == done[c] % SECTOR_SIZE

Slice(s) == [i \in 1..SECTOR_SIZE |-> disk[s * SECTOR_SIZE + i - 1]]

CleanInv ==
  \A c \in clean :
    /\ InSector(c)
    /\ \A o \in Cpus \ {c} : ~(Writing(o) /\ SectorOf(o) = SectorOf(c))

KnownInv == \A c \in Cpus : Writing(c) => SectorOf(c) \notin known

\* A write has put the first of its pieces into its sector, ...
WriteInv(c) ==
  Writing(c) /\ c \in clean =>
    \A i \in 1..PlaceIn(c) :
      Slice(SectorOf(c))[i] = SectorData(c)[i]

\* ... and a read has taken as many from its own.
ReadInv(c) ==
  /\ pc[c] # "copy" \/ rq[c].dir = "WRITE" => page[c] = <<>>
  /\ InSector(c) /\ ~Writing(c) =>
       /\ Len(page[c]) = PlaceIn(c)
       /\ c \in clean =>
            \A i \in 1..Len(page[c]) : page[c][i] = Slice(SectorOf(c))[i]

SectorInv ==
  /\ CleanInv /\ KnownInv
  /\ \A c \in Cpus : WriteInv(c) /\ ReadInv(c)

\* A CPU in the middle of a sector is copying, in a sector of the disk.
LEMMA InSectorCopies ==
  ASSUME DiskInv, NEW c \in Cpus, InSector(c)
  PROVE  /\ pc[c] = "copy" /\ rq[c] \in Requests
         /\ copied[c] < SegLen(c) * SECTOR_SIZE
  <1>1. /\ done[c] \in Nat /\ copied[c] \in Nat /\ pc[c] \in Labels
        /\ rq[c].first \in Nat \/ pc[c] = "idle"
    BY RequestFacts DEF DiskInv, DiskTypes, Place
  <1>2. ~(pc[c] = "idle")
    <2>1. 0 * SECTOR_SIZE = 0  BY DiskAssumption
    <2> QED  BY <2>1, WholeSectors DEF DiskInv, Place, InSector
  <1>3. ~(pc[c] = "bio")
    BY DEF DiskInv, Place
  <1>4. ASSUME pc[c] \in {"segment", "copy"}, NEW n \in Nat,
               done[c] = n * SECTOR_SIZE
        PROVE  FALSE
    BY <1>4, WholeSectors DEF InSector
  <1>5. ~(pc[c] = "segment")
    <2> SUFFICES ASSUME pc[c] = "segment"  PROVE FALSE
      OBVIOUS
    <2>1. AtSegment(c) /\ copied[c] = 0 /\ segs[c] \in Seq(Nat)
      BY DEF DiskInv, DiskTypes, Place
    <2>2. segs[c][1] \in Nat
      BY <2>1 DEF AtSegment
    <2>3. done[c] = segs[c][1] * SECTOR_SIZE
      <3>1. segs[c][1] * SECTOR_SIZE \in Nat
        BY <2>2, DiskAssumption
      <3> QED  BY <2>1, <3>1 DEF AtSegment
    <2> QED  BY <1>4, <2>2, <2>3
  <1>6. ~(pc[c] = "end")
    <2> SUFFICES ASSUME pc[c] = "end"  PROVE FALSE
      OBVIOUS
    <2>1. rq[c] \in Requests /\ done[c] = Total(c) * SECTOR_SIZE
      BY DEF DiskInv, Place
    <2>2. Total(c) \in Nat
      BY <2>1, RequestFacts DEF Total
    <2> QED  BY <2>1, <2>2, WholeSectors DEF InSector
  <1>7. pc[c] = "copy"
    BY <1>1, <1>2, <1>3, <1>5, <1>6 DEF Labels
  <1>8. copied[c] # SegLen(c) * SECTOR_SIZE
    <2> SUFFICES ASSUME copied[c] = SegLen(c) * SECTOR_SIZE  PROVE FALSE
      OBVIOUS
    <2>1. AtSegment(c) /\ Len(segs[c]) > 1
      BY <1>7 DEF DiskInv, Place
    <2>2. segs[c][1] \in Nat /\ segs[c][2] \in Nat /\ SegLen(c) \in Nat
          /\ segs[c][1] + SegLen(c) = segs[c][2]
      BY <1>7, <2>1, InDisk DEF SegLen
    <2>3. done[c] = segs[c][2] * SECTOR_SIZE
      <3>1. \A u, v, w \in Nat : u * w + v * w = (u + v) * w
        OBVIOUS
      <3>2. done[c] = segs[c][1] * SECTOR_SIZE + SegLen(c) * SECTOR_SIZE
        BY <2>1 DEF AtSegment
      <3> QED  BY <2>2, <3>1, <3>2, DiskAssumption
    <2> QED  BY <1>4, <1>7, <2>2, <2>3
  <1>9. copied[c] <= SegLen(c) * SECTOR_SIZE /\ SegLen(c) * SECTOR_SIZE \in Nat
    <2>1. Len(segs[c]) > 1 /\ copied[c] <= SegLen(c) * SECTOR_SIZE
      BY <1>7 DEF DiskInv, Place
    <2>2. SegLen(c) \in Nat
      BY <1>7, <2>1, InDisk
    <2> QED  BY <2>1, <2>2, DiskAssumption
  <1>10. rq[c] \in Requests
    BY <1>7 DEF DiskInv, Place
  <1> QED  BY <1>1, <1>7, <1>8, <1>9, <1>10

\* The place of a piece, as a sector and a place in it.
LEMMA PieceInSector ==
  ASSUME DiskInv, NEW c \in Cpus, pc[c] = "copy",
         copied[c] < SegLen(c) * SECTOR_SIZE
  PROVE  /\ SectorOf(c) \in Numbers /\ PlaceIn(c) \in 0..SECTOR_SIZE - 1
         /\ rq[c].first * SECTOR_SIZE + done[c]
              = SectorOf(c) * SECTOR_SIZE + PlaceIn(c)
  <1> DEFINE f == rq[c].first
             n == done[c]
             q == done[c] \div SECTOR_SIZE
             r == PlaceIn(c)
  <1>1. /\ f \in Nat /\ n \in Nat /\ f * SECTOR_SIZE + n \in 0..Size - 1
    BY PlaceOfPiece, RequestFacts DEF DiskInv, DiskTypes, Place
  <1>2. /\ q \in Nat /\ r \in 0..SECTOR_SIZE - 1 /\ n = q * SECTOR_SIZE + r
    BY <1>1, SplitPiece DEF PlaceIn
  <1>3. SectorOf(c) = f + q
    BY DEF SectorOf
  <1> HIDE DEF f, n, q, r
  <1>4. f * SECTOR_SIZE + n = (f + q) * SECTOR_SIZE + r
    <2>1. \A u, v, w, k \in Nat : u * w + (v * w + k) = (u + v) * w + k
      OBVIOUS
    <2> QED  BY <1>1, <1>2, <2>1, DiskAssumption
  <1>5. f + q < NSECTORS
    <2> SUFFICES ASSUME NSECTORS <= f + q  PROVE FALSE
      BY <1>1, <1>2, DiskAssumption
    <2>1. NSECTORS * SECTOR_SIZE <= (f + q) * SECTOR_SIZE
      BY <1>1, <1>2, SectorsBelow, DiskAssumption
    <2>2. /\ (f + q) * SECTOR_SIZE \in Nat /\ NSECTORS * SECTOR_SIZE \in Nat
      BY <1>1, <1>2, DiskAssumption
    <2> QED  BY <1>1, <1>2, <1>4, <2>1, <2>2, DiskAssumption DEF Size
  <1>6. f + q \in Numbers
    BY <1>1, <1>2, <1>5, DiskAssumption DEF Numbers
  <1> QED  BY <1>2, <1>3, <1>4, <1>6 DEF f, n, q, r

\* Different sectors share no piece.
LEMMA SectorsApart ==
  ASSUME NEW s \in Nat, NEW i \in 1..SECTOR_SIZE,
         NEW q \in Nat, NEW r \in 0..SECTOR_SIZE - 1,
         s * SECTOR_SIZE + i - 1 = q * SECTOR_SIZE + r
  PROVE  s = q /\ i = r + 1
  <1>1. i - 1 \in Nat /\ i - 1 < SECTOR_SIZE /\ r \in Nat /\ r < SECTOR_SIZE
    BY DiskAssumption
  <1>2. s * SECTOR_SIZE + (i - 1) = q * SECTOR_SIZE + r
    BY <1>1, DiskAssumption
  <1>3. s = q /\ i - 1 = r
    BY <1>1, <1>2, PieceOf
  <1> QED  BY <1>1, <1>3, DiskAssumption

-----------------------------------------------------------------------------
(* What a step of one CPU does to the sectors                              *)

StepOf(c) ==
  /\ \A o \in Cpus \ {c} : SamePlace(o) /\ page'[o] = page[o]
  /\ InSector(c) /\ InSector(c)' => rq'[c] = rq[c] /\ SectorOf(c)' = SectorOf(c)
  /\ \A s \in Numbers :
       ~(Writing(c) /\ s = SectorOf(c)) /\ ~(Writing(c)' /\ s = SectorOf(c)') =>
         Slice(s)' = Slice(s)

LEMMA OthersKeep ==
  ASSUME NEW c \in Cpus, StepOf(c), NEW o \in Cpus \ {c}
  PROVE  /\ Writing(o)' = Writing(o) /\ InSector(o)' = InSector(o)
         /\ SectorOf(o)' = SectorOf(o) /\ JustDone(o)' = JustDone(o)
         /\ SectorData(o)' = SectorData(o)
  BY DEF StepOf, SamePlace, Writing, InSector, SectorOf, JustDone, SectorData

\* Which contents are known after a step of c.
LEMMA KnownAfter ==
  ASSUME DiskInv, SectorInv, History, NEW c \in Cpus, StepOf(c)
  PROVE  /\ ~Writing(c) /\ ~Writing(c)' => known' = known
         /\ Writing(c) /\ Writing(c)' => known' = known
         /\ ~Writing(c) /\ Writing(c)' => known' = known \ {SectorOf(c)'}
         /\ Writing(c) /\ ~Writing(c)' =>
              known' = IF c \in clean THEN known \cup {SectorOf(c)} ELSE known
  <1> DEFINE Before(s) == {o \in Cpus : Writing(o) /\ SectorOf(o) = s}
             After(s)  == \A o \in Cpus : ~(Writing(o)' /\ SectorOf(o)' = s)
  <1>1. known' = {s \in Numbers :
          After(s) /\ IF Before(s) = {} THEN s \in known ELSE Before(s) \subseteq clean}
    BY DEF History, Numbers
  <1>2. \A s \in known : Before(s) = {}
    BY DEF SectorInv, KnownInv
  <1>3. \A s \in Numbers, o \in Cpus \ {c} :
          Writing(o)' /\ SectorOf(o)' = s <=> o \in Before(s)
    BY OthersKeep
  <1>4. known \subseteq Numbers
    BY DEF DiskInv, DiskTypes, Numbers
  <1>5. CASE ~Writing(c)
    <2>1. \A s \in Numbers : c \notin Before(s)
      BY <1>5
    <2>2. \A s \in Numbers :
            After(s) <=> Before(s) = {} /\ ~(Writing(c)' /\ SectorOf(c)' = s)
      BY <1>3, <2>1
    <2>3. known' = {s \in known : ~(Writing(c)' /\ SectorOf(c)' = s)}
      <3> HIDE DEF Before, After
      <3> QED  BY <1>1, <1>2, <1>4, <2>2
    <2> QED  BY <1>5, <2>3
  <1>6. CASE Writing(c)
    <2>1. /\ SectorOf(c) \in Numbers /\ c \in Before(SectorOf(c))
          /\ SectorOf(c) \notin known
          /\ Writing(c)' => SectorOf(c)' = SectorOf(c)
      <3>1. InSector(c) /\ SectorOf(c) \in Numbers
        BY <1>6, InSectorCopies, PieceInSector DEF Writing
      <3>2. Writing(c)' => SectorOf(c)' = SectorOf(c)
        BY <3>1 DEF StepOf, Writing
      <3> QED  BY <1>6, <3>1, <3>2 DEF SectorInv, KnownInv
    <2>2. \A s \in Numbers \ {SectorOf(c)} :
            c \notin Before(s) /\ ~(Writing(c)' /\ SectorOf(c)' = s)
      BY <2>1
    <2>3. \A s \in Numbers \ {SectorOf(c)} : After(s) <=> Before(s) = {}
      BY <1>3, <2>2
    <2>4. \A s \in Numbers \ {SectorOf(c)} : s \in known' <=> s \in known
      <3> HIDE DEF Before, After
      <3> QED  BY <1>1, <1>2, <2>3
    <2>5. CASE Writing(c)'
      <3>1. ~After(SectorOf(c))
        BY <2>1, <2>5
      <3>2. SectorOf(c) \notin known'
        BY <1>1, <3>1
      <3>3. known' \subseteq Numbers
        BY <1>1
      <3> QED  BY <1>4, <1>6, <2>1, <2>4, <2>5, <3>2, <3>3
    <2>6. CASE ~Writing(c)'
      <3>1. After(SectorOf(c)) <=> Before(SectorOf(c)) \subseteq {c}
        BY <1>3, <2>1, <2>6
      <3>2. SectorOf(c) \in known' <=>
              After(SectorOf(c)) /\ Before(SectorOf(c)) \subseteq clean
        <4> HIDE DEF Before, After
        <4> QED  BY <1>1, <2>1
      <3>3. c \in clean => Before(SectorOf(c)) \subseteq {c}
        BY DEF SectorInv, CleanInv
      <3>4. SectorOf(c) \in known' <=> c \in clean
        <4> HIDE DEF Before, After
        <4> QED  BY <2>1, <3>1, <3>2, <3>3
      <3>5. known' \subseteq Numbers
        BY <1>1
      <3> QED  BY <1>4, <1>6, <2>1, <2>4, <2>6, <3>4, <3>5
    <2> QED  BY <2>5, <2>6
  <1> QED  BY <1>5, <1>6

\* Which CPUs are clean after a step of c.
LEMMA CleanAfter ==
  ASSUME DiskInv, SectorInv, History, NEW c \in Cpus, StepOf(c)
  PROVE  /\ InSector(c) /\ InSector(c)' => clean' = clean
         /\ \A o \in Cpus \ {c} : o \in clean' => o \in clean
         /\ InSector(c) /\ c \in clean' => c \in clean
         /\ CleanInv'
  <1>1. clean' = {o \in Cpus :
          /\ InSector(o)'
          /\ InSector(o) => o \in clean
          /\ \A u \in Cpus \ {o} : ~(Writing(u) /\ SectorOf(u) = SectorOf(o))'}
    BY DEF History
  <1>2. \A o \in Cpus \ {c} : o \in clean' => o \in clean
    BY <1>1, OthersKeep
  <1>3. CleanInv'
    BY <1>1 DEF CleanInv
  <1>4. ASSUME InSector(c), InSector(c)'
        PROVE  clean' = clean
    <2>1. /\ Writing(c)' = Writing(c) /\ SectorOf(c)' = SectorOf(c)
          /\ InSector(c)' = InSector(c)
      BY <1>4 DEF StepOf, Writing, InSector
    <2>2. \A o \in Cpus : Writing(o)' = Writing(o) /\ InSector(o)' = InSector(o)
                          /\ SectorOf(o)' = SectorOf(o)
      BY <1>4, <2>1, OthersKeep
    <2>3. \A o \in clean : o \in Cpus /\ InSector(o)
            /\ \A u \in Cpus \ {o} : ~(Writing(u) /\ SectorOf(u) = SectorOf(o))
      BY DEF SectorInv, CleanInv, DiskInv, DiskTypes
    <2>4. clean \subseteq clean'
      BY <1>1, <2>2, <2>3
    <2>5. clean' \subseteq clean
      BY <1>1, <2>2
    <2> QED  BY <2>4, <2>5
  <1>5. InSector(c) /\ c \in clean' => c \in clean
    BY <1>1
  <1> QED  BY <1>2, <1>3, <1>4, <1>5

LEMMA SectorFrame ==
  ASSUME DiskInv, SectorInv, History, NEW c \in Cpus, StepOf(c),
         WriteInv(c)', ReadInv(c)'
  PROVE  SectorInv'
  <1>1. CleanInv' /\ \A o \in Cpus \ {c} : o \in clean' => o \in clean
    BY CleanAfter
  <1>2. KnownInv'
    BY DEF History, KnownInv
  <1>3. ASSUME NEW o \in Cpus \ {c}  PROVE WriteInv(o)' /\ ReadInv(o)'
    <2>1. /\ pc'[o] = pc[o] /\ rq'[o] = rq[o] /\ PlaceIn(o)' = PlaceIn(o)
          /\ page'[o] = page[o]
          /\ Writing(o)' = Writing(o) /\ InSector(o)' = InSector(o)
          /\ SectorOf(o)' = SectorOf(o) /\ SectorData(o)' = SectorData(o)
      BY OthersKeep DEF StepOf, SamePlace, PlaceIn
    <2>2. WriteInv(o) /\ ReadInv(o)
      BY DEF SectorInv
    <2>3. CASE o \notin clean'
      BY <2>1, <2>2, <2>3 DEF WriteInv, ReadInv
    <2>4. CASE o \in clean'
      <3>1. /\ o \in clean /\ InSector(o)
            /\ ~(Writing(c) /\ SectorOf(c) = SectorOf(o))
            /\ ~(Writing(c)' /\ SectorOf(c)' = SectorOf(o))
        BY <1>1, <2>1, <2>4 DEF SectorInv, CleanInv
      <3>2. SectorOf(o) \in Numbers
        BY <3>1, InSectorCopies, PieceInSector
      <3>3. Slice(SectorOf(o))' = Slice(SectorOf(o))
        BY <2>1, <3>1, <3>2 DEF StepOf, Slice
      <3> QED  BY <2>1, <2>2, <3>1, <3>3 DEF WriteInv, ReadInv
    <2> QED  BY <2>3, <2>4
  <1> QED  BY <1>1, <1>2, <1>3 DEF SectorInv

-----------------------------------------------------------------------------
(* The registers as functions of the state                                 *)

RValue == [s \in Numbers |-> IF s \in known THEN Slice(s) ELSE <<>>]
ROp    == [c \in Cpus |-> OpOf(c)]
RGot   == [c \in Cpus |-> IF JustDone(c) THEN page[c] ELSE <<>>]
RRet   == [c \in Cpus |-> IF JustDone(c) THEN SECTOR_SIZE ELSE 0]

WriteOp(s, d) == [kind |-> "write", reg |-> s, data |-> d]
ReadOp(s)     == [kind |-> "read", reg |-> s, from |-> 0, len |-> SECTOR_SIZE]
None          == [kind |-> "none"]

LEMMA OpFields ==
  /\ \A s, d : WriteOp(s, d).kind = "write" /\ WriteOp(s, d).reg = s
  /\ \A s, d : WriteOp(s, d).data = d
  /\ \A s : ReadOp(s).kind = "read" /\ ReadOp(s).reg = s
  /\ \A s : ReadOp(s).from = 0 /\ ReadOp(s).len = SECTOR_SIZE
  /\ None.kind = "none"
  BY DEF WriteOp, ReadOp, None

LEMMA OpFacts ==
  ASSUME NEW c \in Cpus
  PROVE  /\ Writing(c) => ROp[c] = WriteOp(SectorOf(c), SectorData(c))
         /\ InSector(c) /\ ~Writing(c) => ROp[c] = ReadOp(SectorOf(c))
         /\ ~InSector(c) => ROp[c] = None
  <1>1. ROp[c] = OpOf(c)
    BY DEF ROp
  <1>2. Writing(c) => InSector(c)
    BY DEF Writing
  <1> QED  BY <1>1, <1>2 DEF OpOf, WriteOp, ReadOp, None

LEMMA OpFactsNext ==
  ASSUME NEW c \in Cpus
  PROVE  /\ Writing(c)' => ROp'[c] = WriteOp(SectorOf(c)', SectorData(c)')
         /\ InSector(c)' /\ ~Writing(c)' => ROp'[c] = ReadOp(SectorOf(c)')
         /\ ~InSector(c)' => ROp'[c] = None
  <1>1. ROp'[c] = OpOf(c)'
    BY DEF ROp
  <1>2. Writing(c)' => InSector(c)'
    BY DEF Writing
  <1> QED  BY <1>1, <1>2 DEF OpOf, WriteOp, ReadOp, None

LEMMA OpKinds ==
  ASSUME NEW c \in Cpus
  PROVE  /\ InSector(c) <=> ROp[c] # None
         /\ InSector(c)' <=> ROp'[c] # None
         /\ Writing(c)' <=> ROp'[c].kind = "write"
         /\ InSector(c)' => ROp'[c].reg = SectorOf(c)'
  <1>1. /\ Writing(c) => ROp[c].kind = "write" /\ InSector(c)
        /\ InSector(c) /\ ~Writing(c) => ROp[c].kind = "read"
    BY OpFacts, OpFields DEF Writing
  <1>2. /\ Writing(c)' => ROp'[c].kind = "write" /\ ROp'[c].reg = SectorOf(c)'
                          /\ InSector(c)'
        /\ InSector(c)' /\ ~Writing(c)' =>
             ROp'[c].kind = "read" /\ ROp'[c].reg = SectorOf(c)'
    BY OpFactsNext, OpFields DEF Writing
  <1> QED  BY <1>1, <1>2, OpFacts, OpFactsNext, OpFields

LEMMA OverlapsNext ==
  ASSUME History
  PROVE  Sectors!Overlaps
  <1>1. clean' = {c \in Cpus :
          /\ InSector(c)'
          /\ InSector(c) => c \in clean
          /\ \A o \in Cpus \ {c} : ~(Writing(o)' /\ SectorOf(o)' = SectorOf(c)')}
    BY DEF History
  <1>2. ASSUME NEW c \in Cpus, InSector(c)', NEW o \in Cpus
        PROVE  (Writing(o)' /\ SectorOf(o)' = SectorOf(c)')
                 <=> (ROp'[o].kind = "write" /\ ROp'[o].reg = ROp'[c].reg)
    BY <1>2, OpKinds DEF Writing
  <1>3. clean' = {c \in Cpus :
          /\ ROp'[c] # None
          /\ ROp[c] # None => c \in clean
          /\ \A o \in Cpus \ {c} :
               ~(ROp'[o].kind = "write" /\ ROp'[o].reg = ROp'[c].reg)}
    BY <1>1, <1>2, OpKinds
  <1> QED
    BY <1>3 DEF Sectors!Overlaps, Sectors!NoOp, Sectors!Writing, ROp, None

LEMMA OthersSame ==
  ASSUME NEW c \in Cpus, StepOf(c), NEW o \in Cpus \ {c}
  PROVE  ROp'[o] = ROp[o] /\ RGot'[o] = RGot[o] /\ RRet'[o] = RRet[o]
  <1>1. /\ Writing(o)' = Writing(o) /\ InSector(o)' = InSector(o)
        /\ SectorOf(o)' = SectorOf(o) /\ JustDone(o)' = JustDone(o)
        /\ SectorData(o)' = SectorData(o) /\ page'[o] = page[o]
    BY OthersKeep DEF StepOf
  <1>2. ROp'[o] = ROp[o]
    <2>1. CASE Writing(o)
      BY <1>1, <2>1, OpFacts, OpFactsNext
    <2>2. CASE InSector(o) /\ ~Writing(o)
      BY <1>1, <2>2, OpFacts, OpFactsNext
    <2>3. CASE ~InSector(o)
      BY <1>1, <2>3, OpFacts, OpFactsNext
    <2> QED  BY <2>1, <2>2, <2>3
  <1> QED  BY <1>1, <1>2 DEF RGot, RRet

LEMMA OthersNext ==
  ASSUME NEW c \in Cpus, StepOf(c)
  PROVE  Sectors!Others(c)
  BY OthersSame DEF Sectors!Others, ROp, RGot, RRet

\* A step of c is a step of the registers, or none.
Maps(c) ==
  \/ UNCHANGED <<RValue, known, ROp, clean, RGot, RRet>>
  \/ Sectors!BeginRead(c) \/ Sectors!EndRead(c)
  \/ Sectors!BeginWrite(c) \/ Sectors!EndWrite(c) \/ Sectors!Forget(c)

LEMMA MapsNext ==
  ASSUME History, NEW c \in Cpus, StepOf(c), Maps(c)
  PROVE  [Sectors!Next]_Sectors!registerVars
  BY OverlapsNext, OthersNext
  DEF Maps, Sectors!Next, Sectors!registerVars, RValue, ROp, RGot, RRet, Numbers, Slice

\* No step changes a sector that is known before it and after it.
LEMMA ValueKept ==
  ASSUME DiskInv, SectorInv, SectorInv', NEW c \in Cpus, StepOf(c),
         NEW s \in known, s \in known'
  PROVE  RValue[s] = Slice(s) /\ Slice(s)' = Slice(s)
  <1>1. s \in Numbers
    BY DEF DiskInv, DiskTypes, Numbers
  <1>2. ~(Writing(c) /\ s = SectorOf(c)) /\ ~(Writing(c)' /\ s = SectorOf(c)')
    BY DEF SectorInv, KnownInv
  <1>3. \A t \in Numbers :
          ~(Writing(c) /\ t = SectorOf(c)) /\ ~(Writing(c)' /\ t = SectorOf(c)') =>
            Slice(t)' = Slice(t)
    BY DEF StepOf
  <1> HIDE DEF Slice
  <1> QED  BY <1>1, <1>2, <1>3 DEF RValue

LEMMA ValueAfter ==
  ASSUME DiskInv, SectorInv, SectorInv', NEW c \in Cpus, StepOf(c),
         known' \subseteq known
  PROVE  RValue' = [s \in Numbers |-> IF s \in known' THEN RValue[s] ELSE <<>>]
  <1>1. \A s \in Numbers : s \in known' => Slice(s)' = RValue[s]
    BY ValueKept
  <1>2. RValue' = [s \in Numbers |-> IF s \in known' THEN Slice(s)' ELSE <<>>]
    BY DEF RValue, Numbers
  <1> HIDE DEF RValue
  <1> QED  BY <1>1, <1>2

LEMMA ValueSame ==
  ASSUME DiskInv, SectorInv, SectorInv', NEW c \in Cpus, StepOf(c),
         known' = known
  PROVE  RValue' = RValue
  <1>1. RValue' = [s \in Numbers |-> IF s \in known THEN RValue[s] ELSE <<>>]
    BY ValueAfter
  <1>2. \A s \in Numbers : s \notin known => RValue[s] = <<>>
    BY DEF RValue
  <1>3. RValue = [s \in Numbers |-> RValue[s]]
    BY DEF RValue
  <1> HIDE DEF RValue
  <1> QED  BY <1>1, <1>2, <1>3

-----------------------------------------------------------------------------
(* Steps of the registers                                                  *)

LEMMA MapForget ==
  ASSUME DiskInv, SectorInv, SectorInv', History, NEW c \in Cpus, StepOf(c),
         ~InSector(c), ~InSector(c)', ~JustDone(c)'
  PROVE  Maps(c)
  <1>1. known' = known
    BY KnownAfter DEF Writing
  <1>2. RValue' = RValue
    BY <1>1, ValueSame
  <1>3. ROp[c] = None /\ ROp'[c] = None
    BY OpFacts, OpFactsNext
  <1>4. RGot'[c] = <<>> /\ RRet'[c] = 0
    BY DEF RGot, RRet
  <1>5. Sectors!Forget(c)
    BY <1>1, <1>2, <1>3, <1>4
    DEF Sectors!Forget, Sectors!NoOp, None, RValue, ROp, RGot, RRet, Numbers, Slice
  <1> QED  BY <1>5 DEF Maps

\* A piece inside a sector changes nothing that is promised.
LEMMA MapInside ==
  ASSUME DiskInv, SectorInv, SectorInv', History, NEW c \in Cpus, StepOf(c),
         InSector(c), InSector(c)'
  PROVE  Maps(c)
  <1>1. clean' = clean
    BY CleanAfter
  <1>2. /\ SectorOf(c)' = SectorOf(c) /\ rq'[c] = rq[c]
        /\ Writing(c)' = Writing(c) /\ SectorData(c)' = SectorData(c)
    BY DEF StepOf, Writing, SectorData
  <1>3. known' = known
    BY <1>2, KnownAfter
  <1>4. RValue' = RValue
    BY <1>3, ValueSame
  <1>5. ROp'[c] = ROp[c]
    BY <1>2, OpFacts, OpFactsNext
  <1>6. RGot'[c] = RGot[c] /\ RRet'[c] = RRet[c]
    BY DEF RGot, RRet, JustDone
  <1>7. ROp' = ROp /\ RGot' = RGot /\ RRet' = RRet
    <2>1. \A o \in Cpus : ROp'[o] = ROp[o] /\ RGot'[o] = RGot[o] /\ RRet'[o] = RRet[o]
      BY <1>5, <1>6, OthersSame
    <2>2. /\ ROp = [o \in Cpus |-> ROp[o]] /\ ROp' = [o \in Cpus |-> ROp'[o]]
          /\ RGot = [o \in Cpus |-> RGot[o]] /\ RGot' = [o \in Cpus |-> RGot'[o]]
          /\ RRet = [o \in Cpus |-> RRet[o]] /\ RRet' = [o \in Cpus |-> RRet'[o]]
      BY DEF ROp, RGot, RRet
    <2> HIDE DEF ROp, RGot, RRet
    <2> QED  BY <2>1, <2>2
  <1> QED  BY <1>1, <1>3, <1>4, <1>7 DEF Maps

LEMMA MapBeginRead ==
  ASSUME DiskInv, SectorInv, SectorInv', History, NEW c \in Cpus, StepOf(c),
         ~InSector(c), InSector(c)', ~Writing(c)', SectorOf(c)' \in Numbers
  PROVE  Maps(c)
  <1>1. known' = known
    BY KnownAfter DEF Writing
  <1>2. RValue' = RValue
    BY <1>1, ValueSame
  <1>3. ROp[c] = None /\ ROp'[c] = ReadOp(SectorOf(c)')
    BY OpFacts, OpFactsNext
  <1>4. /\ ROp'[c].kind = "read" /\ ROp'[c].reg \in Numbers
        /\ ROp'[c].from \in Nat /\ ROp'[c].len \in Nat
    BY <1>3, OpFields, DiskAssumption
  <1>5. RGot'[c] = <<>> /\ RRet'[c] = 0
    BY DEF RGot, RRet, JustDone
  <1>6. Sectors!BeginRead(c)
    BY <1>1, <1>2, <1>3, <1>4, <1>5
    DEF Sectors!BeginRead, Sectors!NoOp, None, RValue, ROp, RGot, RRet, Numbers, Slice
  <1> QED  BY <1>6 DEF Maps

LEMMA MapBeginWrite ==
  ASSUME DiskInv, SectorInv, SectorInv', History, NEW c \in Cpus, StepOf(c),
         ~InSector(c), Writing(c)', SectorOf(c)' \in Numbers,
         SectorData(c)' \in Seq(Piece)
  PROVE  Maps(c)
  <1>1. known' = known \ {SectorOf(c)'}
    BY KnownAfter DEF Writing
  <1>2. RValue' = [s \in Numbers |-> IF s \in known' THEN RValue[s] ELSE <<>>]
    BY <1>1, ValueAfter
  <1>3. ROp[c] = None /\ ROp'[c] = WriteOp(SectorOf(c)', SectorData(c)')
    BY OpFacts, OpFactsNext
  <1>4. /\ ROp'[c].kind = "write" /\ ROp'[c].reg = SectorOf(c)'
        /\ ROp'[c].data \in Seq(Piece)
    BY <1>3, OpFields
  <1>5. RGot'[c] = <<>> /\ RRet'[c] = 0
    BY DEF RGot, RRet, JustDone, Writing
  <1>6. RValue' = [RValue EXCEPT ![ROp'[c].reg] = <<>>]
    <2>1. \A s \in Numbers : s \notin known => RValue[s] = <<>>
      BY DEF RValue
    <2>2. RValue = [s \in Numbers |-> RValue[s]]
      BY DEF RValue
    <2> HIDE DEF RValue
    <2>3. RValue' = [s \in Numbers |-> IF s = SectorOf(c)' THEN <<>> ELSE RValue[s]]
      BY <1>1, <1>2, <2>1
    <2> QED  BY <1>4, <2>2, <2>3
  <1>7. known' = known \ {ROp'[c].reg}
    BY <1>1, <1>4
  <1>8. ROp'[c].reg \in Numbers
    BY <1>4
  <1>9. Sectors!BeginWrite(c)
    BY <1>3, <1>4, <1>5, <1>6, <1>7, <1>8
    DEF Sectors!BeginWrite, Sectors!NoOp, None, RValue, ROp, RGot, RRet, Numbers, Slice
  <1> QED  BY <1>9 DEF Maps

\* The last piece of a write that no other has overlapped: the sector holds
\* its data.
LEMMA MapEndWrite ==
  ASSUME DiskInv, SectorInv, SectorInv', History, NEW c \in Cpus, StepOf(c),
         Writing(c), ~InSector(c)', JustDone(c)', page'[c] = <<>>,
         c \in clean => \A i \in 1..SECTOR_SIZE :
           disk'[SectorOf(c) * SECTOR_SIZE + i - 1] = SectorData(c)[i]
  PROVE  Maps(c)
  <1>1. ~Writing(c)' /\ InSector(c)
    BY DEF Writing
  <1>2. known' = IF c \in clean THEN known \cup {SectorOf(c)} ELSE known
    BY <1>1, KnownAfter
  <1>3. SectorOf(c) \in Numbers /\ SectorOf(c) \notin known
    BY <1>1, InSectorCopies, PieceInSector DEF SectorInv, KnownInv
  <1>4. ROp[c] = WriteOp(SectorOf(c), SectorData(c)) /\ ROp'[c] = None
    BY OpFacts, OpFactsNext
  <1>5. /\ ROp[c].kind = "write" /\ ROp[c].reg = SectorOf(c)
        /\ ROp[c].data = SectorData(c)
    BY <1>4, OpFields
  <1>6. RGot' = RGot
    <2>1. RGot'[c] = RGot[c]
      BY <1>1 DEF RGot, JustDone
    <2>2. \A o \in Cpus : RGot'[o] = RGot[o]
      BY <2>1, OthersSame
    <2>3. RGot = [o \in Cpus |-> RGot[o]] /\ RGot' = [o \in Cpus |-> RGot'[o]]
      BY DEF RGot
    <2> HIDE DEF RGot
    <2> QED  BY <2>2, <2>3
  <1>7. CASE c \in clean
    <2>1. RRet'[c] = Len(ROp[c].data)
      <3>1. Len(SectorData(c)) = SECTOR_SIZE
        BY DiskAssumption DEF SectorData
      <3> QED  BY <1>5, <3>1 DEF RRet
    <2>2. known' = known \cup {ROp[c].reg}
      BY <1>2, <1>5, <1>7
    <2>3. RValue' = [RValue EXCEPT ![ROp[c].reg] = ROp[c].data]
      <3>1. \A s \in Numbers : s \notin known => RValue[s] = <<>>
        BY DEF RValue
      <3>2. \A s \in known : s \in known' => Slice(s)' = RValue[s]
        BY ValueKept
      <3>3. RValue = [s \in Numbers |-> RValue[s]]
        BY DEF RValue
      <3>4. RValue' = [s \in Numbers |-> IF s \in known' THEN Slice(s)' ELSE <<>>]
        BY DEF RValue, Numbers
      <3>5. ASSUME NEW s \in Numbers, s = SectorOf(c)
            PROVE  Slice(s)' = SectorData(c)
        <4>1. \A i \in 1..SECTOR_SIZE :
                disk'[s * SECTOR_SIZE + i - 1] = SectorData(c)[i]
          BY <1>7, <3>5
        <4>2. SectorData(c) = [i \in 1..SECTOR_SIZE |-> SectorData(c)[i]]
          BY DEF SectorData
        <4> HIDE DEF SectorData
        <4> QED  BY <4>1, <4>2 DEF Slice
      <3> HIDE DEF RValue, Slice
      <3>6. \A s \in Numbers :
              RValue'[s] = IF s = SectorOf(c) THEN SectorData(c) ELSE RValue[s]
        <4> SUFFICES ASSUME NEW s \in Numbers
                     PROVE  RValue'[s] = IF s = SectorOf(c) THEN SectorData(c)
                                                            ELSE RValue[s]
          OBVIOUS
        <4>1. CASE s = SectorOf(c)
          <5>1. s \in known' /\ Slice(s)' = SectorData(c)
            BY <1>2, <1>3, <1>7, <3>5, <4>1
          <5> QED  BY <3>4, <4>1, <5>1
        <4>2. CASE s # SectorOf(c)
          <5>1. s \in known' <=> s \in known
            BY <1>2, <1>7, <4>2
          <5> QED  BY <3>1, <3>2, <3>4, <4>2, <5>1
        <4> QED  BY <4>1, <4>2
      <3>7. RValue' = [s \in Numbers |-> RValue'[s]]
        BY <3>4
      <3> QED  BY <1>3, <1>5, <3>3, <3>6, <3>7
    <2>4. Sectors!EndWrite(c)
      BY <1>4, <1>5, <1>6, <1>7, <2>1, <2>2, <2>3
      DEF Sectors!EndWrite, Sectors!NoOp, None, RValue, ROp, RGot, RRet, Numbers, Slice
    <2> QED  BY <2>4 DEF Maps
  <1>8. CASE c \notin clean
    <2>1. known' = known
      BY <1>2, <1>8
    <2>2. RValue' = RValue
      BY <2>1, ValueSame
    <2>3. Sectors!EndWrite(c)
      BY <1>4, <1>5, <1>6, <1>8, <2>1, <2>2
      DEF Sectors!EndWrite, Sectors!NoOp, None, RValue, ROp, RGot, RRet, Numbers, Slice
    <2> QED  BY <2>3 DEF Maps
  <1> QED  BY <1>7, <1>8

\* A sequence is all of its own front.
LEMMA WholeFront ==
  ASSUME NEW S, NEW u \in Seq(S)
  PROVE  SubSeq(u, 1, Len(u)) = u
  OBVIOUS

\* The pieces of a sector are pieces of the disk.
LEMMA SlicePlace ==
  ASSUME NEW s \in Numbers, NEW i \in 1..SECTOR_SIZE
  PROVE  s * SECTOR_SIZE + i - 1 \in 0..Size - 1
  <1>1. s \in Nat /\ s + 1 \in Nat /\ s + 1 <= NSECTORS
    BY DiskAssumption DEF Numbers
  <1>2. (s + 1) * SECTOR_SIZE <= NSECTORS * SECTOR_SIZE
    BY <1>1, SectorsBelow, DiskAssumption
  <1>3. (s + 1) * SECTOR_SIZE = s * SECTOR_SIZE + SECTOR_SIZE
    <2>1. \A u, v \in Nat : (u + 1) * v = u * v + v
      OBVIOUS
    <2> QED  BY <1>1, <2>1, DiskAssumption
  <1>4. s * SECTOR_SIZE \in Nat /\ NSECTORS * SECTOR_SIZE \in Nat
    BY <1>1, DiskAssumption
  <1> QED  BY <1>2, <1>3, <1>4, DiskAssumption DEF Size

LEMMA SliceType ==
  ASSUME DiskInv, NEW s \in Numbers
  PROVE  Slice(s) \in Seq(Piece) /\ Len(Slice(s)) = SECTOR_SIZE
  <1>1. \A i \in 1..SECTOR_SIZE : disk[s * SECTOR_SIZE + i - 1] \in Piece
    BY SlicePlace DEF DiskInv, DiskTypes
  <1> QED  BY <1>1, DiskAssumption DEF Slice

\* The last piece of a read: of a known sector that no write has overlapped,
\* it has all that was in it.
LEMMA MapEndRead ==
  ASSUME DiskInv, SectorInv, SectorInv', History, NEW c \in Cpus, StepOf(c),
         InSector(c), ~Writing(c), ~InSector(c)', JustDone(c)',
         page'[c] \in Seq(Piece), Len(page'[c]) = SECTOR_SIZE,
         c \in clean => page'[c] = Slice(SectorOf(c))
  PROVE  Maps(c)
  <1>1. ~Writing(c)'
    BY DEF Writing
  <1>2. known' = known
    BY <1>1, KnownAfter
  <1>3. RValue' = RValue
    BY <1>2, ValueSame
  <1>4. ROp[c] = ReadOp(SectorOf(c)) /\ ROp'[c] = None
    BY OpFacts, OpFactsNext
  <1>5. /\ ROp[c].kind = "read" /\ ROp[c].reg = SectorOf(c)
        /\ ROp[c].from = 0 /\ ROp[c].len = SECTOR_SIZE
    BY <1>4, OpFields
  <1>6. RGot'[c] = page'[c] /\ RRet'[c] = Len(RGot'[c])
    BY DEF RGot, RRet
  <1>7. SectorOf(c) \in Numbers
    BY InSectorCopies, PieceInSector
  <1>8. ASSUME c \in clean, ROp[c].reg \in known
        PROVE  LET m == RValue[ROp[c].reg]
                   s == SubSeq(m, ROp[c].from + 1, Len(m)) IN
               Sectors!Takes(c, RGot'[c], IF ROp[c].len < Len(s)
                                          THEN SubSeq(s, 1, ROp[c].len) ELSE s)
    <2> DEFINE m == Slice(SectorOf(c))
    <2>1. RValue[ROp[c].reg] = m
      BY <1>2, <1>5, <1>8, ValueKept
    <2>2. m \in Seq(Piece) /\ Len(m) = SECTOR_SIZE
      BY <1>7, SliceType
    <2>3. page'[c] = m
      BY <1>8
    <2> HIDE DEF m
    <2>4. SubSeq(m, 0 + 1, Len(m)) = m
      BY <2>2, WholeFront
    <2>5. Sectors!Takes(c, m, m)
      <3>1. Len(m) \in 0..Len(m)
        BY <2>2, DiskAssumption
      <3>2. SubSeq(m, 1, Len(m)) = m
        BY <2>2, WholeFront
      <3> QED  BY <3>1, <3>2 DEF Sectors!Takes
    <2>6. ~(ROp[c].len < Len(m))
      BY <1>5, <2>2, DiskAssumption
    <2> QED  BY <1>5, <1>6, <2>1, <2>3, <2>4, <2>5, <2>6
  <1>9. RGot'[c] \in Seq(Piece) /\ Len(RGot'[c]) <= ROp[c].len
    BY <1>5, <1>6, DiskAssumption
  <1>10. Sectors!EndRead(c)
    BY <1>2, <1>3, <1>4, <1>5, <1>6, <1>8, <1>9
    DEF Sectors!EndRead, Sectors!NoOp, None, RValue, ROp, RGot, RRet, Numbers, Slice
  <1> QED  BY <1>10 DEF Maps

-----------------------------------------------------------------------------
(* The steps of a request                                                  *)

\* The place on the disk of a piece of a sector.
At(q, r) == q * SECTOR_SIZE + r

\* What copying a piece does, by its sector q and its place r in it.
LEMMA PieceFacts ==
  ASSUME DiskInv, NEW c \in Cpus, CopyPiece(c)
  PROVE  LET q == SectorOf(c)
             r == PlaceIn(c) IN
         /\ q \in Numbers /\ r \in 0..SECTOR_SIZE - 1
         /\ InSector(c) <=> r > 0
         /\ r + 1 < SECTOR_SIZE =>
              InSector(c)' /\ SectorOf(c)' = q /\ PlaceIn(c)' = r + 1
         /\ r + 1 = SECTOR_SIZE => ~InSector(c)' /\ JustDone(c)'
         /\ rq' = rq
         /\ rq[c].dir = "WRITE" =>
              /\ disk'[At(q, r)] = SectorData(c)[r + 1]
              /\ \A i \in 0..Size - 1 :
                   i # At(q, r) => disk'[i] = disk[i]
              /\ page' = page
         /\ rq[c].dir # "WRITE" =>
              /\ disk' = disk
              /\ page'[c] = IF InSector(c)
                              THEN Append(page[c], disk[At(q, r)])
                              ELSE <<disk[At(q, r)]>>
         /\ disk[At(q, r)] \in Piece
  <1> DEFINE q    == SectorOf(c)
             r    == PlaceIn(c)
             n    == done[c]
             d    == done[c] \div SECTOR_SIZE
             at   == sector[c] * SECTOR_SIZE + copied[c]
             mine == rq[c].first * SECTOR_SIZE + done[c]
  <1>1. /\ pc[c] = "copy" /\ copied[c] < SegLen(c) * SECTOR_SIZE
        /\ copied' = [copied EXCEPT ![c] = @ + 1]
        /\ done' = [done EXCEPT ![c] = @ + 1]
        /\ UNCHANGED <<pc, rq>>
    BY DEF CopyPiece
  <1>2. /\ q \in Numbers /\ r \in 0..SECTOR_SIZE - 1
        /\ mine = q * SECTOR_SIZE + r
    BY <1>1, PieceInSector
  <1>3. at = mine /\ mine \in 0..Size - 1
    BY <1>1, PlaceOfPiece
  <1>4. InSector(c) <=> r > 0
    BY <1>2, DiskAssumption DEF InSector, PlaceIn
  <1>5. /\ n \in Nat /\ d \in Nat /\ n = d * SECTOR_SIZE + r
        /\ done'[c] = n + 1 /\ copied'[c] = copied[c] + 1 /\ copied[c] \in Nat
    BY <1>1, SplitPiece DEF DiskInv, DiskTypes, PlaceIn
  <1>6. SectorOf(c)' = rq[c].first + done'[c] \div SECTOR_SIZE /\ q = rq[c].first + d
    BY <1>1 DEF SectorOf
  <1>7. disk[q * SECTOR_SIZE + r] \in Piece
    BY <1>2, <1>3 DEF DiskInv, DiskTypes
  <1> HIDE DEF n, d
  <1>8. ASSUME r + 1 < SECTOR_SIZE
        PROVE  InSector(c)' /\ SectorOf(c)' = q /\ PlaceIn(c)' = r + 1
    <2>1. d * SECTOR_SIZE \in Nat /\ r \in Nat /\ r + 1 \in Nat
      BY <1>2, <1>5, DiskAssumption
    <2>2. n + 1 = d * SECTOR_SIZE + (r + 1)
      BY <1>5, <2>1
    <2>3. (n + 1) \div SECTOR_SIZE = d /\ (n + 1) % SECTOR_SIZE = r + 1
      BY <1>5, <1>8, <2>1, <2>2, PieceOf
    <2> QED  BY <1>5, <1>6, <2>1, <2>3, DiskAssumption DEF InSector, PlaceIn
  <1>9. ASSUME r + 1 = SECTOR_SIZE
        PROVE  ~InSector(c)' /\ JustDone(c)'
    <2>1. n + 1 = (d + 1) * SECTOR_SIZE
      <3>1. \A u, v \in Nat : (u + 1) * v = u * v + v
        OBVIOUS
      <3>2. (d + 1) * SECTOR_SIZE = d * SECTOR_SIZE + SECTOR_SIZE
        BY <1>5, <3>1, DiskAssumption
      <3>3. d * SECTOR_SIZE \in Nat /\ r \in Nat
        BY <1>2, <1>5, DiskAssumption
      <3> QED  BY <1>5, <1>9, <3>2, <3>3
    <2>2. (n + 1) % SECTOR_SIZE = 0
      BY <1>5, <2>1, WholeSectors
    <2>3. ~InSector(c)'
      BY <1>5, <2>2 DEF InSector
    <2> QED  BY <1>1, <1>5, <2>3 DEF JustDone
  <1>10. rq[c].dir = "WRITE" =>
           /\ \A i \in 0..Size - 1 :
                disk'[i] = IF i = at THEN <<rq[c].value, mine>> ELSE disk[i]
           /\ page' = page
    BY DEF CopyPiece, DiskInv, DiskTypes
  <1>11. rq[c].dir # "WRITE" =>
           /\ disk' = disk
           /\ page'[c] = IF InSector(c) THEN Append(page[c], disk[at])
                                        ELSE <<disk[at]>>
    BY DEF CopyPiece, DiskInv, DiskTypes
  <1>12. SectorData(c)[r + 1] = <<rq[c].value, q * SECTOR_SIZE + r>>
    <2>1. /\ r + 1 \in 1..SECTOR_SIZE
          /\ q * SECTOR_SIZE + (r + 1) - 1 = q * SECTOR_SIZE + r
      <3>1. q * SECTOR_SIZE \in Nat
        BY <1>2, DiskAssumption DEF Numbers
      <3> QED  BY <1>2, <3>1, DiskAssumption
    <2> QED  BY <2>1 DEF SectorData
  <1> HIDE DEF at, mine
  <1> QED
    BY <1>1, <1>2, <1>3, <1>4, <1>7, <1>8, <1>9, <1>10, <1>11, <1>12 DEF At

\* It changes no other sector, and a read changes none.
LEMMA CopyPieceStep ==
  ASSUME DiskInv, NEW c \in Cpus, CopyPiece(c)
  PROVE  StepOf(c)
  <1> DEFINE q == SectorOf(c)
             r == PlaceIn(c)
  <1>1. \A o \in Cpus \ {c} : SamePlace(o) /\ page'[o] = page[o]
    BY DEF CopyPiece, SamePlace, DiskInv, DiskTypes
  <1>2. /\ q \in Numbers /\ r \in 0..SECTOR_SIZE - 1 /\ rq' = rq
        /\ InSector(c) <=> r > 0
        /\ r + 1 < SECTOR_SIZE => InSector(c)' /\ SectorOf(c)' = q
        /\ r + 1 = SECTOR_SIZE => ~InSector(c)'
        /\ rq[c].dir = "WRITE" =>
             \A i \in 0..Size - 1 :
               i # At(q, r) => disk'[i] = disk[i]
        /\ rq[c].dir # "WRITE" => disk' = disk
    BY PieceFacts
  <1>3. r + 1 < SECTOR_SIZE \/ r + 1 = SECTOR_SIZE
    <2> HIDE DEF r
    <2> QED  BY <1>2, DiskAssumption
  <1>4. InSector(c) /\ InSector(c)' => rq'[c] = rq[c] /\ SectorOf(c)' = q
    <2> HIDE DEF q, r
    <2> QED  BY <1>2, <1>3
  <1>5. rq[c].dir = "WRITE" =>
          (Writing(c) /\ SectorOf(c) = q) \/ (Writing(c)' /\ SectorOf(c)' = q)
    <2> SUFFICES ASSUME rq[c].dir = "WRITE", ~Writing(c)
                 PROVE  Writing(c)' /\ SectorOf(c)' = q
      OBVIOUS
    <2>1. r = 0
      <3>1. ~InSector(c)
        BY DEF Writing
      <3> HIDE DEF r
      <3> QED  BY <1>2, <3>1, DiskAssumption
    <2>2. r + 1 < SECTOR_SIZE
      <3> HIDE DEF r
      <3> QED  BY <2>1, DiskAssumption
    <2> QED  BY <1>2, <2>2 DEF Writing
  <1>6. ASSUME NEW s \in Numbers,
               ~(Writing(c) /\ s = SectorOf(c)), ~(Writing(c)' /\ s = SectorOf(c)')
        PROVE  Slice(s)' = Slice(s)
    <2>1. CASE rq[c].dir # "WRITE"
      BY <1>2, <2>1 DEF Slice
    <2>2. CASE rq[c].dir = "WRITE"
      <3>1. s # q
        BY <1>5, <1>6, <2>2
      <3>2. s \in Nat /\ q \in Nat
        BY <1>2, DiskAssumption DEF Numbers
      <3> HIDE DEF q, r
      <3>3. \A i \in 1..SECTOR_SIZE : s * SECTOR_SIZE + i - 1 # q * SECTOR_SIZE + r
        BY <1>2, <3>1, <3>2, SectorsApart
      <3>4. \A i \in 1..SECTOR_SIZE :
              disk'[s * SECTOR_SIZE + i - 1] = disk[s * SECTOR_SIZE + i - 1]
        BY <1>2, <2>2, <3>3, SlicePlace DEF At
      <3> QED  BY <3>4 DEF Slice
    <2> QED  BY <2>1, <2>2
  <1> QED  BY <1>1, <1>4, <1>6 DEF StepOf

\* A piece of a write changes the one place of the sector that it is for.
LEMMA PieceWritten ==
  ASSUME DiskInv, NEW c \in Cpus, CopyPiece(c), rq[c].dir = "WRITE",
         NEW i \in 1..SECTOR_SIZE
  PROVE  LET q == SectorOf(c)
             r == PlaceIn(c) IN
         /\ i = r + 1 => disk'[q * SECTOR_SIZE + i - 1] = SectorData(c)[i]
         /\ i # r + 1 => disk'[q * SECTOR_SIZE + i - 1] = disk[q * SECTOR_SIZE + i - 1]
  <1> DEFINE q == SectorOf(c)
             r == PlaceIn(c)
  <1>1. /\ q \in Numbers /\ r \in 0..SECTOR_SIZE - 1
        /\ disk'[At(q, r)] = SectorData(c)[r + 1]
        /\ \A p \in 0..Size - 1 :
             p # At(q, r) => disk'[p] = disk[p]
    BY PieceFacts
  <1>2. q * SECTOR_SIZE + i - 1 \in 0..Size - 1
    BY <1>1, SlicePlace
  <1>3. i = r + 1 <=> q * SECTOR_SIZE + i - 1 = q * SECTOR_SIZE + r
    <2>1. q * SECTOR_SIZE \in Nat
      BY <1>1, DiskAssumption DEF Numbers
    <2> QED  BY <1>1, <2>1, DiskAssumption
  <1> QED  BY <1>1, <1>2, <1>3 DEF At

RegStep(c) == StepOf(c) /\ WriteInv(c)' /\ ReadInv(c)' /\ Maps(c)

LEMMA WritePieceReg ==
  ASSUME DiskInv, DiskInv', SectorInv, History, NEW c \in Cpus, CopyPiece(c),
         rq[c].dir = "WRITE"
  PROVE  RegStep(c)
  <1> DEFINE q == SectorOf(c)
             r == PlaceIn(c)
  <1>1. /\ q \in Numbers /\ r \in 0..SECTOR_SIZE - 1 /\ rq' = rq
        /\ InSector(c) <=> r > 0
        /\ r + 1 < SECTOR_SIZE =>
             InSector(c)' /\ SectorOf(c)' = q /\ PlaceIn(c)' = r + 1
        /\ r + 1 = SECTOR_SIZE => ~InSector(c)' /\ JustDone(c)'
        /\ page' = page
    BY PieceFacts
  <1>2. StepOf(c)
    BY CopyPieceStep
  <1>3. page'[c] = <<>> /\ rq'[c] = rq[c]
    BY <1>1 DEF SectorInv, ReadInv
  <1>4. ReadInv(c)'
    BY <1>3 DEF ReadInv, Writing
  <1>5. \A i \in 1..SECTOR_SIZE :
          /\ i = r + 1 => disk'[q * SECTOR_SIZE + i - 1] = SectorData(c)[i]
          /\ i # r + 1 => disk'[q * SECTOR_SIZE + i - 1] = disk[q * SECTOR_SIZE + i - 1]
    BY PieceWritten
  \* What is written of the sector after the step.
  <1>6. ASSUME InSector(c) => c \in clean, NEW i \in 1..SECTOR_SIZE, i <= r + 1
        PROVE  disk'[q * SECTOR_SIZE + i - 1] = SectorData(c)[i]
    <2>1. CASE i = r + 1
      BY <1>5, <2>1
    <2>2. CASE i # r + 1
      <3>1. r \in Nat /\ i \in 1..r /\ r > 0
        <4> HIDE DEF q, r
        <4> QED  BY <1>1, <1>6, <2>2, DiskAssumption
      <3>2. Writing(c) /\ c \in clean
        BY <1>1, <1>6, <3>1 DEF Writing
      <3>3. Slice(q)[i] = SectorData(c)[i]
        BY <3>1, <3>2 DEF SectorInv, WriteInv
      <3>4. disk[q * SECTOR_SIZE + i - 1] = SectorData(c)[i]
        BY <3>3 DEF Slice
      <3> QED  BY <1>5, <2>2, <3>4
    <2> QED  BY <2>1, <2>2
  <1>7. InSector(c) /\ c \in clean' => c \in clean
    BY <1>2, CleanAfter
  <1>8. CASE r + 1 < SECTOR_SIZE
    <2>1. InSector(c)' /\ SectorOf(c)' = q /\ PlaceIn(c)' = r + 1
      BY <1>1, <1>8
    <2>2. SectorData(c)' = SectorData(c)
      BY <1>1, <2>1 DEF SectorData
    <2>3. WriteInv(c)'
      <3> SUFFICES ASSUME c \in clean', NEW i \in 1..(r + 1)
                   PROVE  (Slice(SectorOf(c))[i])' = SectorData(c)[i]
        BY <2>1, <2>2 DEF WriteInv
      <3>1. i \in 1..SECTOR_SIZE /\ i <= r + 1
        <4> HIDE DEF q, r
        <4> QED  BY <1>1, <1>8, DiskAssumption
      <3>2. disk'[q * SECTOR_SIZE + i - 1] = SectorData(c)[i]
        BY <1>6, <1>7, <3>1
      <3> HIDE DEF q, r
      <3> QED  BY <2>1, <3>1, <3>2 DEF Slice
    <2>4. SectorInv'
      BY <1>2, <1>4, <2>3, SectorFrame
    <2>5. CASE InSector(c)
      BY <1>2, <1>4, <2>1, <2>3, <2>4, <2>5, MapInside DEF RegStep
    <2>6. CASE ~InSector(c)
      <3>1. Writing(c)' /\ SectorOf(c)' \in Numbers
        BY <1>1, <1>3, <2>1 DEF Writing
      <3>2. SectorData(c)' \in Seq(Piece)
        <4>1. rq[c].value \in Values
          BY RequestFacts DEF CopyPiece, DiskInv, Place
        <4>2. \A i \in 1..SECTOR_SIZE : q * SECTOR_SIZE + i - 1 \in 0..Size - 1
          BY <1>1, SlicePlace
        <4>3. SectorData(c) \in Seq(Piece)
          BY <4>1, <4>2, DiskAssumption DEF SectorData, Piece
        <4> QED  BY <2>2, <4>3
      <3> QED
        BY <1>2, <1>4, <2>3, <2>4, <2>6, <3>1, <3>2, MapBeginWrite DEF RegStep
    <2> QED  BY <2>5, <2>6
  <1>9. CASE r + 1 = SECTOR_SIZE
    <2>1. ~InSector(c)' /\ JustDone(c)' /\ r > 0 /\ InSector(c)
      <3>1. r > 0
        <4> HIDE DEF r
        <4> QED  BY <1>1, <1>9, DiskAssumption
      <3> QED  BY <1>1, <1>9, <3>1
    <2>2. Writing(c)
      BY <2>1 DEF Writing
    <2>3. WriteInv(c)'
      BY <2>1 DEF WriteInv, Writing
    <2>4. SectorInv'
      BY <1>2, <1>4, <2>3, SectorFrame
    <2>5. c \in clean => \A i \in 1..SECTOR_SIZE :
            disk'[q * SECTOR_SIZE + i - 1] = SectorData(c)[i]
      BY <1>6, <1>9, DiskAssumption
    <2>6. Maps(c)
      BY <1>2, <1>3, <2>1, <2>2, <2>4, <2>5, MapEndWrite
    <2> QED  BY <1>2, <1>4, <2>3, <2>6 DEF RegStep
  <1>10. r + 1 < SECTOR_SIZE \/ r + 1 = SECTOR_SIZE
    <2> HIDE DEF r, q
    <2> QED  BY <1>1, DiskAssumption
  <1> QED  BY <1>8, <1>9, <1>10

LEMMA ReadPieceReg ==
  ASSUME DiskInv, DiskInv', SectorInv, History, NEW c \in Cpus, CopyPiece(c),
         rq[c].dir # "WRITE"
  PROVE  RegStep(c)
  <1> DEFINE q == SectorOf(c)
             r == PlaceIn(c)
             x == disk[At(q, r)]
  <1>1. /\ q \in Numbers /\ r \in 0..SECTOR_SIZE - 1 /\ rq' = rq
        /\ InSector(c) <=> r > 0
        /\ r + 1 < SECTOR_SIZE =>
             InSector(c)' /\ SectorOf(c)' = q /\ PlaceIn(c)' = r + 1
        /\ r + 1 = SECTOR_SIZE => ~InSector(c)' /\ JustDone(c)'
        /\ disk' = disk /\ x \in Piece
        /\ page'[c] = IF InSector(c) THEN Append(page[c], x) ELSE <<x>>
    BY PieceFacts
  <1>2. StepOf(c) /\ ~Writing(c) /\ ~Writing(c)' /\ WriteInv(c)'
    BY <1>1, CopyPieceStep DEF Writing, WriteInv
  <1>3. pc'[c] = "copy" /\ rq'[c].dir # "WRITE" /\ page[c] \in Seq(Piece)
    BY <1>1 DEF CopyPiece, DiskInv, DiskTypes
  <1>4. Slice(q)[r + 1] = x
    <2>1. /\ r + 1 \in 1..SECTOR_SIZE
          /\ q * SECTOR_SIZE + (r + 1) - 1 = q * SECTOR_SIZE + r
      <3>1. q * SECTOR_SIZE \in Nat
        BY <1>1, DiskAssumption DEF Numbers
      <3> HIDE DEF q, r
      <3> QED  BY <1>1, <3>1, DiskAssumption
    <2> HIDE DEF q, r
    <2> QED  BY <2>1 DEF Slice, x, At
  \* What is read of the sector after the step.
  <1>5. /\ page'[c] \in Seq(Piece) /\ Len(page'[c]) = r + 1
        /\ (InSector(c) => c \in clean) =>
             \A i \in 1..(r + 1) : page'[c][i] = Slice(q)[i]
    <2>1. CASE InSector(c)
      <3>1. /\ Len(page[c]) = r
            /\ c \in clean => \A i \in 1..r : page[c][i] = Slice(q)[i]
        BY <1>2, <2>1 DEF SectorInv, ReadInv
      <3>2. page'[c] = Append(page[c], x)
        BY <1>1, <2>1
      <3> HIDE DEF q, r, x, Slice
      <3>3. /\ Append(page[c], x) \in Seq(Piece) /\ Len(Append(page[c], x)) = r + 1
            /\ Append(page[c], x)[r + 1] = x
            /\ \A i \in 1..r : Append(page[c], x)[i] = page[c][i]
        BY <1>1, <1>3, <3>1
      <3>4. \A i \in 1..(r + 1) : i \in 1..r \/ i = r + 1
        BY <1>1
      <3> QED  BY <1>4, <2>1, <3>1, <3>2, <3>3, <3>4
    <2>2. CASE ~InSector(c)
      <3>1. page'[c] = <<x>> /\ r = 0
        <4>1. ~(r > 0) /\ page'[c] = <<x>>
          BY <1>1, <2>2
        <4> HIDE DEF r, q, x
        <4> QED  BY <1>1, <4>1, DiskAssumption
      <3> HIDE DEF q, r, x, Slice
      <3>2. <<x>> \in Seq(Piece) /\ Len(<<x>>) = 1 /\ <<x>>[1] = x
        BY <1>1
      <3>3. \A i \in 1..(r + 1) : i = 1
        BY <3>1
      <3> QED  BY <1>4, <3>1, <3>2, <3>3
    <2> QED  BY <2>1, <2>2
  <1>6. InSector(c) /\ c \in clean' => c \in clean
    BY <1>2, CleanAfter
  <1>7. CASE r + 1 < SECTOR_SIZE
    <2>1. InSector(c)' /\ SectorOf(c)' = q /\ PlaceIn(c)' = r + 1
      BY <1>1, <1>7
    <2>2. Slice(SectorOf(c))' = Slice(q)
      BY <1>1, <2>1 DEF Slice
    <2>3. ReadInv(c)'
      <3> HIDE DEF q, r, x, Slice
      <3> QED  BY <1>3, <1>5, <1>6, <2>1, <2>2 DEF ReadInv
    <2>4. SectorInv'
      BY <1>2, <2>3, SectorFrame
    <2>5. Maps(c)
      <3>1. CASE InSector(c)
        BY <1>2, <2>1, <2>4, <3>1, MapInside
      <3>2. CASE ~InSector(c)
        <4>1. SectorOf(c)' \in Numbers
          BY <1>1, <2>1
        <4> QED  BY <1>2, <2>1, <2>4, <3>2, <4>1, MapBeginRead
      <3> QED  BY <3>1, <3>2
    <2> QED  BY <1>2, <2>3, <2>5 DEF RegStep
  <1>8. CASE r + 1 = SECTOR_SIZE
    <2>1. ~InSector(c)' /\ JustDone(c)' /\ InSector(c)
      <3>1. r > 0
        <4> HIDE DEF r, q, x
        <4> QED  BY <1>1, <1>8, DiskAssumption
      <3> QED  BY <1>1, <1>8, <3>1
    <2>2. ReadInv(c)'
      BY <1>3, <2>1 DEF ReadInv
    <2>3. SectorInv'
      BY <1>2, <2>2, SectorFrame
    <2>4. Len(page'[c]) = SECTOR_SIZE
      BY <1>5, <1>8
    <2>5. c \in clean => page'[c] = Slice(q)
      <3> SUFFICES ASSUME c \in clean  PROVE page'[c] = Slice(q)
        OBVIOUS
      <3>1. \A i \in 1..SECTOR_SIZE : page'[c][i] = Slice(q)[i]
        BY <1>5, <1>8
      <3>2. Slice(q) \in Seq(Piece) /\ Len(Slice(q)) = SECTOR_SIZE
        BY <1>1, SliceType
      <3> HIDE DEF q, r, x, Slice
      <3> QED  BY <1>5, <2>4, <3>1, <3>2
    <2>6. Maps(c)
      BY <1>2, <1>5, <2>1, <2>3, <2>4, <2>5, MapEndRead
    <2> QED  BY <1>2, <2>2, <2>6 DEF RegStep
  <1>9. r + 1 < SECTOR_SIZE \/ r + 1 = SECTOR_SIZE
    <2> HIDE DEF r, q, x
    <2> QED  BY <1>1, DiskAssumption
  <1> QED  BY <1>7, <1>8, <1>9

\* A step that copies nothing, of a CPU that is between two sectors.
LEMMA BetweenStep ==
  ASSUME DiskInv, DiskInv', SectorInv, History, NEW c \in Cpus,
         \A o \in Cpus \ {c} : SamePlace(o) /\ page'[o] = page[o],
         disk' = disk, ~InSector(c), ~InSector(c)', ~JustDone(c)',
         page'[c] = <<>>
  PROVE  RegStep(c)
  <1>1. StepOf(c)
    <2>1. \A s \in Numbers : Slice(s)' = Slice(s)
      BY DEF Slice
    <2> QED  BY <2>1 DEF StepOf
  <1>2. WriteInv(c)' /\ ReadInv(c)'
    BY DEF WriteInv, ReadInv, Writing
  <1>3. SectorInv'
    BY <1>1, <1>2, SectorFrame
  <1>4. Maps(c)
    BY <1>1, <1>3, MapForget
  <1> QED  BY <1>1, <1>2, <1>4 DEF RegStep

LEMMA BetweenReg ==
  ASSUME DiskInv, DiskInv', SectorInv, History, NEW c \in Cpus,
         QueueRq(c) \/ NextBio(c) \/ SegmentStarts(c) \/ BioEnds(c)
           \/ BiosEnd(c) \/ EndRequest(c)
  PROVE  RegStep(c)
  <1> USE DEF QueueRq, NextBio, SegmentStarts, BioEnds, BiosEnd, EndRequest,
          Goto, loopVars
  <1>1. disk' = disk /\ page' = page /\ pc[c] # "copy"
    OBVIOUS
  <1>2. \A o \in Cpus \ {c} : SamePlace(o) /\ page'[o] = page[o]
    <2>1. CASE QueueRq(c)  BY <2>1 DEF DiskInv, DiskTypes, SamePlace
    <2>2. CASE NextBio(c)  BY <2>2 DEF DiskInv, DiskTypes, SamePlace
    <2>3. CASE SegmentStarts(c)  BY <2>3 DEF DiskInv, DiskTypes, SamePlace
    <2>4. CASE BioEnds(c)  BY <2>4 DEF DiskInv, DiskTypes, SamePlace
    <2>5. CASE BiosEnd(c)  BY <2>5 DEF DiskInv, DiskTypes, SamePlace
    <2>6. CASE EndRequest(c)  BY <2>6 DEF DiskInv, DiskTypes, SamePlace
    <2> QED  BY <2>1, <2>2, <2>3, <2>4, <2>5, <2>6
  <1>3. ~InSector(c)
    BY <1>1, InSectorCopies
  <1>4. copied'[c] = 0
    <2>1. copied[c] = 0 /\ copied' = copied
      BY <1>1 DEF DiskInv, Place
    <2> QED  BY <2>1
  <1>5. ~JustDone(c)'
    BY <1>4 DEF JustDone
  <1>6. ~InSector(c)'
    <2>1. CASE EndRequest(c)
      <3>1. done'[c] = 0
        BY <2>1 DEF DiskInv, DiskTypes
      <3>2. 0 % SECTOR_SIZE = 0
        <4>1. 0 * SECTOR_SIZE = 0  BY DiskAssumption
        <4> QED  BY <4>1, WholeSectors
      <3> QED  BY <3>1, <3>2 DEF InSector
    <2>2. CASE ~EndRequest(c)
      <3>1. done' = done
        BY <2>2
      <3> QED  BY <1>3, <3>1 DEF InSector
    <2> QED  BY <2>1, <2>2
  <1>7. page'[c] = <<>>
    BY <1>1 DEF SectorInv, ReadInv
  <1> QED  BY <1>1, <1>2, <1>3, <1>5, <1>6, <1>7, BetweenStep

LEMMA SegmentEndsReg ==
  ASSUME DiskInv, DiskInv', SectorInv, History, NEW c \in Cpus, SegmentEnds(c)
  PROVE  RegStep(c)
  <1> USE DEF SegmentEnds, Goto
  <1>1. \A o \in Cpus \ {c} : SamePlace(o) /\ page'[o] = page[o]
    BY DEF DiskInv, DiskTypes, SamePlace
  <1>2. pc'[c] = "segment" /\ page'[c] = <<>> /\ done' = done /\ disk' = disk
    BY DEF DiskInv, DiskTypes
  <1>3. ~InSector(c)
    <2>1. copied[c] \in Nat
      BY DEF DiskInv, DiskTypes
    <2> QED  BY <2>1, InSectorCopies
  <1>4. ~InSector(c)' /\ ~JustDone(c)'
    BY <1>2, <1>3 DEF InSector, JustDone
  <1> QED  BY <1>1, <1>2, <1>3, <1>4, BetweenStep

LEMMA SectorStep ==
  ASSUME DiskInv, SectorInv, History, NEW c \in Cpus, myramdisk_queue_rq(c)
  PROVE  DiskInv' /\ SectorInv' /\ [Sectors!Next]_Sectors!registerVars
  <1>1. DiskInv'
    BY StepInv
  <1>2. RegStep(c)
    BY <1>1, BetweenReg, SegmentEndsReg, WritePieceReg, ReadPieceReg
    DEF myramdisk_queue_rq, myramdisk_transfer_bio
  <1> QED  BY <1>1, <1>2, SectorFrame, MapsNext DEF RegStep

LEMMA SectorInit == Init => SectorInv /\ Sectors!Init
  <1> SUFFICES ASSUME Init  PROVE SectorInv /\ Sectors!Init
    OBVIOUS
  <1>1. /\ \A c \in Cpus : pc[c] = "idle" /\ done[c] = 0 /\ page[c] = <<>>
        /\ clean = {} /\ known = Numbers
        /\ \A i \in 0..Size - 1 : disk[i] = Zero
    BY DEF Init, Numbers
  <1>2. \A c \in Cpus : ~InSector(c) /\ ~Writing(c) /\ ~JustDone(c)
    <2>1. 0 * SECTOR_SIZE = 0
      BY DiskAssumption
    <2>2. 0 % SECTOR_SIZE = 0
      BY <2>1, WholeSectors
    <2> QED  BY <1>1, <2>2 DEF InSector, Writing, JustDone
  <1>3. SectorInv
    BY <1>1, <1>2 DEF SectorInv, CleanInv, KnownInv, WriteInv, ReadInv
  <1>4. RValue = [s \in Numbers |-> [i \in 1..SECTOR_SIZE |-> Zero]]
    <2>1. \A s \in Numbers : Slice(s) = [i \in 1..SECTOR_SIZE |-> Zero]
      BY <1>1, SlicePlace DEF Slice
    <2> QED  BY <1>1, <2>1 DEF RValue
  <1>5. ROp = [c \in Cpus |-> None]
    BY <1>2, OpFacts DEF ROp
  <1>6. RGot = [c \in Cpus |-> <<>>] /\ RRet = [c \in Cpus |-> 0]
    BY <1>2 DEF RGot, RRet
  <1>7. Sectors!Init
    BY <1>1, <1>4, <1>5, <1>6
    DEF Sectors!Init, Sectors!NoOp, None, RValue, ROp, RGot, RRet, Numbers, Slice
  <1> QED  BY <1>3, <1>7

\* A step of none of the CPUs.
LEMMA SectorStutter ==
  ASSUME SectorInv, UNCHANGED diskVars
  PROVE  SectorInv' /\ UNCHANGED Sectors!registerVars
  <1> USE DEF diskVars, loopVars
  <1>1. \A c \in Cpus : /\ Writing(c)' = Writing(c) /\ InSector(c)' = InSector(c)
                        /\ SectorOf(c)' = SectorOf(c) /\ JustDone(c)' = JustDone(c)
                        /\ SectorData(c)' = SectorData(c) /\ PlaceIn(c)' = PlaceIn(c)
    BY DEF Writing, InSector, SectorOf, JustDone, SectorData, PlaceIn
  <1>2. \A s \in Numbers : Slice(s)' = Slice(s)
    BY DEF Slice
  <1>3. SectorInv'
    BY DEF SectorInv, CleanInv, KnownInv, WriteInv, ReadInv, Writing, InSector,
       SectorOf, SectorData, PlaceIn, Slice
  <1>4. UNCHANGED <<RValue, ROp, RGot, RRet>>
    BY <1>1, <1>2 DEF RValue, ROp, RGot, RRet, OpOf, Numbers
  <1> QED
    BY <1>3, <1>4 DEF Sectors!registerVars, RValue, ROp, RGot, RRet, Numbers, Slice

\* 08 implements a safe register for each sector, for any disk, any cut of the
\* requests and any number of CPUs: a transfer of a sector that no write of it
\* overlaps is whole, and no request touches a sector that is not its own.
THEOREM ImplementsSectors == Spec => RefinesSectors
  <1>1. Init => DiskInv /\ SectorInv /\ Sectors!Init
    BY InitDiskInv, SectorInit
  <1>2. DiskInv /\ SectorInv /\ [Next]_diskVars =>
          DiskInv' /\ SectorInv' /\ [Sectors!Next]_Sectors!registerVars
    <2> SUFFICES ASSUME DiskInv, SectorInv, [Next]_diskVars
                 PROVE  /\ DiskInv' /\ SectorInv'
                        /\ [Sectors!Next]_Sectors!registerVars
      OBVIOUS
    <2>1. CASE Next
      BY <2>1, SectorStep DEF Next
    <2>2. CASE UNCHANGED diskVars
      BY <2>2, StutterInv, SectorStutter
    <2> QED  BY <2>1, <2>2
  <1> QED  BY <1>1, <1>2, PTL DEF Spec, RefinesSectors, Sectors!Spec
=============================================================================
