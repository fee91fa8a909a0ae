------------------------------ MODULE RamDisk ------------------------------
(***************************************************************************)
(* 08-block-dev-ramdisk-basic: the requests of the disk.                   *)
(*                                                                         *)
(* blk-mq calls queue_rq on any CPU, and on several at once.  A request    *)
(* is a list of bios, each of them a first sector and a list of segments   *)
(* of memory; the driver copies segment by segment between memory and the  *)
(* disk, without a lock, in pieces smaller than a sector.                  *)
(***************************************************************************)
EXTENDS Integers, SequencesExt

CONSTANTS
  Cpus,
  NSECTORS,
  SECTOR_SIZE,  (* in the pieces memcpy copies one after the other         *)
  Shapes,       (* how requests are cut: for each bio, the sectors, from   *)
                (* the first of the request on, at which its segments      *)
                (* start, and the one at which the last of them ends       *)
  Values        (* what the data of writes is told apart by                *)

\* The sector at which bios end.
End(s) == Last(Last(s))

\* Bios that follow each other from one sector to another.
Covers(s, from, to) ==
  /\ s = <<>> => from = to
  /\ s # <<>> => s[1][1] = from /\ End(s) = to
  /\ \A k \in 1..Len(s) :
       /\ Len(s[k]) > 1 /\ Last(s[k]) <= to
       /\ \A i, j \in 1..Len(s[k]) : i < j => s[k][i] < s[k][j]
       /\ k > 1 => s[k][1] = Last(s[k - 1])

ASSUME DiskAssumption ==
  /\ NSECTORS \in Nat \ {0} /\ SECTOR_SIZE \in Nat \ {0, 1}
  /\ \A s \in Shapes :
       s \in Seq(Seq(Nat)) /\ s # <<>> /\ Covers(s, 0, End(s))

VARIABLES
  disk,    (* dev->data                                                    *)
  pc,      (* where each CPU is                                            *)
  rq,      (* the request it handles                                       *)
  bios,    (* the bios __rq_for_each_bio has still to visit                *)
  segs,    (* the segments bio_for_each_segment has still to visit, the    *)
           (* current one first, as their starts and the end of the last   *)
  sector,  (* the sector of the current segment                            *)
  copied,  (* how much of the segment is copied                            *)
  done,    (* how much of the request is copied                            *)
  page,    (* what a read has put into the memory of the request, of the   *)
           (* sector it is at                                              *)
  status,  (* what the request was ended with                              *)
  clean,   (* history: CPUs in the middle of a sector that no other writes *)
  known    (* history: sectors whose last write was such                   *)

loopVars == <<bios, segs, sector, copied>>
diskVars == <<disk, pc, rq, loopVars, done, page, status, clean, known>>

Size == NSECTORS * SECTOR_SIZE

\* A piece of data of a write is known by the write and the place on the disk
\* it is meant for.
Zero == <<"zero", 0>>
Piece == {Zero} \cup Values \X (0..Size - 1)

NoRq == [dir |-> "none", first |-> 0, shape |-> <<>>, value |-> "zero"]

\* What the block layer may pass to a driver that has called set_capacity
\* and set its block size: whole sectors of the disk.
Requests ==
  {r \in [dir : {"READ"}, first : 0..NSECTORS - 1, shape : Shapes,
          value : {"zero"}]
         \cup [dir : {"WRITE"}, first : 0..NSECTORS - 1, shape : Shapes,
               value : Values] :
     r.first + End(r.shape) <= NSECTORS}

\* The number of sectors of the current segment.
SegLen(c) == segs[c][2] - segs[c][1]

\* The request is in the middle of a sector.
InSector(c) == done[c] % SECTOR_SIZE # 0

Goto(c, l) == pc' = [pc EXCEPT ![c] = l]

-----------------------------------------------------------------------------
\* myramdisk_queue_rq, blk_mq_start_request
QueueRq(c) ==
  /\ pc[c] = "idle"
  /\ \E r \in Requests :
       /\ rq' = [rq EXCEPT ![c] = r]
       /\ bios' = [bios EXCEPT ![c] = r.shape]
  /\ Goto(c, "bio")
  /\ UNCHANGED <<disk, segs, sector, copied, done, page, status>>

\* __rq_for_each_bio, and the start of myramdisk_transfer_bio
NextBio(c) ==
  /\ pc[c] = "bio" /\ bios[c] # <<>>
  /\ sector' = [sector EXCEPT ![c] = rq[c].first + bios[c][1][1]]
  /\ segs' = [segs EXCEPT ![c] = Head(bios[c])]
  /\ bios' = [bios EXCEPT ![c] = Tail(@)]
  /\ Goto(c, "segment")
  /\ UNCHANGED <<disk, rq, copied, done, page, status>>

\* Faulty: a segment that ends with the disk is refused.
PastEnd_Last(c) == (sector[c] + SegLen(c)) * SECTOR_SIZE >= Size

\* offset + len > NSECTORS * KERNEL_SECTOR_SIZE
PastEnd(c) == (sector[c] + SegLen(c)) * SECTOR_SIZE > Size

\* bio_for_each_segment, and the check of the bounds
SegmentStarts(c) ==
  /\ pc[c] = "segment" /\ Len(segs[c]) > 1
  /\ status' = [status EXCEPT ![c] = IF PastEnd(c) THEN "IOERR" ELSE @]
  /\ Goto(c, IF PastEnd(c) THEN "end" ELSE "copy")
  /\ UNCHANGED <<disk, rq, loopVars, done, page>>

\* One piece of memcpy, from the page to the disk or the other way.
CopyPiece(c) ==
  LET at   == sector[c] * SECTOR_SIZE + copied[c]
      mine == rq[c].first * SECTOR_SIZE + done[c] IN
  /\ pc[c] = "copy" /\ copied[c] < SegLen(c) * SECTOR_SIZE
  /\ IF rq[c].dir = "WRITE"
     THEN disk' = [disk EXCEPT ![at] = <<rq[c].value, mine>>] /\ UNCHANGED page
     ELSE /\ page' = [page EXCEPT ![c] =
               IF InSector(c) THEN Append(@, disk[at]) ELSE <<disk[at]>>]
          /\ UNCHANGED disk
  /\ copied' = [copied EXCEPT ![c] = @ + 1]
  /\ done' = [done EXCEPT ![c] = @ + 1]
  /\ UNCHANGED <<pc, rq, bios, segs, sector, status>>

\* Faulty: the next segment goes to the same sectors.
SegmentEnds_Stays(c) ==
  /\ pc[c] = "copy" /\ copied[c] = SegLen(c) * SECTOR_SIZE
  /\ segs' = [segs EXCEPT ![c] = Tail(@)]
  /\ copied' = [copied EXCEPT ![c] = 0]
  /\ page' = [page EXCEPT ![c] = <<>>]
  /\ Goto(c, "segment")
  /\ UNCHANGED <<disk, rq, bios, sector, done, status>>

SegmentEnds(c) ==
  /\ pc[c] = "copy" /\ copied[c] = SegLen(c) * SECTOR_SIZE
  /\ sector' = [sector EXCEPT ![c] = @ + copied[c] \div SECTOR_SIZE]
  /\ segs' = [segs EXCEPT ![c] = Tail(@)]
  /\ copied' = [copied EXCEPT ![c] = 0]
  /\ page' = [page EXCEPT ![c] = <<>>]
  /\ Goto(c, "segment")
  /\ UNCHANGED <<disk, rq, bios, done, status>>

BioEnds(c) ==
  /\ pc[c] = "segment" /\ Len(segs[c]) = 1
  /\ Goto(c, "bio")
  /\ UNCHANGED <<disk, rq, loopVars, done, page, status>>

BiosEnd(c) ==
  /\ pc[c] = "bio" /\ bios[c] = <<>>
  /\ status' = [status EXCEPT ![c] = "OK"]
  /\ Goto(c, "end")
  /\ UNCHANGED <<disk, rq, loopVars, done, page>>

\* blk_mq_end_request
EndRequest(c) ==
  /\ pc[c] = "end"
  /\ rq' = [rq EXCEPT ![c] = NoRq]
  /\ bios' = [bios EXCEPT ![c] = <<>>]
  /\ segs' = [segs EXCEPT ![c] = <<>>]
  /\ sector' = [sector EXCEPT ![c] = 0]
  /\ done' = [done EXCEPT ![c] = 0]
  /\ status' = [status EXCEPT ![c] = "none"]
  /\ Goto(c, "idle")
  /\ UNCHANGED <<disk, copied, page>>

myramdisk_transfer_bio(c) ==
  \/ NextBio(c) \/ SegmentStarts(c) \/ CopyPiece(c) \/ SegmentEnds(c)
  \/ BioEnds(c)

myramdisk_queue_rq(c) ==
  QueueRq(c) \/ myramdisk_transfer_bio(c) \/ BiosEnd(c) \/ EndRequest(c)

-----------------------------------------------------------------------------
(* History: the sectors CPUs are in the middle of, for the block layer     *)

SectorOf(c) == rq[c].first + done[c] \div SECTOR_SIZE
Writing(c)  == InSector(c) /\ rq[c].dir = "WRITE"

History ==
  /\ clean' = {c \in Cpus :
       /\ InSector(c)'
       /\ InSector(c) => c \in clean
       /\ \A o \in Cpus \ {c} : ~(Writing(o) /\ SectorOf(o) = SectorOf(c))'}
  /\ known' = {s \in 0..NSECTORS - 1 :
       LET before == {c \in Cpus : Writing(c) /\ SectorOf(c) = s} IN
       /\ \A c \in Cpus : ~(Writing(c) /\ SectorOf(c) = s)'
       /\ IF before = {} THEN s \in known ELSE before \subseteq clean}

Init ==
  /\ disk = [i \in 0..Size - 1 |-> Zero]
  /\ pc = [c \in Cpus |-> "idle"]
  /\ rq = [c \in Cpus |-> NoRq]
  /\ bios = [c \in Cpus |-> <<>>]
  /\ segs = [c \in Cpus |-> <<>>]
  /\ sector = [c \in Cpus |-> 0]
  /\ copied = [c \in Cpus |-> 0]
  /\ done = [c \in Cpus |-> 0]
  /\ page = [c \in Cpus |-> <<>>]
  /\ status = [c \in Cpus |-> "none"]
  /\ clean = {}
  /\ known = 0..NSECTORS - 1

Next == (\E c \in Cpus : myramdisk_queue_rq(c)) /\ History

Spec == Init /\ [][Next]_diskVars

-----------------------------------------------------------------------------
(* Properties                                                              *)

\* However a request is cut into bios and segments, and wherever on the disk
\* it is, up to the last sector, it is transferred whole and succeeds.
TransferredWhole ==
  \A c \in Cpus : pc[c] = "end" =>
    /\ status[c] = "OK"
    /\ done[c] = End(rq[c].shape) * SECTOR_SIZE

SectorData(c) ==
  [i \in 1..SECTOR_SIZE |-> <<rq[c].value, SectorOf(c) * SECTOR_SIZE + i - 1>>]

OpOf(c) ==
  CASE Writing(c)  -> [kind |-> "write", reg |-> SectorOf(c),
                       data |-> SectorData(c)]
    [] InSector(c) /\ ~Writing(c) ->
                      [kind |-> "read", reg |-> SectorOf(c), from |-> 0,
                       len |-> SECTOR_SIZE]
    [] OTHER       -> [kind |-> "none"]

JustDone(c) == pc[c] = "copy" /\ ~InSector(c) /\ copied[c] > 0

Sectors == INSTANCE SafeRegisters WITH
  Procs     <- Cpus,
  Registers <- 0..NSECTORS - 1,
  Unit      <- Piece,
  Initial   <- [i \in 1..SECTOR_SIZE |-> Zero],
  Faulty    <- {},
  Loose     <- {},
  value     <- [s \in 0..NSECTORS - 1 |-> IF s \in known
                  THEN [i \in 1..SECTOR_SIZE |-> disk[s * SECTOR_SIZE + i - 1]]
                  ELSE <<>>],
  op        <- [c \in Cpus |-> OpOf(c)],
  got       <- [c \in Cpus |-> IF JustDone(c) THEN page[c] ELSE <<>>],
  ret       <- [c \in Cpus |-> IF JustDone(c) THEN SECTOR_SIZE ELSE 0]

\* Each sector is a safe register: requests on other sectors never disturb it,
\* and of requests on the same one only those that overlap do.  A file system
\* needs no more of a disk.
RefinesSectors == Sectors!Spec
=============================================================================
