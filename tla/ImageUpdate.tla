----------------------------- MODULE ImageUpdate ----------------------------
(***************************************************************************)
(* Updating the software of a board with a NOR flash (board_image.c): an   *)
(* image is flashed into one of two partitions, its tag in front with a    *)
(* sequence number that orders the images; the boot image state says which *)
(* of the two the boot loader shall start.                                 *)
(*                                                                         *)
(* All of it is asked for by ioctl, so one call at a time (ioctlMutex);    *)
(* what comes between are power cuts and failed writes. The first sector   *)
(* of an image, with the tag, is written first, the rest after it.         *)
(*                                                                         *)
(* The boot loader is external: it takes the image that the state selects, *)
(* or else the other one, if it is complete.                               *)
(*                                                                         *)
(* The rooms for images are those of a flash that has room for two, see    *)
(* RoomForTwo of module FlashLayout; on others they wrap around.           *)
(***************************************************************************)
EXTENDS Integers

CONSTANTS
  Sizes,         \* sizes of images
  AvailableOne,  \* availableSizeOneImg
  AvailableTwo,  \* availableSizeTwoImgs
  FirstHalf,     \* from the first partition's start to the second's
  MaxSeq,        \* bound: sequence numbers
  MaxFaults      \* bound: cuts in the middle of a call, failed writes

ASSUME ImageUpdateAssumption ==
  /\ Sizes \subseteq Nat \ {0}
  /\ \A n \in {AvailableOne, AvailableTwo, FirstHalf, MaxSeq, MaxFaults} : n \in Nat
  /\ AvailableTwo <= FirstHalf /\ AvailableTwo <= AvailableOne
  /\ \E s \in Sizes : s <= AvailableTwo
  /\ MaxSeq >= 1

Partitions == {1, 2}
Other(k) == 3 - k
NoTag == -1

\* An image: its sequence number (NoTag when the tag's checksum is wrong), its
\* size, and whether all of it is there.
Image == [seq : {NoTag} \cup 1 .. MaxSeq, size : Sizes, whole : BOOLEAN]

VARIABLES
  part,      \* what is in each partition
  state,     \* the boot image state in the flash
  running,   \* the partition the board was booted from, 0 if neither boots
  imgid,     \* what the boot loader says it booted: new, old or only image
  bootedPartition,   \* s_bootedPartition, 0 before it is asked for
  call,      \* the call under way
  moved,     \* ghost: tags have been written since the boot
  risk,      \* ghost: something was asked for that puts the only image at risk
  asked,     \* ghost: the partition whose start was asked for last, and granted
  unranked,  \* ghost: the sequence number for that was not written
  faults     \* ghost: those so far

granted == <<asked, unranked>>
vars == <<part, state, running, imgid, bootedPartition, call, moved, risk, asked, unranked,
          faults>>
booted == <<running, imgid, bootedPartition>>

\* A call: for an image, the partition it is written to, and whether the board
\* goes on afterwards.
Idle == [at |-> "idle", part |-> 0, noReboot |-> FALSE]

-----------------------------------------------------------------------------
(* Tags.                                                                   *)

Valid(k) == part[k].seq # NoTag
Bootable(k) == Valid(k) /\ part[k].whole

Seq(k) == part[k].seq
Highest == IF Seq(2) > Seq(1) THEN 2 ELSE 1
Lowest  == IF Seq(2) < Seq(1) THEN 2 ELSE 1

\* getBootImageTag and getPartitionFromTag: the partition the kernel takes to
\* be the current one, 0 without any.
CurPartition ==
  IF Valid(1) /\ Valid(2) THEN IF imgid = "old" THEN Lowest ELSE Highest
  ELSE IF Valid(2) THEN 2 ELSE IF Valid(1) THEN 1 ELSE 0

CurSize == IF CurPartition = 0 THEN 0 ELSE part[CurPartition].size

\* Slip: the second partition's number is not looked at.
NextSeqFirst == IF Valid(1) THEN Seq(1) + 1 ELSE 1

\* UpdateImageSequenceNumber.
NextSeq == IF Valid(1) \/ Valid(2) THEN Seq(Highest) + 1 ELSE 1

-----------------------------------------------------------------------------
(* The boot loader (external).                                             *)

\* The image that a boot state selects.
Selected == IF ~Valid(1) THEN 2 ELSE IF ~Valid(2) THEN 1
            ELSE IF state = "old" THEN Lowest ELSE Highest

Boots == IF Bootable(Selected) THEN Selected
         ELSE IF Bootable(Other(Selected)) THEN Other(Selected) ELSE 0

FactorySize == CHOOSE s \in Sizes : s <= AvailableTwo
Factory == [k \in Partitions |->
             [seq |-> IF k = 1 THEN 1 ELSE NoTag, size |-> FactorySize, whole |-> k = 1]]

Init ==
  /\ part = Factory
  /\ state = "new" /\ running = 1 /\ imgid = "only" /\ bootedPartition = 0
  /\ call = Idle
  /\ moved = FALSE /\ risk = FALSE /\ asked = 0 /\ unranked = FALSE /\ faults = 0

\* The board is restarted while no call is under way, at the end of one, after a
\* cut, or when a call has died of the missing tag (UpdateSeq).
Restart ==
  /\ running # 0
  /\ call.at \in {"idle", "reboot"} \/ call.part = 0
  /\ running' = Boots
  /\ imgid' = IF Boots = 0 THEN imgid ELSE IF ~Valid(Other(Boots)) THEN "only"
              ELSE IF Boots = Highest THEN "new" ELSE "old"
  /\ state' = IF state = "new_once" /\ Boots # 0 THEN "old" ELSE state
  /\ bootedPartition' = 0 /\ call' = Idle
  /\ moved' = FALSE /\ risk' = (Boots = 0) /\ asked' = 0 /\ unranked' = FALSE
  /\ UNCHANGED <<part, faults>>

\* The boot loader's own update, for a board that does not boot.
Recover ==
  /\ running = 0
  /\ part' = Factory
  /\ running' = 1 /\ imgid' = "only" /\ risk' = FALSE
  /\ UNCHANGED <<state, bootedPartition, call, moved, granted, faults>>

-----------------------------------------------------------------------------
(* Flashing an image: flashFsKernelImage and board_ioctl.                  *)

\* Slip: the second partition is the default.
FlashPartitionTwo(request) == IF request = 0 THEN 2 ELSE request

\* flashPartition: 0 asks for the partition that is not the current one.
FlashPartition(request) ==
  IF request = 0 THEN IF CurPartition = 2 THEN 1 ELSE 2 ELSE request

TwoFit(size) == CurSize <= AvailableTwo /\ size <= AvailableTwo

\* The partition that is written: the second only if two images have room.
Target(request, size) ==
  LET fp == FlashPartition(request) IN
  IF TwoFit(size) /\ ((CurPartition = 1 /\ fp # 1) \/ fp = 2) THEN 2 ELSE 1

NumPartitions(request, size) ==
  IF TwoFit(size) /\ FlashPartition(request) # CurPartition THEN 2 ELSE 1

\* An image of the first partition that goes on into the second.
Reaches(size) == size > FirstHalf

\* The image that the update is to leave alone: the one that is taken for the
\* current one, or the one that was not named.
Left(request) == IF request = 0 THEN CurPartition ELSE Other(request)

\* Ghost: tags have been written since the boot, and that image is not whole (or
\* not there). So it is when an update has failed half way, or when the image that
\* runs, because a newer one does not boot, has got the highest number: the other,
\* which is no good, is then the current one, and the one that runs is written.
Misled(request) == moved /\ ~\E k \in Partitions : k = Left(request) /\ Bootable(k)

\* The first sector, with the tag, is erased and written. The sequence number is
\* one more than any. In the second partition the new image overwrites the end
\* of a first one that goes on so far.
Flash(request, size, noReboot) ==
  LET t == Target(request, size) IN
  /\ call = Idle /\ running # 0 /\ NextSeq <= MaxSeq
  /\ size <= AvailableOne
  /\ part' = [k \in Partitions |->
                IF k = t THEN [seq |-> NextSeq, size |-> size, whole |-> FALSE]
                ELSE [part[k] EXCEPT !.whole = @ /\ ~(k = 1 /\ Reaches(part[k].size))]]
  /\ call' = [at |-> "write", part |-> t,
              noReboot |-> noReboot /\ NumPartitions(request, size) = 2]
  /\ moved' = TRUE /\ asked' = 0 /\ unranked' = FALSE
  /\ risk' = (risk \/ ~TwoFit(size) \/ request = running \/ Misled(request))
  /\ UNCHANGED <<state, booted, faults>>

\* An image of the first partition runs over the second's tag.
Overruns == call.at = "write" /\ call.part = 1 /\ Reaches(part[1].size) /\ Valid(2)

Overrun ==
  /\ Overruns
  /\ part' = [part EXCEPT ![2].seq = NoTag, ![2].whole = FALSE]
  /\ UNCHANGED <<state, booted, call, moved, risk, granted, faults>>

\* All is written; board_ioctl restarts the board, unless another partition than
\* the current one was written and the user wants no restart.
Written ==
  /\ call.at = "write" /\ ~Overruns
  /\ part' = [part EXCEPT ![call.part].whole = TRUE]
  /\ call' = IF call.noReboot THEN Idle ELSE [Idle EXCEPT !.at = "reboot"]
  /\ risk' = FALSE
  /\ UNCHANGED <<state, booted, moved, granted, faults>>

\* The tag that call.part is to get is written, or its sector is only erased.
TagTorn == part' = [part EXCEPT ![call.part].seq = NoTag, ![call.part].whole = FALSE]

\* kerSysBcmImageSet fails: the call returns an error, there is no restart.
WriteFails ==
  /\ call.at = "write" /\ faults < MaxFaults
  /\ UNCHANGED part \/ TagTorn
  /\ call' = Idle
  /\ faults' = faults + 1
  /\ UNCHANGED <<state, booted, moved, risk, granted>>

-----------------------------------------------------------------------------
(* The boot image state.                                                   *)

Requests == {"part1", "part2", "part1_once", "part2_once", "old", "new", "new_once"}
PartOf(req) == CASE req \in {"part1", "part1_once"} -> 1
                 [] req \in {"part2", "part2_once"} -> 2
                 [] OTHER -> 0
StateOf(req) == CASE req \in {"part1", "part2"} -> "new"
                  [] req \in {"part1_once", "part2_once"} -> "new_once"
                  [] OTHER -> req

\* A partition is asked for that has no image, or a state that is set already.
\* curr is the state that was read.
NothingToDo(req, curr) ==
  IF PartOf(req) # 0 THEN ~Valid(PartOf(req)) ELSE curr = req

\* Slip: a partition is not made the newest for one start only.
IncSeqNumUnlessOnce(req, curr) ==
  \/ req \in {"part1", "part2"} /\ Seq(PartOf(req)) < Seq(Other(PartOf(req)))
  \/ req = "new" /\ curr = "old"

\* The partition's image, or the one that was started as the old one, is to get
\* the highest sequence number.
IncSeqNum(req, curr) ==
  \/ PartOf(req) # 0 /\ Seq(PartOf(req)) < Seq(Other(PartOf(req)))
  \/ req = "new" /\ curr = "old"

IncSeqNumPart(req) == IF req = "new" THEN CurPartition ELSE PartOf(req)

\* readBootImageState finds none also when there is no memory for it.
ReadBootImageState(curr) == curr = state \/ (curr = "none" /\ faults < MaxFaults)

\* What kerSysSetBootImageState leaves to be done after the state, whatever came
\* of that: the sequence number.
ThenSeq(req, curr) ==
  IF IncSeqNum(req, curr)
  THEN [Idle EXCEPT !.at = "seq", !.part = IncSeqNumPart(req)] ELSE Idle

\* kerSysSetBootImageState: the state is written, only over a valid one; the
\* caller is told the result of that alone.
SetBootImageState(req, curr) ==
  /\ call = Idle /\ running # 0
  /\ ReadBootImageState(curr) /\ ~NothingToDo(req, curr) /\ NextSeq <= MaxSeq
  /\ state' = IF state = "none" THEN "none" ELSE StateOf(req)
  /\ call' = ThenSeq(req, curr)
  /\ asked' = IF state = "none" THEN 0
              ELSE IF IncSeqNum(req, curr) THEN IncSeqNumPart(req) ELSE PartOf(req)
  /\ unranked' = FALSE
  /\ faults' = IF curr = state THEN faults ELSE faults + 1
  /\ UNCHANGED <<part, booted, moved, risk>>

\* writeBootImageState fails, for want of memory or in the flash: the first sector
\* is as it was, erased, or written before another one failed. The caller gets an
\* error; the sequence number follows nevertheless.
SetBootImageStateFails(req) ==
  /\ call = Idle /\ running # 0 /\ faults < MaxFaults
  /\ ~NothingToDo(req, state) /\ NextSeq <= MaxSeq
  /\ state' \in IF state = "none" THEN {"none"} ELSE {state, "none", StateOf(req)}
  /\ call' = ThenSeq(req, state)
  /\ asked' = 0 /\ unranked' = FALSE
  /\ faults' = faults + 1
  /\ UNCHANGED <<part, booted, moved, risk>>

\* updateSequenceNumber: the sector with the tag is erased and written. Without
\* any tag there is no pointer to it, and the call never ends.
UpdateSeq ==
  /\ call.at = "seq" /\ call.part # 0
  /\ part' = [part EXCEPT ![call.part].seq = NextSeq]
  /\ call' = Idle
  /\ moved' = TRUE
  /\ UNCHANGED <<state, booted, risk, granted, faults>>

\* The tag's sector is torn; ghost: it may be that of the only whole image.
SeqTorn ==
  /\ TagTorn /\ moved' = TRUE
  /\ risk' = (risk \/ ~Bootable(Other(call.part)))

\* There is no memory for the sector, or its write fails. Nobody looks at that: a
\* request that was granted stays so.
UpdateSeqFails ==
  /\ call.at = "seq" /\ call.part # 0 /\ faults < MaxFaults
  /\ UNCHANGED <<part, moved, risk>> \/ SeqTorn
  /\ call' = Idle
  /\ unranked' = TRUE
  /\ faults' = faults + 1
  /\ UNCHANGED <<state, booted, asked>>

\* The scratch pad is cleared and the boot image state with it.
ScratchPadClearAll ==
  /\ call = Idle /\ running # 0
  /\ state' = "none" /\ asked' = 0 /\ unranked' = FALSE
  /\ UNCHANGED <<part, booted, call, moved, risk, faults>>

\* kerSysGetBootImageState: the partition that the next start is said to take.
GetBootImageState ==
  CASE state \in {"new", "new_once"} -> IF ~Valid(1) \/ Seq(1) < Seq(2) THEN 2 ELSE 1
    [] state = "old" -> IF ~Valid(1) \/ Seq(1) > Seq(2) THEN 2 ELSE 1
    [] OTHER -> 0

\* Slip: the old image is taken for the new one.
BootedPartitionNew == IF imgid = "only" THEN IF Valid(1) THEN 1 ELSE 2
                      ELSE IF ~Valid(1) \/ Seq(2) > Seq(1) THEN 2 ELSE 1

\* Slip: a board is expected to have two images.
BootedPartitionOfTwo == CASE imgid = "new" -> IF Seq(2) > Seq(1) THEN 2 ELSE 1
                          [] imgid = "old" -> IF Seq(2) < Seq(1) THEN 2 ELSE 1
                          [] OTHER -> -1

BootedPartition ==
  CASE imgid = "new"  -> IF ~Valid(1) \/ Seq(2) > Seq(1) THEN 2 ELSE 1
    [] imgid = "old"  -> IF ~Valid(1) \/ Seq(2) < Seq(1) THEN 2 ELSE 1
    [] imgid = "only" -> IF Valid(1) THEN 1 ELSE 2

\* getBootedValue asks for the tags at the first call, and remembers the result.
GetBootedValue ==
  /\ call = Idle /\ running # 0 /\ bootedPartition = 0
  /\ bootedPartition' = BootedPartition
  /\ UNCHANGED <<part, state, running, imgid, call, moved, risk, granted, faults>>

\* The power goes in the middle of a call.
PowerCut ==
  /\ call.at \in {"write", "seq"} /\ call.part # 0 /\ faults < MaxFaults
  /\ \/ UNCHANGED <<part, moved, risk>>
     \/ call.at = "write" /\ TagTorn /\ UNCHANGED <<moved, risk>>
     \/ call.at = "seq" /\ SeqTorn
  /\ call' = [Idle EXCEPT !.at = "reboot"]
  /\ asked' = 0 /\ unranked' = FALSE /\ faults' = faults + 1
  /\ UNCHANGED <<state, booted>>

-----------------------------------------------------------------------------
Next ==
  \/ Restart \/ Recover
  \/ \E request \in {0} \cup Partitions, size \in Sizes, noReboot \in BOOLEAN :
       Flash(request, size, noReboot)
  \/ Overrun \/ Written \/ WriteFails
  \/ \E req \in Requests, curr \in {state, "none"} : SetBootImageState(req, curr)
  \/ \E req \in Requests : SetBootImageStateFails(req)
  \/ UpdateSeq \/ UpdateSeqFails \/ ScratchPadClearAll \/ GetBootedValue
  \/ PowerCut

Spec == Init /\ [][Next]_vars

-----------------------------------------------------------------------------
(* Properties.                                                             *)

ImageTypeOK ==
  /\ part \in [Partitions -> Image]
  /\ state \in {"new", "old", "new_once", "none"}
  /\ imgid \in {"new", "old", "only"}
  /\ {running, bootedPartition, asked} \subseteq 0 .. 2
  /\ call \in [at : {"idle", "write", "seq", "reboot"}, part : 0 .. 2, noReboot : BOOLEAN]
  /\ moved \in BOOLEAN /\ risk \in BOOLEAN /\ unranked \in BOOLEAN /\ faults \in 0 .. MaxFaults

\* Two images never have the same sequence number: which is newer is never open
\* (UpdateImageSequenceNumber over the tags that are there).
SeqDistinct == Valid(1) /\ Valid(2) => Seq(1) # Seq(2)

\* The board has an image to boot at every moment, the power may go and a write
\* fail at any of them (flashFsKernelImage, kerSysSetBootImageState). Exceptions: an
\* update with no room for two images, one that asks for the partition that runs,
\* and one that is Misled, which is never the first thing done after a boot; and a
\* tag torn by kerSysSetBootImageState in the only whole image.
BootableAlways == risk \/ \E k \in Partitions : Bootable(k)

\* After kerSysSetBootImageState has granted a partition, kerSysGetBootImageState
\* says which one the boot loader will select, and it is the one that was granted
\* unless its sequence number could not be written, which the code does not report.
RequestHonoured ==
  call = Idle /\ asked # 0 => GetBootImageState = Selected /\ (unranked \/ Selected = asked)

\* Before tags are written, getBootedValue tells the partition that was booted,
\* also after one image has failed to boot and with one image only.
BootedRight ==
  [][bootedPartition' \notin {bootedPartition, 0} /\ ~moved => bootedPartition' = running]_vars
=============================================================================
