---------------------------- MODULE FlashLayout ----------------------------
(***************************************************************************)
(* Where things lie in a NOR flash whose sectors all have one size:        *)
(* flash_init_info of shared/opensource/flash/flash_common.c, and the room *)
(* for one and for two images of flashFsKernelImage (board_image.c).       *)
(*                                                                         *)
(*   | boot rom, nvram | image 1 | image 2 | aux fs | syslog | backup PSI  *)
(*   | scratch pad | PSI |                                                 *)
(*                                                                         *)
(* A geometry g is a record: the size of a sector, the number of sectors,  *)
(* where the first image starts (flash_rootfs_start_offset, a whole number *)
(* of sectors), and the sizes the board's nvram asks for: PSI, whether     *)
(* there is a backup PSI, the syslog and the auxiliary file system (the    *)
(* last two 0 when there is none). Sizes are in any unit common to all.    *)
(***************************************************************************)
EXTENDS Integers

CONSTANTS
  SpMaxLen,      \* SP_MAX_LEN
  TagLen,        \* TAG_LEN: the tag in front of an image
  Word           \* where an unsigned int wraps around: 2^32 bytes

ASSUME FlashLayoutAssumption ==
  /\ SpMaxLen \in Nat \ {0}
  /\ TagLen \in Nat \ {0}
  /\ Word \in Nat \ {0}

Geometry ==
  [sect : Nat \ {0}, nsect : Nat, rootfs : Nat, psi : Nat \ {0},
   backup : BOOLEAN, syslog : Nat, aux : Nat]

Total(g) == g.nsect * g.sect

\* flash_get_blk: the sector an offset lies in.
BlkOf(addr, g) == addr \div g.sect

\* How many sectors the while loops count off for n bytes.
BlksFor(n, g) == (n + g.sect - 1) \div g.sect

-----------------------------------------------------------------------------
(* The primary PSI ends with the flash.                                    *)

PsiStartAddr(g) == Total(g) - g.psi
PsiStartBlk(g)  == BlkOf(PsiStartAddr(g), g)
PsiNumBlk(g)    == g.nsect - PsiStartBlk(g)
PsiBlkOffset(g) == PsiNumBlk(g) * g.sect - g.psi

\* The scratch pad comes before it: in the PSI's first sector when there is
\* room for it at the top of that sector, else in sectors of its own.
SpStartAddr(g) ==
  IF PsiBlkOffset(g) > 0 /\ PsiBlkOffset(g) < SpMaxLen
  THEN PsiStartAddr(g) - PsiBlkOffset(g) - SpMaxLen
  ELSE PsiStartAddr(g) - SpMaxLen

SpStartBlk(g) == BlkOf(SpStartAddr(g), g)

\* The scratch pad and the PSI have a sector in common.
SpShared(g) == SpStartBlk(g) = PsiStartBlk(g)

\* Slip: one sector, however small.
SpNumBlkOne(g) == 1

SpNumBlk(g) == IF SpShared(g) THEN 1 ELSE PsiStartBlk(g) - SpStartBlk(g)

SpBlkOffset(g) ==
  IF SpShared(g) THEN PsiBlkOffset(g) - SpMaxLen
  ELSE SpNumBlk(g) * g.sect - SpMaxLen

-----------------------------------------------------------------------------
(* The optional backup PSI and syslog take whole sectors before these.     *)

BackupNumBlk(g)   == IF g.backup THEN BlksFor(g.psi, g) ELSE 0
BackupStartBlk(g) == SpStartBlk(g) - BackupNumBlk(g)

SyslogNumBlk(g)   == BlksFor(g.syslog, g)
SyslogStartBlk(g) == BackupStartBlk(g) - SyslogNumBlk(g)

\* flash_meta_start_blk, and flash_get_reserved_bytes_at_end.
MetaStartBlk(g) == SyslogStartBlk(g)
Reserved(g)     == (g.nsect - MetaStartBlk(g)) * g.sect

\* The auxiliary file system (fAuxFsInfo): one sector less when that leaves an
\* even number of sectors for the images.
AuxStartBlk(g) ==
  LET b == BlkOf(Total(g) - g.aux - Reserved(g), g)
  IN  IF b + 1 < MetaStartBlk(g) /\ (b + 1 - BlkOf(g.rootfs, g)) % 2 = 0 THEN b + 1 ELSE b

AuxLen(g) == IF g.aux = 0 THEN 0 ELSE (MetaStartBlk(g) - AuxStartBlk(g)) * g.sect

-----------------------------------------------------------------------------
(* Images. Image 1 starts at rootfs, image 2 at the sector boundary after  *)
(* the middle of what the auxiliary file system leaves.                    *)

Half(g) == (Total(g) - AuxLen(g)) \div 2

Image1Start(g) == g.rootfs
Image2Start(g) == IF Half(g) % g.sect = 0 THEN Half(g) ELSE (BlkOf(Half(g), g) + 1) * g.sect

\* The rooms are unsigned: what would be less than nothing is a huge room.
AvailableSizeOneImg(g) == (Total(g) - (g.rootfs + TagLen) - Reserved(g) - AuxLen(g)) % Word

ReserveForTwoImages(g) == IF g.rootfs > Reserved(g) THEN g.rootfs ELSE Reserved(g)

AvailableSizeTwoImgs(g) == (Half(g) - ReserveForTwoImages(g) - g.sect) % Word

\* The largest image of two that is let in.
LargestOfTwo(g) ==
  IF AvailableSizeOneImg(g) < AvailableSizeTwoImgs(g)
  THEN AvailableSizeOneImg(g) ELSE AvailableSizeTwoImgs(g)

-----------------------------------------------------------------------------
(* Properties.                                                             *)

\* Sectors have an even size and room for two tags (they have 4 or 64 KB, a
\* tag 256 bytes), and the flash is large enough for what the nvram asks for,
\* and far smaller than an unsigned int can tell.
Fits(g) ==
  /\ g.sect % 2 = 0 /\ 2 * TagLen <= g.sect
  /\ g.rootfs % g.sect = 0
  /\ SpStartAddr(g) >= 0 /\ 4 * Total(g) <= Word
  /\ BlkOf(g.rootfs, g) <= MetaStartBlk(g)
  /\ g.aux > 0 => g.rootfs + g.aux + Reserved(g) <= Total(g)

SpFrom(g) == SpStartBlk(g) * g.sect + SpBlkOffset(g)

\* flash_init_info places the areas one after the other: every offset lies
\* in its area's sectors, the scratch pad ends where or before the PSI begins,
\* even in a sector they share, and no other two areas have a sector in common.
AreasDisjoint(g) ==
  /\ PsiStartBlk(g) * g.sect + PsiBlkOffset(g) = PsiStartAddr(g)
  /\ PsiBlkOffset(g) \in 0 .. g.sect-1
  /\ SpNumBlk(g) >= 1 /\ SpBlkOffset(g) \in 0 .. g.sect-1
  /\ SpFrom(g) + SpMaxLen <= PsiStartAddr(g)
  /\ ~SpShared(g) => SpFrom(g) + SpMaxLen <= PsiStartBlk(g) * g.sect
  /\ BackupStartBlk(g) + BackupNumBlk(g) <= SpStartBlk(g)
  /\ SyslogStartBlk(g) + SyslogNumBlk(g) <= BackupStartBlk(g)
  /\ g.backup => BackupNumBlk(g) * g.sect >= g.psi
  /\ SyslogNumBlk(g) * g.sect >= g.syslog
  /\ g.aux > 0 => BlkOf(g.rootfs, g) <= AuxStartBlk(g) /\ AuxStartBlk(g) < MetaStartBlk(g)

\* A half of the flash has room for the areas before the first image, or for those
\* at the end, and a sector more.
RoomForTwo(g) == ReserveForTwoImages(g) + g.sect <= Half(g)

\* Images of that size, each with its tag in front: the first ends before the
\* second begins, and the second before the areas at the end of the flash.
TwoApart(g, size) ==
  /\ Image1Start(g) + TagLen + size <= Image2Start(g)
  /\ Image2Start(g) + TagLen + size <= Total(g) - Reserved(g) - AuxLen(g)

\* The images that flashFsKernelImage lets in for two partitions lie apart on a
\* flash with RoomForTwo, and on no other: there the room for two wraps around, and
\* keeps out nothing that has room alone.
ImagesDisjoint(g) == TwoApart(g, LargestOfTwo(g)) <=> RoomForTwo(g)
=============================================================================
