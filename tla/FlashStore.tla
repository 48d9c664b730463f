----------------------------- MODULE FlashStore -----------------------------
(***************************************************************************)
(* The stores of board data in a NOR flash: the configuration (PSI) and    *)
(* its backup, the scratch pad with its tokens, the boot image state, and  *)
(* the nvram (bcm63xx_flash.c, board_image.c, board_ioctl.c).              *)
(*                                                                         *)
(* A store is a part of one or more sectors. A call reads the sectors into *)
(* a buffer, changes its part, and erases and writes them one after the    *)
(* other; each of the two goes on under semflash, and what lies between is *)
(* for the callers' locks. Users come by the ioctl, one at a time; kernel  *)
(* threads (buttons, proc files, drivers) call the same functions.         *)
(*                                                                         *)
(* The scratch pad's tokens are small enough to lie in its first sector.   *)
(* A token counts one, its head nothing, towards the scratch pad's room.   *)
(***************************************************************************)
EXTENDS FlashLayout, FiniteSets

CONSTANTS
  Boards,        \* the boards: a geometry and the operations in use
  Users, Kernel, \* processes that come by the ioctl, threads that do not
  Tokens,        \* names of tokens in the scratch pad
  SpRoom,        \* the tokens there is room for
  Val,           \* what can be stored
  None,          \* nobody; no token, no valid boot state
  Torn,          \* what a sector holds after a cut in the middle
  MaxFaults      \* bound: power cuts, failed writes and allocations

ASSUME FlashStoreAssumption ==
  /\ \A o \in Boards : LET g == o.geom IN
       g \in Geometry /\ Fits(g) /\ g.backup /\ BlkOf(g.rootfs, g) > 0
  /\ Users \cap Kernel = {}
  /\ {None, Torn} \cap (Val \cup Users \cup Kernel) = {} /\ None # Torn
  /\ Tokens \cap {"boot", "psi", "backup", "nvram"} = {}
  /\ MaxFaults \in Nat \ {0}

VARIABLES
  geom,             \* fInfo, set up once
  uses,             \* the operations in use
  flash,            \* what each sector holds of each store
  inMemNvramData,   \* the copy of the nvram in memory
  ioctlMutex, spMutex, flashImageMutex, semflash,   \* who holds each
  call,             \* the call each process is in
  faults            \* ghost: those so far, and restarts in the middle of a call

vars == <<geom, uses, flash, inMemNvramData, ioctlMutex, spMutex, flashImageMutex, semflash,
          call, faults>>
locks == <<ioctlMutex, spMutex, flashImageMutex, semflash>>

Procs == Users \cup Kernel

-----------------------------------------------------------------------------
(* Stores and where they lie.                                              *)

SpItems == Tokens \cup {"boot"}
Items   == SpItems \cup {"psi", "backup", "nvram"}

PsiBlks    == PsiStartBlk(geom) .. PsiStartBlk(geom) + PsiNumBlk(geom) - 1
SpBlks     == SpStartBlk(geom) .. SpStartBlk(geom) + SpNumBlk(geom) - 1
BackupBlks == BackupStartBlk(geom) .. BackupStartBlk(geom) + BackupNumBlk(geom) - 1
NvramBlks  == {0}     \* NVRAM_SECTOR, with the boot loader in it

ItemBlks(i) == CASE i = "psi" -> PsiBlks
                 [] i = "backup" -> BackupBlks
                 [] i \in SpItems -> {SpStartBlk(geom)}
                 [] i = "nvram" -> NvramBlks

ItemsAt(b) == {i \in Items : b \in ItemBlks(i)}

\* The boot image state is written near the start of the scratch pad's first
\* sector; that is in the scratch pad's header only where the scratch pad
\* begins with the sector.
BootInHeader == SpBlkOffset(geom) = 0

\* The nvram is one record under one checksum.
NvramFields == {"wlan", "optic"}
NvramData   == [wlan : Val \cup {None}, optic : Val \cup {None}, good : BOOLEAN]
BadNvram    == [wlan |-> None, optic |-> None, good |-> FALSE]

\* Operations. "default" is the button that restores the defaults.
Psi      == {"psi", "default"}
SpOps    == {"token", "delete", "clear", "boot"}
NvramOps == {"wlan", "proc", "optic", "cfe"}
UserOps   == {"psi", "backup", "wlan", "cfe"} \cup SpOps
KernelOps == {"default", "token", "proc", "optic"}

ASSUME UsesAssumption == \A o \in Boards : o.uses \subseteq UserOps \cup KernelOps

OpBlks(op) == CASE op \in Psi -> PsiBlks
                [] op = "backup" -> BackupBlks
                [] op \in SpOps -> SpBlks
                [] op \in NvramOps -> NvramBlks

-----------------------------------------------------------------------------
(* Starting a call.                                                        *)

\* A call: where it is, its operation and argument, the nvram it is to store,
\* its buffer, and the sectors still to be written.
Idle == [at |-> "idle", op |-> None, item |-> None, val |-> None,
         nv |-> None, buf |-> None, todo |-> {}]

Init ==
  /\ \E o \in Boards : geom = o.geom /\ uses = o.uses
  /\ \E v \in Val :
       /\ inMemNvramData = [wlan |-> v, optic |-> v, good |-> TRUE]
       /\ flash = [b \in 0 .. geom.nsect-1 |->
                     [i \in ItemsAt(b) |-> CASE i \in Tokens -> None
                                             [] i = "nvram" -> inMemNvramData
                                             [] OTHER -> v]]
  /\ ioctlMutex = None /\ spMutex = None /\ flashImageMutex = None /\ semflash = None
  /\ call = [p \in Procs |-> Idle]
  /\ faults = 0

Goto(p, c) == call' = [call EXCEPT ![p] = c]

\* board_unlocked_ioctl: one user at a time.
Ioctl(p) == IF p \in Users THEN ioctlMutex = None /\ ioctlMutex' = p ELSE UNCHANGED ioctlMutex

\* kerSysPersistentSet and kerSysBackupPsiSet take no lock of their own, the
\* others one for the scratch pad or for the nvram.
FirstAt(op) == IF op \in SpOps THEN "spMutex"
               ELSE IF op \in NvramOps THEN "flashImageMutex" ELSE "get"

ItemOf(op) == CASE op \in Psi -> "psi"
                [] op = "proc" -> "wlan"
                [] op = "clear" -> "boot"
                [] OTHER -> op

\* __proc_set_param and kerSysSetOpticalPowerValues change a copy they take
\* before they have flashImageMutex; only the first looks at the checksum.
Copied == {"proc", "optic"}

Start(p) ==
  /\ call[p] = Idle
  /\ \E op \in uses \cap (IF p \in Users THEN UserOps ELSE KernelOps), v \in Val :
       /\ op = "proc" => inMemNvramData.good
       /\ \E i \in (IF op \in {"token", "delete"} THEN Tokens ELSE {ItemOf(op)}) :
            Goto(p, [at |-> FirstAt(op), op |-> op, item |-> i, val |-> v,
                     nv |-> IF op \in Copied
                            THEN [inMemNvramData EXCEPT ![i] = v, !.good = TRUE] ELSE None,
                     buf |-> None, todo |-> {}])
  /\ Ioctl(p)
  /\ UNCHANGED <<geom, uses, flash, inMemNvramData, spMutex, flashImageMutex, semflash, faults>>

\* Slip: the mutex is not waited for.
LockSpAlways(p) ==
  /\ call[p].at = "spMutex"
  /\ spMutex' = p
  /\ Goto(p, [call[p] EXCEPT !.at = "get"])
  /\ UNCHANGED <<geom, uses, flash, inMemNvramData, ioctlMutex, flashImageMutex, semflash, faults>>

LockSp(p) ==
  /\ call[p].at = "spMutex" /\ spMutex = None
  /\ spMutex' = p
  /\ Goto(p, [call[p] EXCEPT !.at = "get"])
  /\ UNCHANGED <<geom, uses, flash, inMemNvramData, ioctlMutex, flashImageMutex, semflash, faults>>

\* The end of a call gives back what it holds.
Unlocked(lock, p) == IF lock = p THEN None ELSE lock

Return(p) ==
  /\ Goto(p, Idle)
  /\ ioctlMutex' = Unlocked(ioctlMutex, p)
  /\ spMutex' = Unlocked(spMutex, p)
  /\ flashImageMutex' = Unlocked(flashImageMutex, p)

\* setUserNvRam and commonImageWrite read the nvram under the lock, and give up
\* when its checksum is wrong. commonImageWrite keeps what it read for the end.
LockNvram(p) ==
  LET c == call[p] IN
  /\ c.at = "flashImageMutex" /\ flashImageMutex = None
  /\ IF c.op \notin Copied /\ ~inMemNvramData.good
     THEN Return(p)
     ELSE /\ flashImageMutex' = p
          /\ Goto(p, CASE c.op \in Copied -> [c EXCEPT !.at = "get"]
                       [] c.op = "wlan" ->
                            [c EXCEPT !.at = "get", !.nv = [inMemNvramData EXCEPT !.wlan = c.val]]
                       [] c.op = "cfe" ->
                            [c EXCEPT !.at = "set", !.nv = inMemNvramData, !.todo = NvramBlks,
                               !.buf = [b \in NvramBlks |-> [i \in ItemsAt(b) |-> BadNvram]]])
          /\ UNCHANGED <<ioctlMutex, spMutex>>
  /\ UNCHANGED <<geom, uses, flash, inMemNvramData, semflash, faults>>

-----------------------------------------------------------------------------
(* Reading the sectors and changing the caller's part.                     *)

SpBlk == SpStartBlk(geom)
SetTokens == {t \in Tokens : flash[SpBlk][t] # None}

\* kerSysScratchPadSet: what is in use counts, though the token is to be replaced.
NoRoom(c) == c.op = "token" /\ SetTokens # {} /\ Cardinality(SetTokens) + 1 > SpRoom

\* writeBootImageState wants a valid word to be there.
NoBootState(c) == c.op = "boot" /\ flash[SpBlk]["boot"] = None

\* kerSysScratchPadSet overwrites a token with one of the same length in place;
\* in all other cases it writes the header anew, which has no boot state.
InPlace(c) == c.op = "token" /\ flash[SpBlk][c.item] # None

\* kerSysScratchPadClearAll clears the scratch pad, or all its sectors.
ClearsBoot == BootInHeader \/ SpNumBlk(geom) > 1

\* Item i of sector b as call c makes it in its buffer.
Changed(c, b, i, inPlace) ==
  CASE i \in Tokens /\ c.op = "clear" -> None
    [] i \in Tokens /\ c.op = "delete" /\ i = c.item -> None
    [] i = "boot" /\ c.op = "clear" /\ ClearsBoot -> None
    [] i = "boot" /\ c.op \in {"token", "delete"} /\ BootInHeader /\ ~inPlace -> None
    [] i = "nvram" -> c.nv
    [] i = c.item /\ c.op \notin {"clear", "delete"} -> c.val
    [] OTHER -> flash[b][i]

\* Slip: the buffer has only the caller's part.
BufferUnread(c, inPlace) ==
  [b \in OpBlks(c.op) |-> [i \in ItemsAt(b) \cap {c.item} |-> c.val]]

Buffer(c, inPlace) ==
  [b \in OpBlks(c.op) |-> [i \in ItemsAt(b) |-> Changed(c, b, i, inPlace)]]

\* getSharedBlks and what its caller does with the buffer.
Get(p) ==
  LET c == call[p] IN
  /\ c.at = "get"
  /\ c.op # "backup" => semflash = None
  /\ IF NoRoom(c) \/ NoBootState(c)
     THEN Return(p)
     ELSE /\ \E inPlace \in {FALSE, InPlace(c)} :
               Goto(p, [c EXCEPT !.at = "set", !.buf = Buffer(c, inPlace), !.todo = OpBlks(c.op),
                          !.val = None, !.nv = None])
          /\ UNCHANGED <<ioctlMutex, spMutex, flashImageMutex>>
  /\ UNCHANGED <<geom, uses, flash, inMemNvramData, semflash, faults>>

\* No memory for the buffer.
NoMemory(p) ==
  /\ call[p].at = "get" /\ faults < MaxFaults
  /\ faults' = faults + 1
  /\ Return(p)
  /\ UNCHANGED <<geom, uses, flash, inMemNvramData, semflash>>

-----------------------------------------------------------------------------
(* Writing them back.                                                      *)

LowestOf(S) == CHOOSE b \in S : \A o \in S : b <= o

\* Slip: the copy in memory is not updated.
WrittenOnly(p) == semflash' = None /\ Return(p)

\* What follows the last sector: kerSysNvRamSet updates the copy in memory,
\* the others are done.
Written(p) ==
  /\ semflash' = None
  /\ IF call[p].op \in NvramOps
     THEN /\ Goto(p, [call[p] EXCEPT !.at = "update", !.todo = {}])
          /\ UNCHANGED <<ioctlMutex, spMutex, flashImageMutex>>
     ELSE IF call[p].op = "default"
     THEN /\ Goto(p, [call[p] EXCEPT !.at = "restart", !.todo = {}])
          /\ UNCHANGED <<ioctlMutex, spMutex, flashImageMutex>>
     ELSE Return(p)

\* Slip: semflash is given up between two sectors.
WriteBlkAlone(p) ==
  LET c == call[p]  b == LowestOf(c.todo) IN
  /\ c.at = "set" /\ semflash = None
  /\ flash' = [flash EXCEPT ![b] = c.buf[b]]
  /\ IF c.todo = {b}
     THEN Written(p)
     ELSE /\ Goto(p, [c EXCEPT !.todo = @ \ {b}])
          /\ UNCHANGED <<ioctlMutex, spMutex, flashImageMutex, semflash>>
  /\ UNCHANGED <<geom, uses, inMemNvramData, faults>>

\* setSharedBlks (and kerSysBcmImageSet): semflash is held from the first
\* sector to the last.
WriteBlk(p) ==
  LET c == call[p]  b == LowestOf(c.todo) IN
  /\ c.at = "set"
  /\ semflash \in {None, p}
  /\ flash' = [flash EXCEPT ![b] = c.buf[b]]
  /\ IF c.todo = {b}
     THEN Written(p)
     ELSE /\ semflash' = p
          /\ Goto(p, [c EXCEPT !.todo = @ \ {b}])
          /\ UNCHANGED <<ioctlMutex, spMutex, flashImageMutex>>
  /\ UNCHANGED <<geom, uses, inMemNvramData, faults>>

\* commonImageWrite has written an image of the boot loader, which has no
\* nvram, and finds so by the checksum (or the write failed): it stores the
\* nvram it read before.
StoreOrig(p) == Goto(p, [call[p] EXCEPT !.at = "get", !.buf = None, !.todo = {}])

\* Slip: the nvram is not looked at after an update of the boot loader.
UpdateOnly(p) ==
  /\ call[p].at = "update"
  /\ inMemNvramData' = call[p].buf[0]["nvram"]
  /\ Return(p)
  /\ UNCHANGED <<geom, uses, flash, semflash, faults>>

Update(p) ==
  LET c == call[p] IN
  /\ c.at = "update"
  /\ inMemNvramData' = c.buf[0]["nvram"]
  /\ IF inMemNvramData'.good
     THEN Return(p)
     ELSE StoreOrig(p) /\ UNCHANGED <<ioctlMutex, spMutex, flashImageMutex>>
  /\ UNCHANGED <<geom, uses, flash, semflash, faults>>

-----------------------------------------------------------------------------
(* Faults.                                                                 *)

\* A sector that is erased but not written again, or only in part.
PartOf(new, b, done) ==
  [i \in ItemsAt(b) |-> IF i \in done THEN new[i]
                        ELSE IF i \in SpItems THEN None
                        ELSE IF i = "nvram" THEN BadNvram ELSE Torn]

TornBlk(p) ==
  LET b == LowestOf(call[p].todo) IN
  \E done \in SUBSET ItemsAt(b) : flash' = [flash EXCEPT ![b] = PartOf(call[p].buf[b], b, done)]

\* flash_write_buf fails: the loop ends, the call too, with an error; only
\* commonImageWrite goes on to store the nvram it read before.
WriteFails(p) ==
  /\ call[p].at = "set" /\ semflash \in {None, p}
  /\ faults < MaxFaults
  /\ faults' = faults + 1
  /\ TornBlk(p)
  /\ semflash' = None
  /\ IF call[p].op = "cfe" /\ ~call[p].buf[0]["nvram"].good
     THEN StoreOrig(p) /\ UNCHANGED <<ioctlMutex, spMutex, flashImageMutex>>
     ELSE Return(p)
  /\ UNCHANGED <<geom, uses, inMemNvramData>>

\* The board starts again; kerSysEarlyFlashInit reads the nvram.
Restarted ==
  /\ call' = [p \in Procs |-> Idle]
  /\ ioctlMutex' = None /\ spMutex' = None /\ flashImageMutex' = None /\ semflash' = None
  /\ inMemNvramData' = flash'[0]["nvram"]
  /\ UNCHANGED <<geom, uses>>

AllIdle == \A p \in Procs : call[p] = Idle

\* The power goes, maybe while a sector is erased or written.
PowerCut ==
  /\ AllIdle \/ faults < MaxFaults
  /\ faults' = IF AllIdle THEN faults ELSE faults + 1
  /\ \/ UNCHANGED flash
     \/ \E p \in Procs : call[p].at = "set" /\ semflash \in {None, p} /\ TornBlk(p)
  /\ Restarted

\* kernel_restart, after the button has stored the defaults: a fault for a call
\* that is under way.
Restart(p) ==
  /\ call[p].at = "restart"
  /\ faults' = IF faults > MaxFaults \/ \A q \in Procs \ {p} : call[q] = Idle
               THEN faults ELSE faults + 1
  /\ UNCHANGED flash
  /\ Restarted

-----------------------------------------------------------------------------
Next ==
  \/ \E p \in Procs : \/ Start(p) \/ LockSp(p) \/ LockNvram(p) \/ Get(p) \/ NoMemory(p)
                      \/ WriteBlk(p) \/ WriteFails(p) \/ Update(p) \/ Restart(p)
  \/ PowerCut

Spec == Init /\ [][Next]_vars

-----------------------------------------------------------------------------
(* Properties.                                                             *)

FlashStoreTypeOK ==
  /\ geom \in Geometry /\ uses \subseteq UserOps \cup KernelOps
  /\ \A b \in 0 .. geom.nsect-1 : DOMAIN flash[b] = ItemsAt(b)
  /\ inMemNvramData \in NvramData
  /\ {ioctlMutex, spMutex, flashImageMutex, semflash} \subseteq Procs \cup {None}
  /\ \A p \in Procs : call[p].at \in {"idle", "spMutex", "flashImageMutex", "get", "set",
                                     "update", "restart"}
  /\ faults \in 0 .. MaxFaults + 1

\* flash_init_info gives each store sectors of its own, or its own part of a
\* sector that the scratch pad and the PSI share; two images that
\* flashFsKernelImage lets in lie apart where there is RoomForTwo, and only there.
AreasApart == AreasDisjoint(geom) /\ ImagesDisjoint(geom)

\* What a store holds: its copies in the sectors it lies in (one, when it is
\* whole), and for the nvram a field of the record.
Stores == (Items \ {"nvram"}) \cup NvramFields
Stored(i) == IF i \in NvramFields THEN {flash[0]["nvram"][i]}
             ELSE {flash[b][i] : b \in ItemBlks(i)}
Whole(i)  == \E v \in Val : Stored(i) = {v}

\* What a call is asked to change.
Own(c) == CASE c.op \in Psi -> {"psi"}
            [] c.op = "clear" -> Tokens \cup (IF ClearsBoot THEN {"boot"} ELSE {})
            [] c.op = "cfe" -> NvramFields
            [] OTHER -> {c.item}

\* What no lock keeps a call from changing besides: the PSI has none of its own,
\* though the scratch pad may share a sector with it; the nvram is
\* copied before the lock is taken, or from memory after a failed write; and
\* the header has the boot state in it.
Unguarded(c) ==
  CASE c.op \in Psi \cup SpOps ->
         (IF SpShared(geom) THEN SpItems \cup {"psi"} ELSE {})
         \cup (IF BootInHeader /\ c.op \in {"token", "delete"} THEN {"boot"} ELSE {})
    [] c.op \in NvramOps -> IF c.op \in Copied \/ faults > 0 THEN NvramFields ELSE {}
    [] OTHER -> {}

Writes(p) == call[p].at = "set" /\ call'[p] # call[p]

\* A call changes what it was asked to change: with the locks, no call writes
\* back an old copy of somebody else's data (bcm63xx_flash.c, getSharedBlks to
\* setSharedBlks).
OthersKept ==
  [][\A i \in Stores : Stored(i)' # Stored(i) =>
       \/ faults' # faults
       \/ \E p \in Procs : Writes(p) /\ i \in Own(call[p]) \cup Unguarded(call[p])]_vars

\* No two calls mix their sectors: while nobody writes, the PSI and its backup
\* each are of one call; and one fault, or a restart on top of a call, leaves
\* one of the two. The PSI is out of the scratch pad's sector.
OneCopyLeft ==
  semflash = None /\ ~SpShared(geom) =>
    /\ faults = 0 => Whole("psi") /\ Whole("backup")
    /\ faults = 1 => Whole("psi") \/ Whole("backup")

\* While nobody may change the nvram, the copy in memory is what the flash holds
\* (a failed write may leave the new one in the flash and the old in memory).
NvramMatchesMemory ==
  flashImageMutex = None /\ faults = 0 => inMemNvramData = flash[0]["nvram"]

\* An update of the boot loader leaves a good nvram behind.
NvramGood == flashImageMutex = None /\ faults = 0 => flash[0]["nvram"].good
=============================================================================
