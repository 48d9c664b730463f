-------------------------- MODULE FlashCopyProofs --------------------------
(***************************************************************************)
(* Proofs that one whole copy of the configuration is left (OneCopyLeft),  *)
(* and that calls leave the data of others alone (OthersKept), for any     *)
(* boards, processes and values.                                           *)
(*                                                                         *)
(* setSharedBlks holds semflash from the first sector to the last, so that *)
(* one process at most is in the middle of its sectors, and nobody else    *)
(* writes them meanwhile. What it has written so far is one value; the     *)
(* other copy is whole while it writes. A first fault hits one copy.       *)
(***************************************************************************)
EXTENDS FlashStoreProofs

Copies == {"psi", "backup"}

\* Operations that write copy X.
Copying(op, X) == IF X = "psi" THEN op \in Psi ELSE op = "backup"

WholeIn(f, X) == \E v \in Val : \A b \in ItemBlks(X) : f[b][X] = v

\* A call c of process p, with flash f, where h holds semflash: it has one value
\* for all sectors, and has written it to those that are no longer to be written.
\* Only the holder is past the first.
CopyCall(c, p, f, h) ==
  /\ c.at = "set" => c.todo \subseteq OpBlks(c.op) /\ (c.todo # OpBlks(c.op) => h = p)
  /\ \A X \in Copies : Copying(c.op, X) =>
       /\ c.at = "get" => c.item = X /\ c.val \in Val
       /\ c.at = "set" => \E v \in Val :
            /\ \A b \in ItemBlks(X) : c.buf[b][X] = v
            /\ \A b \in ItemBlks(X) \ c.todo : f[b][X] = v

\* Copy X is whole, or the holder h of semflash is writing it.
FineIn(f, h, cl, X) == WholeIn(f, X) \/ (h # None /\ Copying(cl[h].op, X))
Fine(X) == FineIn(flash, semflash, call, X)

CopyInv ==
  ~SpShared(geom) =>
    /\ \A p \in Procs : CopyCall(call[p], p, flash, semflash)
    /\ semflash # None => call[semflash].at = "set"
    /\ faults = 0 => Fine("psi") /\ Fine("backup")
    /\ faults = 1 => Fine("psi") \/ Fine("backup")

-----------------------------------------------------------------------------
(* The sectors of the stores.                                              *)

\* All stores' sectors but those of the scratch pad and the PSI lie apart.
LEMMA SectorFacts ==
  ASSUME Place
  PROVE  /\ PsiBlks \subseteq 1 .. geom.nsect-1 /\ SpBlks \subseteq 1 .. geom.nsect-1
         /\ BackupBlks \subseteq 1 .. geom.nsect-1
         /\ BackupBlks \cap PsiBlks = {} /\ BackupBlks \cap SpBlks = {}
         /\ SpBlk \in SpBlks
         /\ SpShared(geom) => SpBlks = {SpBlk}
         /\ ~SpShared(geom) => SpBlks \cap PsiBlks = {}
<1> DEFINE P == PsiStartBlk(geom)
           B == BackupStartBlk(geom)
           nb == BackupNumBlk(geom)
           ns == SpNumBlk(geom)
           np == PsiNumBlk(geom)
<1>1. /\ geom \in Geometry /\ FlashLayoutAssumption /\ geom.nsect \in Nat
      /\ PsiBlks \subseteq Nat \ {0} /\ PsiBlks # {} /\ SpBlks \subseteq Nat \ {0}
      /\ BackupBlks \subseteq Nat \ {0}
  BY PlaceFacts, FlashLayoutAssumption DEF Place, Geometry
<1>2. /\ P \in Int /\ SpBlk \in Int /\ SpBlk <= P /\ nb \in Nat /\ B \in Int /\ B + nb = SpBlk
      /\ ns \in Int /\ ns >= 1
  BY <1>1, PsiPlace, SpPlace, MetaPlace DEF SpBlk
<1>3. P + np = geom.nsect /\ np \in Int
  BY <1>1, <1>2 DEF PsiNumBlk
<1>4. IF SpShared(geom) THEN ns = 1 /\ SpBlk = P ELSE SpBlk + ns = P
  BY <1>2 DEF SpNumBlk, SpShared, SpBlk
<1>5. /\ PsiBlks = P .. P + np - 1 /\ SpBlks = SpBlk .. SpBlk + ns - 1
      /\ BackupBlks = B .. B + nb - 1
  BY DEF PsiBlks, SpBlks, BackupBlks, SpBlk
<1> HIDE DEF P, B, nb, ns, np
<1>6. P < geom.nsect
  BY <1>1, <1>2, <1>3, <1>5
<1>7. /\ \A b \in PsiBlks : b \in Int /\ P <= b /\ b <= geom.nsect-1
      /\ \A b \in SpBlks : b \in Int /\ SpBlk <= b /\ b <= SpBlk + ns - 1
      /\ \A b \in BackupBlks : b \in Int /\ b < SpBlk
  BY <1>1, <1>2, <1>3, <1>5
<1>8. \A b \in SpBlks : b <= geom.nsect-1
  BY <1>1, <1>2, <1>4, <1>6, <1>7
<1>9. \A b \in BackupBlks : b <= geom.nsect-1
  BY <1>1, <1>2, <1>6, <1>7
<1>10. \A b \in Nat \ {0} : b <= geom.nsect-1 => b \in 1 .. geom.nsect-1
  BY <1>1
<1>11. SpBlk \in SpBlks /\ (SpShared(geom) => SpBlks = {SpBlk})
  BY <1>2, <1>4, <1>5
<1>12. ~SpShared(geom) => SpBlks \cap PsiBlks = {}
  BY <1>2, <1>4, <1>7
<1>13. BackupBlks \cap PsiBlks = {} /\ BackupBlks \cap SpBlks = {}
  BY <1>2, <1>7
<1> QED
  BY <1>1, <1>7, <1>8, <1>9, <1>10, <1>11, <1>12, <1>13

LEMMA OpSectors ==
  ASSUME NEW op \in Ops
  PROVE  \/ op \in Psi /\ OpBlks(op) = PsiBlks /\ op \notin SpOps \cup NvramOps
         \/ op = "backup" /\ OpBlks(op) = BackupBlks /\ op \notin SpOps \cup NvramOps
         \/ op \in SpOps /\ OpBlks(op) = SpBlks /\ op \notin NvramOps
         \/ op \in NvramOps /\ OpBlks(op) = {0} /\ op \notin SpOps
<1>1. op \in Psi \/ op = "backup" \/ op \in SpOps \/ op \in NvramOps
  BY DEF Ops, UserOps, KernelOps, Psi, SpOps, NvramOps
<1>2. CASE op \in Psi
  BY <1>2 DEF OpBlks, Psi, SpOps, NvramOps
<1>3. CASE op = "backup"
  BY <1>3 DEF OpBlks, Psi, SpOps, NvramOps
<1>4. CASE op \in SpOps
  BY <1>4 DEF OpBlks, Psi, SpOps, NvramOps
<1>5. CASE op \in NvramOps
  BY <1>5 DEF OpBlks, Psi, SpOps, NvramOps, NvramBlks
<1> QED
  BY <1>1, <1>2, <1>3, <1>4, <1>5

LEMMA ItemSectors ==
  ASSUME Place
  PROVE  /\ ItemBlks("psi") = PsiBlks /\ ItemBlks("backup") = BackupBlks
         /\ \A i \in SpItems : ItemBlks(i) = {SpBlk}
         /\ \A i \in Items \ {"nvram"} : ItemBlks(i) \subseteq 1 .. geom.nsect-1
<1>1. ItemBlks("psi") = PsiBlks /\ ItemBlks("backup") = BackupBlks
  BY NotTokens DEF ItemBlks
<1>2. \A i \in SpItems : ItemBlks(i) = {SpBlk}
  BY NotTokens DEF ItemBlks, SpBlk
<1>3. \A i \in Items \ {"nvram"} : ItemBlks(i) \subseteq 1 .. geom.nsect-1
  BY <1>1, <1>2, SectorFacts DEF Items
<1> QED
  BY <1>1, <1>2, <1>3

\* The copies lie in the flash, apart from one another and from all that other
\* operations write.
LEMMA CopiesApart ==
  ASSUME Place, ~SpShared(geom), NEW X \in Copies
  PROVE  /\ ItemBlks(X) # {} /\ ItemBlks(X) \subseteq 0 .. geom.nsect-1
         /\ \A b \in ItemBlks(X) : X \in ItemsAt(b)
         /\ \A op \in Ops : IF Copying(op, X) THEN OpBlks(op) = ItemBlks(X)
                            ELSE OpBlks(op) \cap ItemBlks(X) = {}
<1>1. /\ PsiBlks \subseteq 1 .. geom.nsect-1 /\ BackupBlks \subseteq 1 .. geom.nsect-1
      /\ BackupBlks \cap PsiBlks = {} /\ BackupBlks \cap SpBlks = {} /\ SpBlks \cap PsiBlks = {}
      /\ PsiBlks # {} /\ BackupBlks # {} /\ geom.nsect \in Nat
  BY SectorFacts, PlaceFacts
<1>2. ItemBlks("psi") = PsiBlks /\ ItemBlks("backup") = BackupBlks
  BY ItemSectors
<1>3. \A b \in ItemBlks(X) : X \in ItemsAt(b)
  BY DEF ItemsAt, Items, Copies
<1>4. ItemBlks(X) # {} /\ ItemBlks(X) \subseteq 1 .. geom.nsect-1
  BY <1>1, <1>2 DEF Copies
<1>5. ASSUME NEW op \in Ops
      PROVE  IF Copying(op, X) THEN OpBlks(op) = ItemBlks(X) ELSE OpBlks(op) \cap ItemBlks(X) = {}
  <2>1. {0} \cap PsiBlks = {} /\ {0} \cap BackupBlks = {}
    BY <1>1
  <2>2. op \in Psi => op # "backup" /\ op \notin SpOps \cup NvramOps
    BY DEF Psi, SpOps, NvramOps
  <2>3. op = "backup" => op \notin SpOps \cup NvramOps
    BY DEF SpOps, NvramOps
  <2>4. CASE X = "psi"
    BY <1>1, <1>2, <2>1, <2>2, <2>3, <2>4, OpSectors DEF Copying
  <2>5. CASE X = "backup"
    BY <1>1, <1>2, <2>1, <2>2, <2>3, <2>5, OpSectors DEF Copying
  <2> QED BY <2>4, <2>5 DEF Copies
<1>6. 1 .. geom.nsect-1 \subseteq 0 .. geom.nsect-1
  BY <1>1
<1> QED
  BY <1>3, <1>4, <1>5, <1>6

\* No operation writes both.
LEMMA OneOrOther == \A op : ~(Copying(op, "psi") /\ Copying(op, "backup"))
BY DEF Copying, Psi

LEMMA SameBlks ==
  ASSUME geom' = geom
  PROVE  /\ \A i : ItemBlks(i)' = ItemBlks(i)
         /\ \A op : OpBlks(op)' = OpBlks(op)
         /\ SpShared(geom)' <=> SpShared(geom)
<1>1. PsiBlks' = PsiBlks /\ SpBlks' = SpBlks /\ BackupBlks' = BackupBlks
  BY DEF PsiBlks, SpBlks, BackupBlks
<1> QED
  BY <1>1 DEF ItemBlks, OpBlks

LEMMA CopyNext ==
  ASSUME geom' = geom,
         ~SpShared(geom) =>
           /\ \A p \in Procs : CopyCall(call'[p], p, flash', semflash')
           /\ semflash' # None => call'[semflash'].at = "set"
           /\ faults' = 0 => /\ FineIn(flash', semflash', call', "psi")
                             /\ FineIn(flash', semflash', call', "backup")
           /\ faults' = 1 => \/ FineIn(flash', semflash', call', "psi")
                             \/ FineIn(flash', semflash', call', "backup")
  PROVE  CopyInv'
<1>1. /\ \A i : ItemBlks(i)' = ItemBlks(i)
      /\ \A op : OpBlks(op)' = OpBlks(op)
      /\ SpShared(geom)' <=> SpShared(geom)
  BY SameBlks
<1>2. \A X : Fine(X)' <=> FineIn(flash', semflash', call', X)
  BY <1>1 DEF Fine, FineIn, WholeIn
<1>3. \A p \in Procs : CopyCall(call[p], p, flash, semflash)'
                         <=> CopyCall(call'[p], p, flash', semflash')
  BY <1>1 DEF CopyCall
<1> QED
  BY <1>1, <1>2, <1>3 DEF CopyInv

LEMMA CopyInit == Init => CopyInv
<1> SUFFICES ASSUME Init, ~SpShared(geom) PROVE CopyInv
  BY DEF CopyInv
<1>1. Place /\ call = [p \in Procs |-> Idle] /\ faults = 0 /\ semflash = None
  BY InitInv DEF Init, IInv
<1>2. PICK v \in Val :
        flash = [b \in 0 .. geom.nsect-1 |->
                   [i \in ItemsAt(b) |-> CASE i \in Tokens -> None
                                           [] i = "nvram" -> inMemNvramData
                                           [] OTHER -> v]]
  BY DEF Init
<1>3. ASSUME NEW X \in Copies
      PROVE  Fine(X)
  <2>1. X \notin Tokens /\ X # "nvram"
    BY FlashStoreAssumption DEF Copies
  <2>2. \A b \in ItemBlks(X) : b \in 0 .. geom.nsect-1 /\ X \in ItemsAt(b)
    BY <1>1, CopiesApart
  <2>3. \A b \in ItemBlks(X) : flash[b][X] = v
    BY <1>2, <2>1, <2>2
  <2> QED BY <2>3 DEF Fine, FineIn, WholeIn
<1>4. \A p \in Procs : CopyCall(call[p], p, flash, semflash)
  BY <1>1 DEF CopyCall, Idle
<1> QED
  BY <1>1, <1>3, <1>4 DEF CopyInv, Copies

-----------------------------------------------------------------------------
(* Steps that leave the flash alone.                                       *)

LEMMA NoPrimeSem == IInv => semflash \in Procs \cup {None} /\ faults \in Nat
BY FlashStoreAssumption DEF IInv, Simple

\* Process p moves, and is not writing before.
LEMMA QuietStep ==
  ASSUME IInv, CopyInv, NEW p \in Procs, \A q \in Procs \ {p} : call'[q] = call[q],
         UNCHANGED <<geom, flash, semflash>>, call[p].at # "set",
         faults' \in {faults, faults + 1},
         ~SpShared(geom) => CopyCall(call'[p], p, flash, semflash)
  PROVE  CopyInv'
<1>1. semflash \in Procs \cup {None} /\ faults \in Nat
  BY NoPrimeSem
<1> SUFFICES ASSUME ~SpShared(geom)
             PROVE  /\ \A q \in Procs : CopyCall(call'[q], q, flash', semflash')
                    /\ semflash' # None => call'[semflash'].at = "set"
                    /\ faults' = 0 => /\ FineIn(flash', semflash', call', "psi")
                                      /\ FineIn(flash', semflash', call', "backup")
                    /\ faults' = 1 => \/ FineIn(flash', semflash', call', "psi")
                                      \/ FineIn(flash', semflash', call', "backup")
  BY CopyNext
<1>2. semflash # None => semflash \in Procs \ {p} /\ call'[semflash] = call[semflash]
                         /\ call[semflash].at = "set"
  BY <1>1 DEF CopyInv
<1>3. \A X : Fine(X) => FineIn(flash', semflash', call', X)
  BY <1>2 DEF Fine, FineIn
<1>4. \A q \in Procs : CopyCall(call'[q], q, flash', semflash')
  BY DEF CopyInv
<1>5. faults' = 0 => faults = 0
  BY <1>1
<1>6. faults' = 1 => faults = 1 \/ faults = 0
  BY <1>1
<1> QED
  BY <1>2, <1>3, <1>4, <1>5, <1>6 DEF CopyInv

\* A call that neither reads nor writes a copy.
LEMMA CopyCallElse ==
  ASSUME NEW c, NEW p, NEW f, NEW h,
         c.at # "set", c.at = "get" => ~Copying(c.op, "psi") /\ ~Copying(c.op, "backup")
  PROVE  CopyCall(c, p, f, h)
BY DEF CopyCall, Copies

LEMMA StartCopy ==
  ASSUME IInv, CopyInv, NEW p \in Procs, Start(p)
  PROVE  CopyInv'
<1>1. call[p] = Idle /\ UNCHANGED <<geom, flash, semflash, faults>>
  BY DEF Start
<1>2. PICK op \in uses \cap (IF p \in Users THEN UserOps ELSE KernelOps), v \in Val :
        \E i \in (IF op \in {"token", "delete"} THEN Tokens ELSE {ItemOf(op)}) : \E n :
          Goto(p, [at |-> FirstAt(op), op |-> op, item |-> i, val |-> v, nv |-> n,
                   buf |-> None, todo |-> {}])
  BY DEF Start
<1>3. PICK i \in (IF op \in {"token", "delete"} THEN Tokens ELSE {ItemOf(op)}) : \E n :
        Goto(p, [at |-> FirstAt(op), op |-> op, item |-> i, val |-> v, nv |-> n,
                 buf |-> None, todo |-> {}])
  BY <1>2
<1> PICK n : Goto(p, [at |-> FirstAt(op), op |-> op, item |-> i, val |-> v, nv |-> n,
                      buf |-> None, todo |-> {}])
  BY <1>3
<1> DEFINE c == [at |-> FirstAt(op), op |-> op, item |-> i, val |-> v, nv |-> n,
                 buf |-> None, todo |-> {}]
<1>4. call'[p] = c /\ \A q \in Procs \ {p} : call'[q] = call[q]
  BY DEF Goto, IInv, CallsOK
<1>5. c.at # "set"
  BY DEF FirstAt
<1>6. ASSUME NEW X \in Copies, Copying(op, X)
      PROVE  i = X
  <2>1. X = "psi" => op \in Psi
    BY <1>6 DEF Copying
  <2>2. X # "psi" => op = "backup" /\ X = "backup"
    BY <1>6 DEF Copying, Copies
  <2>3. op \notin {"token", "delete"} /\ op \notin Psi => op # "psi"
    BY DEF Psi
  <2>4. op \in Psi => ItemOf(op) = "psi" /\ op \notin {"token", "delete"}
    BY DEF Psi, ItemOf
  <2>5. op = "backup" => ItemOf(op) = "backup" /\ op \notin {"token", "delete"}
    BY DEF Psi, ItemOf
  <2> QED BY <2>1, <2>2, <2>4, <2>5
<1>7. CopyCall(c, p, flash, semflash)
  BY <1>5, <1>6 DEF CopyCall
<1> QED
  BY <1>1, <1>4, <1>7, QuietStep DEF Idle

LEMMA LockSpCopy ==
  ASSUME IInv, CopyInv, NEW p \in Procs, LockSp(p)
  PROVE  CopyInv'
<1> DEFINE c == [call[p] EXCEPT !.at = "get"]
<1>1. /\ call[p].at = "spMutex" /\ call' = [call EXCEPT ![p] = c]
      /\ UNCHANGED <<geom, flash, semflash, faults>>
  BY DEF LockSp, Goto
<1>2. call'[p] = c /\ \A q \in Procs \ {p} : call'[q] = call[q]
  BY <1>1 DEF IInv, CallsOK
<1>3. call[p].op \in SpOps /\ IsCall(call[p])
  BY <1>1 DEF IInv, CallsOK, CallOK
<1>4. c.op = call[p].op /\ c.at = "get"
  BY <1>3 DEF IsCall
<1>5. ~Copying(c.op, "psi") /\ ~Copying(c.op, "backup")
  BY <1>3, <1>4 DEF Copying, SpOps, Psi
<1>6. CopyCall(c, p, flash, semflash)
  BY <1>4, <1>5, CopyCallElse
<1> QED
  BY <1>1, <1>2, <1>6, QuietStep

LEMMA ReturnCopy ==
  ASSUME IInv, NEW p \in Procs, Return(p)
  PROVE  /\ call'[p] = Idle /\ \A q \in Procs \ {p} : call'[q] = call[q]
         /\ \A f, h : CopyCall(call'[p], p, f, h)
<1>1. call'[p] = Idle /\ \A q \in Procs \ {p} : call'[q] = call[q]
  BY DEF Return, Goto, IInv, CallsOK
<1>2. Idle.at = "idle"
  BY DEF Idle
<1> QED
  BY <1>1, <1>2, CopyCallElse

LEMMA NoMemoryCopy ==
  ASSUME IInv, CopyInv, NEW p \in Procs, NoMemory(p)
  PROVE  CopyInv'
<1>1. /\ call[p].at = "get" /\ Return(p) /\ faults' = faults + 1
      /\ UNCHANGED <<geom, flash, semflash>>
  BY DEF NoMemory
<1> QED
  BY <1>1, ReturnCopy, QuietStep

LEMMA NvramOpsElse == \A op \in NvramOps : ~Copying(op, "psi") /\ ~Copying(op, "backup")
BY DEF Copying, NvramOps, Psi

\* StoreOrig, of a call for the nvram.
LEMMA StoreOrigCopy ==
  ASSUME IInv, NEW p \in Procs, StoreOrig(p), call[p].op \in NvramOps, IsCall(call[p])
  PROVE  /\ call'[p].at # "set" /\ \A q \in Procs \ {p} : call'[q] = call[q]
         /\ \A f, h : CopyCall(call'[p], p, f, h)
<1> DEFINE c == [call[p] EXCEPT !.at = "get", !.buf = None, !.todo = {}]
<1>1. call' = [call EXCEPT ![p] = c]
  BY DEF StoreOrig, Goto
<1>2. call'[p] = c /\ \A q \in Procs \ {p} : call'[q] = call[q]
  BY <1>1 DEF IInv, CallsOK
<1>3. c.at = "get" /\ c.op = call[p].op
  BY DEF IsCall
<1>4. ~Copying(c.op, "psi") /\ ~Copying(c.op, "backup")
  BY <1>3, NvramOpsElse
<1> QED
  BY <1>2, <1>3, <1>4, CopyCallElse

LEMMA UpdateCopy ==
  ASSUME IInv, CopyInv, NEW p \in Procs, Update(p)
  PROVE  CopyInv'
<1>1. call[p].at = "update" /\ UNCHANGED <<geom, flash, semflash, faults>>
  BY DEF Update
<1>2. call[p].op \in NvramOps /\ IsCall(call[p])
  BY <1>1 DEF IInv, CallsOK, CallOK
<1>3. Return(p) \/ StoreOrig(p)
  BY DEF Update
<1> QED
  BY <1>1, <1>2, <1>3, ReturnCopy, StoreOrigCopy, QuietStep

LEMMA LockNvramCopy ==
  ASSUME IInv, CopyInv, NEW p \in Procs, LockNvram(p)
  PROVE  CopyInv'
<1>1. call[p].at = "flashImageMutex" /\ UNCHANGED <<geom, flash, semflash, faults>>
  BY DEF LockNvram
<1>2. call[p].op \in NvramOps /\ IsCall(call[p])
  BY <1>1 DEF IInv, CallsOK, CallOK
<1>3. ~Copying(call[p].op, "psi") /\ ~Copying(call[p].op, "backup")
  BY <1>2, NvramOpsElse
<1>4. CASE Return(p)
  BY <1>1, <1>4, ReturnCopy, QuietStep
<1>5. CASE ~Return(p)
  <2>1. PICK c : /\ call' = [call EXCEPT ![p] = c]
                 /\ c = CASE call[p].op \in Copied -> [call[p] EXCEPT !.at = "get"]
                       [] call[p].op = "wlan" ->
                            [call[p] EXCEPT !.at = "get",
                               !.nv = [inMemNvramData EXCEPT !.wlan = call[p].val]]
                       [] call[p].op = "cfe" ->
                            [call[p] EXCEPT !.at = "set", !.nv = inMemNvramData, !.todo = NvramBlks,
                               !.buf = [b \in NvramBlks |-> [i \in ItemsAt(b) |-> BadNvram]]]
    BY <1>5 DEF LockNvram, Goto
  <2>2. call'[p] = c /\ \A q \in Procs \ {p} : call'[q] = call[q]
    BY <2>1 DEF IInv, CallsOK
  <2>3. c.op = call[p].op /\ (c.at = "get" \/ (c.at = "set" /\ c.op = "cfe" /\ c.todo = NvramBlks))
    <3>1. CASE call[p].op \in Copied
      <4>1. c = [call[p] EXCEPT !.at = "get"]
        BY <2>1, <3>1 DEF Copied
      <4> QED BY <4>1, <1>2 DEF IsCall
    <3>2. CASE call[p].op = "wlan"
      <4>1. c = [call[p] EXCEPT !.at = "get", !.nv = [inMemNvramData EXCEPT !.wlan = call[p].val]]
        BY <2>1, <3>2 DEF Copied
      <4> QED BY <4>1, <1>2 DEF IsCall
    <3>3. CASE call[p].op = "cfe"
      <4>1. c = [call[p] EXCEPT !.at = "set", !.nv = inMemNvramData, !.todo = NvramBlks,
                   !.buf = [b \in NvramBlks |-> [i \in ItemsAt(b) |-> BadNvram]]]
        BY <2>1, <3>3 DEF Copied
      <4> QED BY <4>1, <1>2, <3>3 DEF IsCall
    <3> QED BY <1>2, <3>1, <3>2, <3>3 DEF NvramOps, Copied
  <2>4. OpBlks("cfe") = NvramBlks
    BY DEF OpBlks, Psi, SpOps, NvramOps
  <2>5. CopyCall(c, p, flash, semflash)
    BY <1>3, <2>3, <2>4 DEF CopyCall, Copies
  <2> QED BY <1>1, <2>2, <2>5, QuietStep
<1> QED
  BY <1>4, <1>5

LEMMA GetCopy ==
  ASSUME IInv, CopyInv, NEW p \in Procs, Get(p)
  PROVE  CopyInv'
<1>1. call[p].at = "get" /\ UNCHANGED <<geom, flash, semflash, faults>>
  BY DEF Get
<1>2. IsCall(call[p]) /\ call[p].op \in Ops /\ Place
  BY <1>1 DEF IInv, CallsOK, CallOK
<1>3. CASE Return(p)
  BY <1>1, <1>3, ReturnCopy, QuietStep
<1>4. CASE ~Return(p)
  <2> DEFINE o == call[p]
  <2>1. PICK inPlace \in {FALSE, InPlace(o)} :
          Goto(p, [o EXCEPT !.at = "set", !.buf = Buffer(o, inPlace), !.todo = OpBlks(o.op),
                     !.val = None, !.nv = None])
    BY <1>4 DEF Get
  <2> DEFINE c == [o EXCEPT !.at = "set", !.buf = Buffer(o, inPlace), !.todo = OpBlks(o.op),
                     !.val = None, !.nv = None]
  <2>2. call'[p] = c /\ \A q \in Procs \ {p} : call'[q] = call[q]
    BY <2>1 DEF Goto, IInv, CallsOK
  <2>3. c.at = "set" /\ c.op = o.op /\ c.todo = OpBlks(o.op) /\ c.buf = Buffer(o, inPlace)
    BY <1>2 DEF IsCall
  <2>4. ASSUME ~SpShared(geom), NEW X \in Copies, Copying(o.op, X)
        PROVE  /\ o.val \in Val /\ \A b \in ItemBlks(X) : c.buf[b][X] = o.val
               /\ ItemBlks(X) \ c.todo = {}
    <3>1. o.item = X /\ o.val \in Val
      BY <1>1, <2>4 DEF CopyInv, CopyCall
    <3>2. OpBlks(o.op) = ItemBlks(X) /\ \A b \in ItemBlks(X) : X \in ItemsAt(b)
      BY <1>2, <2>4, CopiesApart
    <3>3. X \notin Tokens /\ X # "nvram" /\ X # "boot"
      BY FlashStoreAssumption DEF Copies
    <3>4. o.op \notin {"clear", "delete"}
      BY <2>4 DEF Copying, Psi
    <3>5. ASSUME NEW b \in ItemBlks(X)
          PROVE  Changed(o, b, X, inPlace) = o.val
      BY <3>1, <3>3, <3>4 DEF Changed
    <3>6. ASSUME NEW b \in ItemBlks(X)
          PROVE  c.buf[b][X] = Changed(o, b, X, inPlace)
      <4>1. c.buf[b] = [i \in ItemsAt(b) |-> Changed(o, b, i, inPlace)]
        BY <2>3, <3>2 DEF Buffer
      <4> QED BY <4>1, <3>2
    <3> QED BY <2>3, <3>1, <3>2, <3>5, <3>6
  <2> HIDE DEF c
  <2>5. ASSUME ~SpShared(geom)
        PROVE  CopyCall(c, p, flash, semflash)
    BY <2>3, <2>4, <2>5 DEF CopyCall
  <2> QED BY <1>1, <2>2, <2>5, QuietStep
<1> QED
  BY <1>3, <1>4

-----------------------------------------------------------------------------
(* Steps that write.                                                       *)

\* A sector written by one operation, for the copies.
LEMMA Touched ==
  ASSUME IInv, ~SpShared(geom), NEW op \in Ops, NEW b \in OpBlks(op), NEW u,
         flash' = [flash EXCEPT ![b] = u], NEW X \in Copies
  PROVE  IF Copying(op, X)
         THEN flash'[b] = u /\ \A a \in ItemBlks(X) \ {b} : flash'[a] = flash[a]
         ELSE \A a \in ItemBlks(X) : flash'[a] = flash[a]
<1>1. Place /\ flash = [a \in 0 .. geom.nsect-1 |-> flash[a]]
  BY DEF IInv, FlashOK
<1>2. /\ ItemBlks(X) \subseteq 0 .. geom.nsect-1
      /\ IF Copying(op, X) THEN OpBlks(op) = ItemBlks(X) ELSE OpBlks(op) \cap ItemBlks(X) = {}
  BY <1>1, CopiesApart
<1>3. \A a \in 0 .. geom.nsect-1 : flash'[a] = IF a = b THEN u ELSE flash[a]
  BY <1>1
<1>4. CASE Copying(op, X)
  BY <1>2, <1>3, <1>4
<1>5. CASE ~Copying(op, X)
  BY <1>2, <1>3, <1>5
<1> QED
  BY <1>4, <1>5

\* While p writes a sector, the others have not begun, and the copy that p does
\* not write is whole if it is fine.
LEMMA OthersWait ==
  ASSUME IInv, CopyInv, ~SpShared(geom), NEW p \in Procs, semflash \in {None, p}
  PROVE  /\ \A q \in Procs \ {p} : \A f, h : CopyCall(call[q], q, f, h)
         /\ \A X \in Copies : ~Copying(call[p].op, X) /\ Fine(X) => WholeIn(flash, X)
<1>1. ASSUME NEW q \in Procs \ {p}, NEW f, NEW h
      PROVE  CopyCall(call[q], q, f, h)
  <2>1. CopyCall(call[q], q, flash, semflash)
    BY DEF CopyInv
  <2>2. semflash # q
    BY NobodyIsNone
  <2>3. call[q].at = "set" => call[q].todo = OpBlks(call[q].op) /\ call[q].op \in Ops
    BY <2>1, <2>2 DEF CopyCall, IInv, CallsOK, CallOK
  <2>4. ASSUME NEW X \in Copies, Copying(call[q].op, X), call[q].at = "set"
        PROVE  ItemBlks(X) \ call[q].todo = {}
    BY <2>3, <2>4, CopiesApart DEF IInv
  <2> QED BY <2>1, <2>3, <2>4 DEF CopyCall
<1>2. ASSUME NEW X \in Copies, ~Copying(call[p].op, X), Fine(X)
      PROVE  WholeIn(flash, X)
  BY <1>2 DEF Fine, FineIn
<1> QED
  BY <1>1, <1>2

LEMMA WriteBlkCopy ==
  ASSUME IInv, CopyInv, NEW p \in Procs, WriteBlk(p)
  PROVE  CopyInv'
<1> DEFINE c == call[p]
           b == LowestOf(c.todo)
<1>1. /\ c.at = "set" /\ semflash \in {None, p} /\ flash' = [flash EXCEPT ![b] = c.buf[b]]
      /\ geom' = geom /\ faults' = faults
      /\ IF c.todo = {b} THEN Written(p)
         ELSE semflash' = p /\ Goto(p, [c EXCEPT !.todo = @ \ {b}])
  BY DEF WriteBlk
<1>2. IsCall(c) /\ c.op \in Ops /\ Place
  BY <1>1 DEF IInv, CallsOK, CallOK
<1> SUFFICES ASSUME ~SpShared(geom)
             PROVE  /\ \A q \in Procs : CopyCall(call'[q], q, flash', semflash')
                    /\ semflash' # None => call'[semflash'].at = "set"
                    /\ faults' = 0 => /\ FineIn(flash', semflash', call', "psi")
                                      /\ FineIn(flash', semflash', call', "backup")
                    /\ faults' = 1 => \/ FineIn(flash', semflash', call', "psi")
                                      \/ FineIn(flash', semflash', call', "backup")
  BY <1>1, CopyNext
<1>3. b \in c.todo /\ c.todo \subseteq OpBlks(c.op) /\ CopyCall(c, p, flash, semflash)
  BY <1>1, NextBlk DEF IInv, CopyInv, CopyCall
<1> DEFINE more == [c EXCEPT !.todo = @ \ {b}]
<1>4. /\ \A q \in Procs \ {p} : call'[q] = call[q]
      /\ \/ c.todo = {b} /\ semflash' = None /\ call'[p].at \notin {"get", "set"}
         \/ c.todo # {b} /\ semflash' = p /\ call'[p] = more
  <2>1. CASE c.todo # {b}
    BY <1>1, <2>1 DEF Goto, IInv, CallsOK
  <2>2. CASE c.todo = {b} /\ (Return(p) \/ Goto(p, [c EXCEPT !.at = "update", !.todo = {}])
                                        \/ Goto(p, [c EXCEPT !.at = "restart", !.todo = {}]))
    <3>1. call'[p] \in {Idle, [c EXCEPT !.at = "update", !.todo = {}],
                        [c EXCEPT !.at = "restart", !.todo = {}]}
          /\ \A q \in Procs \ {p} : call'[q] = call[q]
      BY <2>2, ReturnCopy DEF Goto, IInv, CallsOK
    <3>2. call'[p].at \notin {"get", "set"}
      <4>1. /\ [c EXCEPT !.at = "update", !.todo = {}].at = "update"
            /\ [c EXCEPT !.at = "restart", !.todo = {}].at = "restart"
        <5> HIDE DEF c
        <5> QED BY <1>2 DEF IsCall
      <4>2. Idle.at = "idle"
        BY DEF Idle
      <4>3. CASE call'[p] = Idle
        BY <4>2, <4>3
      <4>4. CASE call'[p] = [c EXCEPT !.at = "update", !.todo = {}]
        BY <4>1, <4>4
      <4>5. CASE call'[p] = [c EXCEPT !.at = "restart", !.todo = {}]
        BY <4>1, <4>5
      <4> QED BY <3>1, <4>3, <4>4, <4>5
    <3>3. semflash' = None
      BY <1>1, <2>2 DEF Written
    <3> QED BY <2>2, <3>1, <3>2, <3>3
  <2>3. c.todo = {b} => \/ Return(p) \/ Goto(p, [c EXCEPT !.at = "update", !.todo = {}])
                        \/ Goto(p, [c EXCEPT !.at = "restart", !.todo = {}])
    BY <1>1 DEF Written
  <2> QED BY <2>1, <2>2, <2>3
<1>5. more.at = "set" /\ more.op = c.op /\ more.buf = c.buf /\ more.todo = c.todo \ {b}
  BY <1>1, <1>2 DEF IsCall
<1>6. ASSUME NEW X \in Copies, Copying(c.op, X)
      PROVE  \E v \in Val : /\ \A a \in ItemBlks(X) : c.buf[a][X] = v
                            /\ \A a \in ItemBlks(X) \ (c.todo \ {b}) : flash'[a][X] = v
  <2>1. PICK v \in Val : /\ \A a \in ItemBlks(X) : c.buf[a][X] = v
                         /\ \A a \in ItemBlks(X) \ c.todo : flash[a][X] = v
    BY <1>1, <1>3, <1>6 DEF CopyCall
  <2>2. flash'[b] = c.buf[b] /\ \A a \in ItemBlks(X) \ {b} : flash'[a] = flash[a]
    BY <1>1, <1>2, <1>3, <1>6, Touched
  <2>3. b \in ItemBlks(X)
    BY <1>2, <1>3, <1>6, CopiesApart
  <2> HIDE DEF c, b
  <2> QED BY <2>1, <2>2, <2>3
<1>7. \A q \in Procs \ {p} : CopyCall(call'[q], q, flash', semflash')
  BY <1>1, <1>4, OthersWait
<1>8. CopyCall(call'[p], p, flash', semflash')
  <2>1. CASE semflash' = None
    BY <1>4, <2>1, NobodyIsNone, CopyCallElse
  <2>2. CASE semflash' # None
    <3>1. CopyCall(more, p, flash', p)
      <4> HIDE DEF more
      <4> QED BY <1>3, <1>5, <1>6 DEF CopyCall
    <3> QED BY <1>4, <2>2, <3>1
  <2> QED BY <2>1, <2>2
<1>9. ASSUME NEW X \in Copies, Copying(c.op, X)
      PROVE  FineIn(flash', semflash', call', X)
  <2>1. CASE semflash' = None
    <3>1. c.todo \ {b} = {}
      BY <1>4, <2>1, NobodyIsNone
    <3> QED BY <1>6, <1>9, <3>1 DEF FineIn, WholeIn
  <2>2. CASE semflash' # None
    BY <1>4, <1>5, <1>9, <2>2 DEF FineIn
  <2> QED BY <2>1, <2>2
<1>10. ASSUME NEW X \in Copies, ~Copying(c.op, X), Fine(X)
       PROVE  FineIn(flash', semflash', call', X)
  <2>1. WholeIn(flash, X)
    BY <1>1, <1>10, OthersWait
  <2>2. \A a \in ItemBlks(X) : flash'[a] = flash[a]
    BY <1>1, <1>2, <1>3, <1>10, Touched
  <2> QED BY <2>1, <2>2 DEF FineIn, WholeIn
<1>11. \A X \in Copies : Fine(X) => FineIn(flash', semflash', call', X)
  BY <1>9, <1>10
<1>12. semflash' # None => call'[semflash'].at = "set"
  BY <1>4, <1>5
<1>13. \A q \in Procs : CopyCall(call'[q], q, flash', semflash')
  BY <1>7, <1>8
<1> QED
  BY <1>1, <1>11, <1>12, <1>13 DEF CopyInv, Copies

\* A sector torn by one operation: a copy that was fine is whole, unless it is
\* this operation's.
LEMMA TornCopy ==
  ASSUME IInv, CopyInv, ~SpShared(geom), NEW p \in Procs, call[p].at = "set",
         semflash \in {None, p}, TornBlk(p)
  PROVE  \A X \in Copies : ~Copying(call[p].op, X) /\ Fine(X) => WholeIn(flash', X)
<1> DEFINE b == LowestOf(call[p].todo)
<1>1. PICK u : flash' = [flash EXCEPT ![b] = u]
  BY DEF TornBlk
<1>2. call[p].op \in Ops /\ b \in OpBlks(call[p].op)
  BY NextBlk DEF IInv, CallsOK, CallOK, CopyInv, CopyCall
<1>3. ASSUME NEW X \in Copies, ~Copying(call[p].op, X), Fine(X)
      PROVE  WholeIn(flash', X)
  <2>1. WholeIn(flash, X)
    BY <1>3, OthersWait
  <2>2. \A a \in ItemBlks(X) : flash'[a] = flash[a]
    BY <1>1, <1>2, <1>3, Touched
  <2> QED BY <2>1, <2>2 DEF WholeIn
<1> QED
  BY <1>3

LEMMA WriteFailsCopy ==
  ASSUME IInv, CopyInv, NEW p \in Procs, WriteFails(p)
  PROVE  CopyInv'
<1>1. /\ call[p].at = "set" /\ semflash \in {None, p} /\ faults' = faults + 1 /\ TornBlk(p)
      /\ semflash' = None /\ geom' = geom
      /\ IF call[p].op = "cfe" /\ ~call[p].buf[0]["nvram"].good THEN StoreOrig(p) ELSE Return(p)
  BY DEF WriteFails
<1>2. faults \in Nat
  BY NoPrimeSem
<1> SUFFICES ASSUME ~SpShared(geom)
             PROVE  /\ \A q \in Procs : CopyCall(call'[q], q, flash', semflash')
                    /\ semflash' # None => call'[semflash'].at = "set"
                    /\ faults' = 0 => /\ FineIn(flash', semflash', call', "psi")
                                      /\ FineIn(flash', semflash', call', "backup")
                    /\ faults' = 1 => \/ FineIn(flash', semflash', call', "psi")
                                      \/ FineIn(flash', semflash', call', "backup")
  BY <1>1, CopyNext
<1>3. /\ \A q \in Procs \ {p} : call'[q] = call[q]
      /\ \A f, h : CopyCall(call'[p], p, f, h)
  <2>1. CASE Return(p)
    BY <2>1, ReturnCopy
  <2>2. CASE StoreOrig(p) /\ call[p].op = "cfe"
    BY <1>1, <2>2, StoreOrigCopy DEF NvramOps, IInv, CallsOK, CallOK
  <2> QED BY <1>1, <2>1, <2>2
<1>4. \A q \in Procs : CopyCall(call'[q], q, flash', semflash')
  BY <1>1, <1>3, OthersWait
<1>5. ASSUME faults' = 1
      PROVE  \E X \in Copies : WholeIn(flash', X)
  <2>1. \A X \in Copies : Fine(X)
    BY <1>1, <1>2, <1>5 DEF CopyInv, Copies
  <2>2. PICK X \in Copies : ~Copying(call[p].op, X)
    BY OneOrOther DEF Copies
  <2> QED BY <1>1, <2>1, <2>2, TornCopy
<1>6. faults' # 0
  BY <1>1, <1>2
<1> QED
  BY <1>1, <1>4, <1>5, <1>6 DEF FineIn, Copies

-----------------------------------------------------------------------------
(* Restarts.                                                               *)

\* After a restart nobody writes.
LEMMA RestartedCopy ==
  ASSUME Restarted,
         faults' = 1 /\ ~SpShared(geom) => \E X \in Copies : WholeIn(flash', X),
         faults' = 0 /\ ~SpShared(geom) => \A X \in Copies : WholeIn(flash', X)
  PROVE  CopyInv'
<1>1. call' = [p \in Procs |-> Idle] /\ semflash' = None /\ geom' = geom /\ Idle.at = "idle"
  BY DEF Restarted, Idle
<1>2. \A p \in Procs : CopyCall(call'[p], p, flash', semflash')
  BY <1>1, CopyCallElse
<1> QED
  BY <1>1, <1>2, CopyNext DEF FineIn, Copies

\* While somebody writes one copy, the other is whole if both are fine.
LEMMA OneWhole ==
  ASSUME \A X \in Copies : Fine(X)
  PROVE  /\ \E X \in Copies : WholeIn(flash, X)
         /\ semflash = None => \A X \in Copies : WholeIn(flash, X)
<1>1. PICK X \in Copies : semflash = None \/ ~Copying(call[semflash].op, X)
  BY OneOrOther DEF Copies
<1> QED
  BY <1>1 DEF Fine, FineIn

LEMMA NobodyWrites ==
  ASSUME IInv, CopyInv, ~SpShared(geom), \A q \in Procs : call[q].at # "set"
  PROVE  semflash = None
BY NoPrimeSem DEF CopyInv

LEMMA RestartCopy ==
  ASSUME IInv, CopyInv, NEW p \in Procs, Restart(p)
  PROVE  CopyInv'
<1>1. /\ call[p].at = "restart" /\ flash' = flash /\ Restarted
      /\ faults' = IF faults > MaxFaults \/ \A q \in Procs \ {p} : call[q] = Idle
                   THEN faults ELSE faults + 1
  BY DEF Restart
<1>2. faults \in Nat /\ MaxFaults \in Nat \ {0}
  BY NoPrimeSem, FlashStoreAssumption
<1>3. ASSUME ~SpShared(geom), faults' \in {0, 1}
      PROVE  /\ \E X \in Copies : WholeIn(flash', X)
             /\ faults' = 0 => \A X \in Copies : WholeIn(flash', X)
  <2>1. CASE \A q \in Procs \ {p} : call[q] = Idle
    <3>1. faults' = faults
      BY <1>1, <2>1
    <3>2. \A q \in Procs : call[q].at # "set"
      BY <1>1, <2>1 DEF Idle
    <3>3. semflash = None
      BY <1>3, <3>2, NobodyWrites
    <3>4. faults = 0 => \A X \in Copies : Fine(X)
      BY <1>3 DEF CopyInv, Copies
    <3>5. \E X \in Copies : Fine(X)
      BY <1>3, <3>1 DEF CopyInv, Copies
    <3> QED BY <1>1, <3>1, <3>3, <3>4, <3>5 DEF Fine, FineIn
  <2>2. CASE ~\A q \in Procs \ {p} : call[q] = Idle
    <3>1. faults = 0 /\ faults' = 1
      BY <1>1, <1>2, <1>3, <2>2
    <3>2. \A X \in Copies : Fine(X)
      BY <1>3, <3>1 DEF CopyInv, Copies
    <3> QED BY <1>1, <3>1, <3>2, OneWhole
  <2> QED BY <2>1, <2>2
<1> QED
  BY <1>1, <1>3, RestartedCopy

LEMMA PowerCutCopy ==
  ASSUME IInv, CopyInv, PowerCut
  PROVE  CopyInv'
<1>1. /\ faults' = IF AllIdle THEN faults ELSE faults + 1
      /\ \/ flash' = flash
         \/ \E p \in Procs : call[p].at = "set" /\ semflash \in {None, p} /\ TornBlk(p)
      /\ Restarted
  BY DEF PowerCut
<1>2. faults \in Nat
  BY NoPrimeSem
<1>3. ASSUME ~SpShared(geom), faults' \in {0, 1}
      PROVE  /\ \E X \in Copies : WholeIn(flash', X)
             /\ faults' = 0 => \A X \in Copies : WholeIn(flash', X)
  <2>1. CASE AllIdle
    <3>1. \A q \in Procs : call[q].at # "set"
      BY <2>1 DEF AllIdle, Idle
    <3>2. semflash = None /\ flash' = flash /\ faults' = faults
      BY <1>1, <1>3, <2>1, <3>1, NobodyWrites
    <3>3. faults = 0 => \A X \in Copies : Fine(X)
      BY <1>3 DEF CopyInv, Copies
    <3>4. \E X \in Copies : Fine(X)
      BY <1>3, <3>2 DEF CopyInv, Copies
    <3> QED BY <3>2, <3>3, <3>4 DEF Fine, FineIn
  <2>2. CASE ~AllIdle
    <3>1. faults = 0 /\ faults' = 1
      BY <1>1, <1>2, <1>3, <2>2
    <3>2. \A X \in Copies : Fine(X)
      BY <1>3, <3>1 DEF CopyInv, Copies
    <3>3. CASE flash' = flash
      BY <3>1, <3>2, <3>3, OneWhole
    <3>4. ASSUME NEW p \in Procs, call[p].at = "set", semflash \in {None, p}, TornBlk(p)
          PROVE  \E X \in Copies : WholeIn(flash', X)
      <4>1. PICK X \in Copies : ~Copying(call[p].op, X)
        BY OneOrOther DEF Copies
      <4> QED BY <1>3, <3>2, <3>4, <4>1, TornCopy
    <3> QED BY <1>1, <3>1, <3>3, <3>4
  <2> QED BY <2>1, <2>2
<1> QED
  BY <1>1, <1>3, RestartedCopy

LEMMA CopyStutter ==
  ASSUME CopyInv, UNCHANGED vars
  PROVE  CopyInv'
<1>1. UNCHANGED <<geom, flash, semflash, call, faults>>
  BY DEF vars
<1> QED
  BY <1>1, CopyNext DEF CopyInv, Fine

-----------------------------------------------------------------------------
(* The result.                                                             *)

LEMMA CopyStep == IInv /\ CopyInv /\ [Next]_vars => CopyInv'
<1> SUFFICES ASSUME IInv, CopyInv, [Next]_vars PROVE CopyInv'
  OBVIOUS
<1>1. ASSUME NEW p \in Procs,
             \/ Start(p) \/ LockSp(p) \/ LockNvram(p) \/ Get(p) \/ NoMemory(p)
             \/ WriteBlk(p) \/ WriteFails(p) \/ Update(p) \/ Restart(p)
      PROVE  CopyInv'
  BY <1>1, StartCopy, LockSpCopy, LockNvramCopy, GetCopy, NoMemoryCopy, WriteBlkCopy,
     WriteFailsCopy, UpdateCopy, RestartCopy
<1>2. CASE PowerCut
  BY <1>2, PowerCutCopy
<1>3. CASE UNCHANGED vars
  BY <1>3, CopyStutter
<1> QED
  BY <1>1, <1>2, <1>3 DEF Next

\* Nobody mixes the sectors of two calls, and a fault leaves one copy of the
\* configuration whole: for any number of users and kernel threads that write
\* any of the stores.
THEOREM CopyLeft == Spec => []OneCopyLeft
<1>1. IInv /\ CopyInv => OneCopyLeft
  <2> SUFFICES ASSUME IInv, CopyInv, semflash = None, ~SpShared(geom)
               PROVE  /\ faults = 0 => Whole("psi") /\ Whole("backup")
                      /\ faults = 1 => Whole("psi") \/ Whole("backup")
    BY DEF OneCopyLeft
  <2>1. ASSUME NEW X \in Copies, Fine(X)
        PROVE  Whole(X)
    <3>1. PICK v \in Val : \A b \in ItemBlks(X) : flash[b][X] = v
      BY <2>1 DEF Fine, FineIn, WholeIn
    <3>2. ItemBlks(X) # {}
      BY CopiesApart DEF IInv
    <3>3. X \notin NvramFields
      BY DEF Copies, NvramFields
    <3>4. {flash[b][X] : b \in ItemBlks(X)} = {v}
      BY <3>1, <3>2
    <3> QED BY <3>3, <3>4 DEF Whole, Stored
  <2> QED BY <2>1 DEF CopyInv, Copies
<1>2. Init => CopyInv
  BY CopyInit
<1>3. IInv /\ CopyInv /\ [Next]_vars => CopyInv'
  BY CopyStep
<1> QED
  BY <1>1, <1>2, <1>3, Invariance, PTL DEF Spec

-----------------------------------------------------------------------------
(* Nobody writes back an old copy of somebody else's data. What a call of  *)
(* the scratch pad has in its buffer of the others' is still in the flash  *)
(* because it holds spMutex; so is what setUserNvRam does not set, because *)
(* of flashImageMutex, as long as memory and flash agree.                  *)

\* The header has the boot state in it.
HeaderBoot(c) == IF BootInHeader /\ c.op \in {"token", "delete"} THEN {"boot"} ELSE {}

SpKept(c) == SpItems \ (Own(c) \cup HeaderBoot(c))

\* A call c of process p, with flash f and n faults, where m holds spMutex.
FreshCall(c, p, f, m, n) ==
  /\ c.at = "set" => c.todo \subseteq OpBlks(c.op)
  /\ c.op \in {"backup", "wlan"} => c.item = c.op
  /\ c.at \in {"get", "set"} /\ c.op \in SpOps =>
       /\ m = p
       /\ c.at = "set" /\ ~SpShared(geom) /\ SpBlk \in c.todo =>
            \A i \in SpKept(c) : c.buf[SpBlk][i] = f[SpBlk][i]
  /\ c.op = "wlan" /\ n = 0 =>
       /\ c.at = "get" => c.nv["optic"] = f[0]["nvram"]["optic"]
       /\ c.at = "set" => c.buf[0]["nvram"]["optic"] = f[0]["nvram"]["optic"]

Fresh == \A p \in Procs : FreshCall(call[p], p, flash, spMutex, faults)

LEMMA FreshNext ==
  ASSUME geom' = geom,
         \A p \in Procs : FreshCall(call'[p], p, flash', spMutex', faults')
  PROVE  Fresh'
<1>1. /\ \A op : OpBlks(op)' = OpBlks(op)
      /\ SpShared(geom)' <=> SpShared(geom)
  BY SameBlks
<1>2. SpBlk' = SpBlk
  BY DEF SpBlk
<1>3. \A c : SpKept(c)' = SpKept(c)
  BY DEF SpKept, Own, HeaderBoot, ClearsBoot, BootInHeader
<1>4. \A p \in Procs : FreshCall(call[p], p, flash, spMutex, faults)'
                         <=> FreshCall(call'[p], p, flash', spMutex', faults')
  BY <1>1, <1>2, <1>3 DEF FreshCall
<1> QED
  BY <1>4 DEF Fresh

LEMMA FreshIdle == \A p, f, m, n : FreshCall(Idle, p, f, m, n)
BY DEF FreshCall, Idle

LEMMA FreshInit == Init => Fresh
BY FreshIdle DEF Init, Fresh

\* Calls that do nothing yet, or no longer, with data of others.
LEMMA FreshElse ==
  ASSUME NEW c, NEW p, NEW f, NEW m, NEW n, c.at # "set",
         c.op \in {"backup", "wlan"} => c.item = c.op,
         c.at = "get" => c.op \notin SpOps \cup {"wlan"}
  PROVE  FreshCall(c, p, f, m, n)
BY DEF FreshCall, SpOps

\* A step of p that leaves the flash alone.
LEMMA FreshQuiet ==
  ASSUME Fresh, NEW p \in Procs, \A q \in Procs \ {p} : call'[q] = call[q],
         UNCHANGED <<geom, flash>>, faults' = 0 => faults = 0,
         \A q \in Procs \ {p} : spMutex = q => spMutex' = q,
         FreshCall(call'[p], p, flash', spMutex', faults')
  PROVE  Fresh'
<1>1. ASSUME NEW q \in Procs \ {p}
      PROVE  FreshCall(call'[q], q, flash', spMutex', faults')
  <2>1. FreshCall(call[q], q, flash, spMutex, faults)
    BY DEF Fresh
  <2> QED BY <2>1 DEF FreshCall
<1> QED
  BY <1>1, FreshNext

LEMMA StartFresh ==
  ASSUME IInv, Fresh, NEW p \in Procs, Start(p)
  PROVE  Fresh'
<1>1. call[p] = Idle /\ UNCHANGED <<geom, flash, spMutex, faults>>
  BY DEF Start
<1>2. PICK op \in uses \cap (IF p \in Users THEN UserOps ELSE KernelOps), v \in Val :
        \E i \in (IF op \in {"token", "delete"} THEN Tokens ELSE {ItemOf(op)}) : \E n :
          Goto(p, [at |-> FirstAt(op), op |-> op, item |-> i, val |-> v, nv |-> n,
                   buf |-> None, todo |-> {}])
  BY DEF Start
<1>3. PICK i \in (IF op \in {"token", "delete"} THEN Tokens ELSE {ItemOf(op)}) : \E n :
        Goto(p, [at |-> FirstAt(op), op |-> op, item |-> i, val |-> v, nv |-> n,
                 buf |-> None, todo |-> {}])
  BY <1>2
<1> PICK n : Goto(p, [at |-> FirstAt(op), op |-> op, item |-> i, val |-> v, nv |-> n,
                      buf |-> None, todo |-> {}])
  BY <1>3
<1> DEFINE c == [at |-> FirstAt(op), op |-> op, item |-> i, val |-> v, nv |-> n,
                 buf |-> None, todo |-> {}]
<1>4. call'[p] = c /\ \A q \in Procs \ {p} : call'[q] = call[q]
  BY DEF Goto, IInv, CallsOK
<1>5. c.at # "set" /\ (c.at = "get" => c.op \notin SpOps \cup {"wlan"})
  BY DEF FirstAt, NvramOps
<1>6. op \in {"backup", "wlan"} => i = op
  BY DEF ItemOf, Psi
<1>7. FreshCall(c, p, flash', spMutex', faults')
  <2>1. c.op = op /\ c.item = i
    OBVIOUS
  <2> HIDE DEF c
  <2> QED BY <1>5, <1>6, <2>1, FreshElse
<1> QED
  BY <1>1, <1>4, <1>7, FreshQuiet

LEMMA LockSpFresh ==
  ASSUME IInv, Fresh, NEW p \in Procs, LockSp(p)
  PROVE  Fresh'
<1> DEFINE c == [call[p] EXCEPT !.at = "get"]
<1>1. /\ call[p].at = "spMutex" /\ call' = [call EXCEPT ![p] = c]
      /\ spMutex = None /\ spMutex' = p /\ UNCHANGED <<geom, flash, faults>>
  BY DEF LockSp, Goto
<1>2. call'[p] = c /\ \A q \in Procs \ {p} : call'[q] = call[q]
  BY <1>1 DEF IInv, CallsOK
<1>3. call[p].op \in SpOps /\ IsCall(call[p])
  BY <1>1 DEF IInv, CallsOK, CallOK
<1>4. c.op = call[p].op /\ c.at = "get"
  BY <1>3 DEF IsCall
<1> HIDE DEF c
<1>5. FreshCall(c, p, flash', spMutex', faults')
  BY <1>1, <1>3, <1>4 DEF FreshCall, SpOps
<1>6. \A q \in Procs \ {p} : spMutex # q
  BY <1>1, NobodyIsNone
<1> QED
  BY <1>1, <1>2, <1>5, <1>6, FreshQuiet

\* The end of a call.
LEMMA ReturnFresh ==
  ASSUME IInv, NEW p \in Procs, Return(p)
  PROVE  /\ \A f, m, n : FreshCall(call'[p], p, f, m, n)
         /\ \A q \in Procs \ {p} : call'[q] = call[q] /\ (spMutex = q => spMutex' = q)
<1>1. call'[p] = Idle /\ \A q \in Procs \ {p} : call'[q] = call[q]
  BY ReturnCopy
<1>2. \A q \in Procs \ {p} : spMutex = q => spMutex' = q
  BY DEF Return, Unlocked
<1> QED
  BY <1>1, <1>2, FreshIdle

LEMMA NoMemoryFresh ==
  ASSUME IInv, Fresh, NEW p \in Procs, NoMemory(p)
  PROVE  Fresh'
<1>1. Return(p) /\ faults' = faults + 1 /\ UNCHANGED <<geom, flash>>
  BY DEF NoMemory
<1>2. faults' # 0
  BY <1>1, NoPrimeSem
<1> QED
  BY <1>1, <1>2, ReturnFresh, FreshQuiet

\* An operation of the nvram other than setUserNvRam.
LEMMA NvramElse ==
  ASSUME NEW c, NEW p, NEW f, NEW m, NEW n, c.op \in NvramOps \ {"wlan"}, c.at # "set"
  PROVE  FreshCall(c, p, f, m, n)
<1>1. c.op \notin {"backup", "wlan"} /\ c.op \notin SpOps
  BY DEF NvramOps, SpOps
<1> QED
  BY <1>1, FreshElse

\* With the nvram read under the lock, memory and flash agree.
LEMMA LockNvramFresh ==
  ASSUME IInv, Fresh, NEW p \in Procs, LockNvram(p)
  PROVE  Fresh'
<1>1. /\ call[p].at = "flashImageMutex" /\ flashImageMutex = None
      /\ UNCHANGED <<geom, flash, inMemNvramData, faults>>
  BY DEF LockNvram
<1>2. IsCall(call[p]) /\ call[p].op \in NvramOps
  BY <1>1 DEF IInv, CallsOK, CallOK
<1>3. CASE call[p].op \notin Copied /\ ~inMemNvramData.good
  BY <1>1, <1>3, ReturnFresh, FreshQuiet DEF LockNvram
<1>4. CASE ~(call[p].op \notin Copied /\ ~inMemNvramData.good) /\ call[p].op \in {"proc", "optic"}
  <2> DEFINE c == [call[p] EXCEPT !.at = "get"]
  <2>1. call' = [call EXCEPT ![p] = c] /\ spMutex' = spMutex
    BY <1>4 DEF LockNvram, Goto, Copied
  <2>2. call'[p] = c /\ \A q \in Procs \ {p} : call'[q] = call[q]
    BY <2>1 DEF IInv, CallsOK
  <2>3. c.op = call[p].op /\ c.at = "get"
    BY <1>2 DEF IsCall
  <2> HIDE DEF c
  <2>4. FreshCall(c, p, flash', spMutex', faults')
    BY <1>2, <1>4, <2>3, NvramElse
  <2> QED BY <1>1, <2>1, <2>2, <2>4, FreshQuiet
<1>5. CASE ~(call[p].op \notin Copied /\ ~inMemNvramData.good) /\ call[p].op = "wlan"
  <2> DEFINE n == [inMemNvramData EXCEPT !.wlan = call[p].val]
             c == [call[p] EXCEPT !.at = "get", !.nv = n]
  <2>1. call' = [call EXCEPT ![p] = c] /\ spMutex' = spMutex
    BY <1>5 DEF LockNvram, Goto, Copied
  <2>2. call'[p] = c /\ \A q \in Procs \ {p} : call'[q] = call[q]
    BY <2>1 DEF IInv, CallsOK
  <2>3. n["optic"] = inMemNvramData["optic"]
    BY DEF IInv, FlashOK, NvramData
  <2>4. c.op = call[p].op /\ c.at = "get" /\ c.item = call[p].item /\ c.nv = n
    <3> HIDE DEF n
    <3> QED BY <1>2 DEF IsCall
  <2>5. faults = 0 => inMemNvramData = flash[0]["nvram"]
    <3>1. \A q \in Procs : call[q].at # "update"
      BY <1>1, NobodyIsNone DEF IInv, CallsOK, CallOK
    <3> QED BY <3>1 DEF IInv, Agree
  <2>6. call[p].item = "wlan"
    BY <1>5 DEF Fresh, FreshCall
  <2> HIDE DEF c, n
  <2>7. FreshCall(c, p, flash', spMutex', faults')
    BY <1>1, <1>5, <2>3, <2>4, <2>5, <2>6 DEF FreshCall, SpOps
  <2> QED BY <1>1, <2>1, <2>2, <2>7, FreshQuiet
<1>6. CASE ~(call[p].op \notin Copied /\ ~inMemNvramData.good) /\ call[p].op = "cfe"
  <2> DEFINE u == [b \in NvramBlks |-> [i \in ItemsAt(b) |-> BadNvram]]
             n == inMemNvramData
             c == [call[p] EXCEPT !.at = "set", !.nv = n, !.todo = NvramBlks, !.buf = u]
  <2>1. call' = [call EXCEPT ![p] = c] /\ spMutex' = spMutex
    BY <1>6 DEF LockNvram, Goto, Copied
  <2>2. call'[p] = c /\ \A q \in Procs \ {p} : call'[q] = call[q]
    BY <2>1 DEF IInv, CallsOK
  <2>3. c.op = "cfe" /\ c.todo = NvramBlks
    <3> HIDE DEF u, n
    <3> QED BY <1>2, <1>6 DEF IsCall
  <2>4. OpBlks("cfe") = NvramBlks
    BY DEF OpBlks, Psi, SpOps, NvramOps
  <2> HIDE DEF c
  <2>5. FreshCall(c, p, flash', spMutex', faults')
    BY <2>3, <2>4 DEF FreshCall, SpOps
  <2> QED BY <1>1, <2>1, <2>2, <2>5, FreshQuiet
<1> QED
  BY <1>2, <1>3, <1>4, <1>5, <1>6 DEF NvramOps

\* What a call of the scratch pad keeps, its buffer has from the flash.
LEMMA BufferKeeps ==
  ASSUME NEW c, NEW inPlace, c.op \in SpOps, SpBlk \in OpBlks(c.op)
  PROVE  \A i \in SpKept(c) : Buffer(c, inPlace)[SpBlk][i] = flash[SpBlk][i]
<1> SUFFICES ASSUME NEW i \in SpKept(c)
             PROVE  Buffer(c, inPlace)[SpBlk][i] = flash[SpBlk][i]
  OBVIOUS
<1>1. i \in SpItems /\ i \notin Own(c) /\ i \notin HeaderBoot(c)
  BY DEF SpKept
<1>2. "boot" \notin Tokens /\ "nvram" \notin SpItems
  BY FlashStoreAssumption, NotTokens
<1>3. SpBlk \in ItemBlks(i) /\ i \in Items
  BY <1>1, NotTokens DEF ItemBlks, SpBlk, Items
<1>4. Buffer(c, inPlace)[SpBlk][i] = Changed(c, SpBlk, i, inPlace)
  BY <1>3 DEF Buffer, ItemsAt
<1>5. c.op = "clear" => i \notin Tokens /\ (ClearsBoot => i # "boot")
  BY <1>1 DEF Own, Psi
<1>6. c.op # "clear" => i # c.item
  BY <1>1 DEF Own, Psi, SpOps
<1>7. c.op \in {"token", "delete"} /\ i = "boot" => ~BootInHeader
  BY <1>1 DEF HeaderBoot
<1>8. Changed(c, SpBlk, i, inPlace) = flash[SpBlk][i]
  BY <1>1, <1>2, <1>5, <1>6, <1>7 DEF Changed
<1> QED
  BY <1>4, <1>8

LEMMA GetFresh ==
  ASSUME IInv, Fresh, NEW p \in Procs, Get(p)
  PROVE  Fresh'
<1>1. call[p].at = "get" /\ UNCHANGED <<geom, flash, faults>>
  BY DEF Get
<1>2. IsCall(call[p]) /\ call[p].op \in Ops /\ FreshCall(call[p], p, flash, spMutex, faults) /\ Place
  BY <1>1 DEF IInv, CallsOK, CallOK, Fresh
<1>3. CASE NoRoom(call[p]) \/ NoBootState(call[p])
  BY <1>1, <1>3, ReturnFresh, FreshQuiet DEF Get
<1>4. CASE ~(NoRoom(call[p]) \/ NoBootState(call[p]))
  <2>1. PICK inPlace \in {FALSE, InPlace(call[p])} :
          Goto(p, [call[p] EXCEPT !.at = "set", !.buf = Buffer(call[p], inPlace),
                     !.todo = OpBlks(call[p].op), !.val = None, !.nv = None])
    BY <1>4 DEF Get
  <2> DEFINE u == Buffer(call[p], inPlace)
             c == [call[p] EXCEPT !.at = "set", !.buf = u, !.todo = OpBlks(call[p].op),
                     !.val = None, !.nv = None]
  <2>2. call'[p] = c /\ spMutex' = spMutex /\ \A q \in Procs \ {p} : call'[q] = call[q]
    BY <1>4, <2>1 DEF Goto, Get, IInv, CallsOK
  <2>3. /\ c.at = "set" /\ c.op = call[p].op /\ c.item = call[p].item /\ c.buf = u
        /\ c.todo = OpBlks(c.op)
    <3> HIDE DEF u
    <3> QED BY <1>2 DEF IsCall
  <2>4. call[p].op \in SpOps /\ SpBlk \in OpBlks(call[p].op) =>
          \A i \in SpKept(call[p]) : u[SpBlk][i] = flash[SpBlk][i]
    BY BufferKeeps
  <2>5. call[p].op = "wlan" => u[0]["nvram"] = call[p].nv
    <3> SUFFICES ASSUME call[p].op = "wlan" PROVE u[0]["nvram"] = call[p].nv
      OBVIOUS
    <3>1. OpBlks(call[p].op) = {0} /\ "nvram" \in ItemsAt(0)
      BY <1>2, PlaceFacts, OpBlksFacts DEF NvramOps
    <3>2. u[0]["nvram"] = Changed(call[p], 0, "nvram", inPlace)
      BY <3>1 DEF Buffer
    <3>3. call[p].item = "wlan"
      BY <1>2 DEF FreshCall
    <3> QED BY <3>2, <3>3, NotTokens DEF Changed
  <2> HIDE DEF c, u
  <2>6. SpKept(c) = SpKept(call[p])
    BY <2>3 DEF SpKept, Own, HeaderBoot
  <2>7. FreshCall(c, p, flash', spMutex', faults')
    BY <1>1, <1>2, <2>2, <2>3, <2>4, <2>5, <2>6 DEF FreshCall
  <2> QED BY <1>1, <2>2, <2>7, FreshQuiet
<1> QED
  BY <1>3, <1>4

LEMMA StoreOrigFresh ==
  ASSUME IInv, NEW p \in Procs, StoreOrig(p), call[p].op = "cfe", IsCall(call[p])
  PROVE  /\ \A f, m, n : FreshCall(call'[p], p, f, m, n)
         /\ \A q \in Procs \ {p} : call'[q] = call[q]
<1> DEFINE c == [call[p] EXCEPT !.at = "get", !.buf = None, !.todo = {}]
<1>1. call'[p] = c /\ \A q \in Procs \ {p} : call'[q] = call[q]
  BY DEF StoreOrig, Goto, IInv, CallsOK
<1>2. c.op = "cfe" /\ c.at = "get"
  BY DEF IsCall
<1> HIDE DEF c
<1> QED
  BY <1>1, <1>2, NvramElse DEF NvramOps

LEMMA UpdateFresh ==
  ASSUME IInv, Fresh, NEW p \in Procs, Update(p)
  PROVE  Fresh'
<1>1. /\ call[p].at = "update" /\ UNCHANGED <<geom, flash, faults>>
      /\ inMemNvramData' = call[p].buf[0]["nvram"]
  BY DEF Update
<1>2. IsCall(call[p]) /\ call[p].op \in NvramOps /\ NvOK(call[p])
  BY <1>1 DEF IInv, CallsOK, CallOK
<1>3. CASE inMemNvramData'.good
  BY <1>1, <1>3, ReturnFresh, FreshQuiet DEF Update
<1>4. CASE ~inMemNvramData'.good
  <2>1. StoreOrig(p) /\ spMutex' = spMutex
    BY <1>4 DEF Update
  <2>2. call[p].op = "cfe"
    BY <1>1, <1>2, <1>4, NvramFacts DEF NvOK
  <2> QED BY <1>1, <1>2, <2>1, <2>2, StoreOrigFresh, FreshQuiet
<1> QED
  BY <1>3, <1>4

-----------------------------------------------------------------------------
(* Steps that write.                                                       *)

\* Process p writes u to its next sector.
Puts(p, u) == flash' = [flash EXCEPT ![LowestOf(call[p].todo)] = u]

\* A sector written is that of the nvram, or one that the operation writes.
LEMMA WritesItsOwn ==
  ASSUME IInv, Fresh, NEW p \in Procs, call[p].at = "set", NEW u,
         Puts(p, u)
  PROVE  LET b == LowestOf(call[p].todo) IN
         /\ call[p].op \in Ops /\ b \in OpBlks(call[p].op) /\ b \in call[p].todo
         /\ \A a \in 0 .. geom.nsect-1 : flash'[a] = IF a = b THEN u ELSE flash[a]
         /\ 0 \in 0 .. geom.nsect-1 /\ SpBlk \in 0 .. geom.nsect-1
         /\ b = 0 => call[p].op \in NvramOps
         /\ b = SpBlk /\ ~SpShared(geom) => call[p].op \in SpOps /\ spMutex = p
<1> DEFINE b == LowestOf(call[p].todo)
<1>1. Place /\ CallsOK /\ FlashOK /\ FreshCall(call[p], p, flash, spMutex, faults)
  BY DEF IInv, Fresh
<1>2. call[p].op \in Ops
  BY <1>1 DEF CallsOK, CallOK
<1>3. b \in call[p].todo /\ (b = 0 <=> call[p].op \in NvramOps)
  BY <1>1, NextBlk
<1>7. \A a \in 0 .. geom.nsect-1 : flash'[a] = IF a = b THEN u ELSE flash[a]
  BY <1>1 DEF FlashOK, Puts
<1> HIDE DEF b
<1>4. b \in OpBlks(call[p].op)
  BY <1>1, <1>3 DEF FreshCall
<1>5. 0 \in 0 .. geom.nsect-1 /\ SpBlk \in 1 .. geom.nsect-1 /\ geom.nsect \in Nat
  BY <1>1, PlaceFacts, SectorFacts
<1>6. b = SpBlk /\ ~SpShared(geom) => call[p].op \in SpOps
  BY <1>1, <1>2, <1>4, <1>5, OpSectors, SectorFacts
<1>8. call[p].op \in SpOps => spMutex = p
  BY <1>1 DEF FreshCall
<1>9. SpBlk \in 0 .. geom.nsect-1
  BY <1>5
<1> QED
  BY <1>2, <1>3, <1>4, <1>5, <1>6, <1>7, <1>8, <1>9 DEF b

\* The others have a lock each on what they have read.
LEMMA FreshWrite ==
  ASSUME IInv, Fresh, NEW p \in Procs, call[p].at = "set", NEW u,
         Puts(p, u),
         geom' = geom, \A q \in Procs \ {p} : call'[q] = call[q] /\ (spMutex = q => spMutex' = q),
         faults' = 0 => faults = 0,
         FreshCall(call'[p], p, flash', spMutex', faults')
  PROVE  Fresh'
<1> DEFINE b == LowestOf(call[p].todo)
<1>1. /\ \A a \in 0 .. geom.nsect-1 : flash'[a] = IF a = b THEN u ELSE flash[a]
      /\ 0 \in 0 .. geom.nsect-1 /\ SpBlk \in 0 .. geom.nsect-1
      /\ b = 0 => call[p].op \in NvramOps
      /\ b = SpBlk /\ ~SpShared(geom) => spMutex = p
  <2>1. /\ \A a \in 0 .. geom.nsect-1 : flash'[a] = IF a = b THEN u ELSE flash[a]
        /\ 0 \in 0 .. geom.nsect-1 /\ SpBlk \in 0 .. geom.nsect-1
    BY WritesItsOwn
  <2>2. b = 0 => call[p].op \in NvramOps
    BY WritesItsOwn
  <2>3. b = SpBlk /\ ~SpShared(geom) => spMutex = p
    BY WritesItsOwn
  <2> QED BY <2>1, <2>2, <2>3
<1> HIDE DEF b
<1>2. b = 0 => flashImageMutex = p
  BY <1>1 DEF IInv, CallsOK, CallOK
<1>3. ASSUME NEW q \in Procs \ {p}
      PROVE  FreshCall(call'[q], q, flash', spMutex', faults')
  <2>1. FreshCall(call[q], q, flash, spMutex, faults) /\ call'[q] = call[q]
    BY DEF Fresh
  <2>2. ASSUME call[q].at = "set", call[q].op \in SpOps, ~SpShared(geom)
        PROVE  flash'[SpBlk] = flash[SpBlk]
    BY <1>1, <2>1, <2>2 DEF FreshCall
  <2>3. ASSUME call[q].op = "wlan", call[q].at \in {"get", "set"}
        PROVE  flash'[0] = flash[0]
    <3>1. flashImageMutex = q
      BY <2>3 DEF IInv, CallsOK, CallOK, NvramOps
    <3> QED BY <1>1, <1>2, <3>1
  <2> QED BY <2>1, <2>2, <2>3 DEF FreshCall
<1> QED
  BY <1>3, FreshNext

LEMMA WriteBlkFresh ==
  ASSUME IInv, Fresh, NEW p \in Procs, WriteBlk(p)
  PROVE  Fresh' /\ call'[p] # call[p]
<1> DEFINE c == call[p]
           b == LowestOf(c.todo)
           more == [c EXCEPT !.todo = @ \ {b}]
<1>1. /\ c.at = "set" /\ Puts(p, c.buf[b])
      /\ geom' = geom /\ faults' = faults
  BY DEF WriteBlk, Puts
<1>2. /\ IsCall(c) /\ CallOK(c, p, flashImageMutex) /\ FreshCall(c, p, flash, spMutex, faults)
      /\ call = [q \in Procs |-> call[q]]
  BY <1>1 DEF IInv, CallsOK, CallOK, Fresh
<1>3. /\ b \in c.todo /\ SpBlk \in 0 .. geom.nsect-1
      /\ \A a \in 0 .. geom.nsect-1 : flash'[a] = IF a = b THEN c.buf[b] ELSE flash[a]
  BY <1>1, WritesItsOwn
<1>4. CASE c.todo # {b}
  <2>1. Goto(p, more) /\ spMutex' = spMutex
    BY <1>4 DEF WriteBlk
  <2>2. call'[p] = more /\ \A q \in Procs \ {p} : call'[q] = call[q]
    BY <1>2, <2>1 DEF Goto
  <2>3. more.at = "set" /\ more.op = c.op /\ more.item = c.item /\ more.buf = c.buf
        /\ more.todo = c.todo \ {b}
    BY <1>1, <1>2 DEF IsCall
  <2>4. c.op \notin NvramOps
    BY <1>1, <1>2, <1>3, <1>4 DEF CallOK
  <2> HIDE DEF more, c, b
  <2>5. SpKept(more) = SpKept(c)
    BY <2>3 DEF SpKept, Own, HeaderBoot
  <2>6. SpBlk \in more.todo => flash'[SpBlk] = flash[SpBlk] /\ SpBlk \in c.todo
    BY <1>3, <2>3
  <2>7. FreshCall(more, p, flash', spMutex', faults')
    <3>1. more.op # "wlan"
      BY <2>3, <2>4 DEF NvramOps
    <3> QED BY <1>1, <1>2, <2>1, <2>3, <2>5, <2>6, <3>1 DEF FreshCall
  <2>8. more # c
    BY <1>3, <2>3
  <2> USE DEF c, b
  <2> QED BY <1>1, <2>1, <2>2, <2>7, <2>8, FreshWrite
<1>5. CASE c.todo = {b} /\ Return(p)
  <2>1. call'[p] = Idle
    BY <1>5, ReturnCopy
  <2>2. call'[p] # call[p]
    BY <1>1, <2>1 DEF Idle
  <2> QED BY <1>1, <1>5, <2>2, ReturnFresh, FreshWrite
<1>6. ASSUME NEW x \in {"update", "restart"}, Goto(p, [c EXCEPT !.at = x, !.todo = {}]),
             spMutex' = spMutex
      PROVE  Fresh' /\ call'[p] # call[p]
  <2> DEFINE d == [c EXCEPT !.at = x, !.todo = {}]
  <2>1. call'[p] = d /\ \A q \in Procs \ {p} : call'[q] = call[q]
    BY <1>2, <1>6 DEF Goto
  <2>2. d.at = x /\ d.op = c.op /\ d.item = c.item
    BY <1>2 DEF IsCall
  <2> HIDE DEF d
  <2>3. FreshCall(d, p, flash', spMutex', faults')
    <3>1. d.at # "set" /\ d.at # "get"
      BY <2>2
    <3>2. d.op \in {"backup", "wlan"} => d.item = d.op
      BY <1>2, <2>2 DEF FreshCall
    <3> QED BY <3>1, <3>2, FreshElse
  <2>4. call'[p] # call[p]
    BY <1>1, <2>1, <2>2
  <2> QED BY <1>1, <1>6, <2>1, <2>3, <2>4, FreshWrite
<1>7. c.todo = {b} => \/ Return(p)
                      \/ \E x \in {"update", "restart"} :
                           Goto(p, [c EXCEPT !.at = x, !.todo = {}]) /\ spMutex' = spMutex
  BY DEF WriteBlk, Written
<1> QED
  BY <1>4, <1>5, <1>6, <1>7

LEMMA WriteFailsFresh ==
  ASSUME IInv, Fresh, NEW p \in Procs, WriteFails(p)
  PROVE  Fresh'
<1>1. /\ call[p].at = "set" /\ faults' = faults + 1 /\ TornBlk(p) /\ geom' = geom
      /\ IF call[p].op = "cfe" /\ ~call[p].buf[0]["nvram"].good
         THEN StoreOrig(p) /\ spMutex' = spMutex ELSE Return(p)
  BY DEF WriteFails
<1>2. PICK u : Puts(p, u)
  BY <1>1 DEF TornBlk, Puts
<1>3. faults' # 0 /\ IsCall(call[p])
  BY <1>1, NoPrimeSem DEF IInv, CallsOK, CallOK
<1> QED
  BY <1>1, <1>2, <1>3, ReturnFresh, StoreOrigFresh, FreshWrite

LEMMA RestartedFresh == Restarted => Fresh'
BY FreshNext, FreshIdle DEF Restarted

LEMMA FreshStep == IInv /\ Fresh /\ [Next]_vars => Fresh'
<1> SUFFICES ASSUME IInv, Fresh, [Next]_vars PROVE Fresh'
  OBVIOUS
<1>1. ASSUME NEW p \in Procs,
             \/ Start(p) \/ LockSp(p) \/ LockNvram(p) \/ Get(p) \/ NoMemory(p)
             \/ WriteBlk(p) \/ WriteFails(p) \/ Update(p)
      PROVE  Fresh'
  BY <1>1, StartFresh, LockSpFresh, LockNvramFresh, GetFresh, NoMemoryFresh, WriteBlkFresh,
     WriteFailsFresh, UpdateFresh
<1>2. CASE PowerCut \/ \E p \in Procs : Restart(p)
  BY <1>2, RestartedFresh DEF PowerCut, Restart
<1>3. CASE UNCHANGED vars
  <2>1. UNCHANGED <<geom, flash, spMutex, call, faults>>
    BY <1>3 DEF vars
  <2> QED BY <2>1, FreshNext DEF Fresh
<1> QED
  BY <1>1, <1>2, <1>3 DEF Next

-----------------------------------------------------------------------------
(* What a sector written changes.                                          *)

\* A store has the values it had when the sectors it lies in have them.
LEMMA SameStored ==
  ASSUME geom' = geom, NEW i,
         IF i \in NvramFields THEN flash'[0]["nvram"][i] = flash[0]["nvram"][i]
         ELSE \A a \in ItemBlks(i) : flash'[a][i] = flash[a][i]
  PROVE  Stored(i)' = Stored(i)
<1>1. ItemBlks(i)' = ItemBlks(i)
  BY SameBlks
<1>2. CASE i \in NvramFields
  BY <1>2 DEF Stored
<1>3. CASE i \notin NvramFields
  <2>1. {flash'[a][i] : a \in ItemBlks(i)} = {flash[a][i] : a \in ItemBlks(i)}
    BY <1>3
  <2> QED BY <1>1, <1>3, <2>1 DEF Stored
<1> QED
  BY <1>2, <1>3

LEMMA OpenTo ==
  ASSUME NEW c, c.op \in Psi \cup SpOps
  PROVE  /\ SpShared(geom) => SpItems \cup {"psi"} \subseteq Unguarded(c)
         /\ HeaderBoot(c) \subseteq Unguarded(c)
<1>1. Unguarded(c) = (IF SpShared(geom) THEN SpItems \cup {"psi"} ELSE {}) \cup HeaderBoot(c)
  BY DEF Unguarded, HeaderBoot, Psi, SpOps, NvramOps
<1> QED
  BY <1>1

\* A sector written has what others stored in it.
LEMMA OthersLeft ==
  ASSUME IInv, Fresh, NEW p \in Procs, call[p].at = "set",
         Puts(p, call[p].buf[LowestOf(call[p].todo)]),
         NEW i \in Items \ {"nvram"}, i \notin Own(call[p]) \cup Unguarded(call[p]),
         NEW a \in ItemBlks(i)
  PROVE  flash'[a][i] = flash[a][i]
<1> DEFINE c == call[p]
           b == LowestOf(c.todo)
<1>1. /\ c.op \in Ops /\ b \in OpBlks(c.op) /\ b \in c.todo
      /\ \A x \in 0 .. geom.nsect-1 : flash'[x] = IF x = b THEN c.buf[b] ELSE flash[x]
  BY WritesItsOwn
<1>2. Place /\ FreshCall(c, p, flash, spMutex, faults)
  BY DEF IInv, Fresh
<1>3. a \in 1 .. geom.nsect-1 /\ geom.nsect \in Nat
  BY <1>2, ItemSectors, PlaceFacts
<1>4. c.at = "set" /\ i \notin Own(c) /\ i \notin Unguarded(c)
  OBVIOUS
<1> HIDE DEF c, b
<1>5. CASE a # b
  BY <1>1, <1>3, <1>5
<1>6. CASE a = b /\ c.op \in Psi
  <2>1. i # "psi" /\ (SpShared(geom) => i \notin SpItems)
    <3>1. Own(c) = {"psi"}
      BY <1>6 DEF Own, Psi
    <3>2. SpShared(geom) => SpItems \subseteq Unguarded(c)
      BY <1>6, OpenTo
    <3> QED BY <1>4, <3>1, <3>2
  <2>2. a \in PsiBlks /\ (~SpShared(geom) => a \notin SpBlks) /\ a \notin BackupBlks
    <3>1. a \in PsiBlks
      BY <1>1, <1>6, OpSectors DEF Psi, SpOps, NvramOps
    <3> QED BY <1>2, <3>1, SectorFacts
  <2>3. i \in SpItems => a \in SpBlks
    BY <1>2, ItemSectors, SectorFacts
  <2>4. i # "backup"
    BY <1>2, <2>2, ItemSectors
  <2> QED BY <2>1, <2>2, <2>3, <2>4 DEF Items
<1>7. CASE a = b /\ c.op = "backup"
  <2>1. i # "backup"
    <3>1. c.item = "backup"
      BY <1>2, <1>7 DEF FreshCall
    <3> QED BY <1>4, <1>7, <3>1 DEF Own, Psi
  <2>2. a \notin PsiBlks /\ a \notin SpBlks
    BY <1>1, <1>2, <1>7, OpSectors, SectorFacts DEF Psi, SpOps, NvramOps
  <2>3. i \in SpItems => a \in SpBlks
    BY <1>2, ItemSectors, SectorFacts
  <2>4. i # "psi"
    BY <1>2, <2>2, ItemSectors
  <2> QED BY <2>1, <2>2, <2>3, <2>4 DEF Items
<1>8. CASE a = b /\ c.op \in SpOps
  <2>1. a \in SpBlks /\ a \notin BackupBlks
    BY <1>1, <1>2, <1>8, OpSectors, SectorFacts
  <2>2. ~SpShared(geom)
    <3>1. SpShared(geom) => i \notin SpItems \cup {"psi"}
      BY <1>4, <1>8, OpenTo
    <3>2. i # "backup"
      BY <1>2, <2>1, ItemSectors
    <3> QED BY <3>1, <3>2 DEF Items
  <2>3. i \in SpItems /\ a = SpBlk
    <3>1. i # "backup" /\ i # "psi"
      BY <1>2, <2>1, <2>2, ItemSectors, SectorFacts
    <3>2. i \in SpItems
      BY <3>1 DEF Items
    <3> QED BY <1>2, <3>2, ItemSectors
  <2>4. i \in SpKept(c)
    <3>1. i \notin HeaderBoot(c)
      BY <1>4, <1>8, OpenTo
    <3> QED BY <1>4, <2>3, <3>1 DEF SpKept
  <2>5. c.buf[SpBlk][i] = flash[SpBlk][i]
    BY <1>1, <1>2, <1>4, <1>8, <2>2, <2>3, <2>4 DEF FreshCall
  <2> QED BY <1>1, <1>3, <1>8, <2>3, <2>5
<1>9. a = b => c.op \notin NvramOps
  BY <1>1, <1>3, OpSectors
<1> QED
  BY <1>1, <1>5, <1>6, <1>7, <1>8, <1>9, OpSectors

\* The nvram's fields: setUserNvRam sets one of them.
LEMMA FieldsLeft ==
  ASSUME IInv, Fresh, NEW p \in Procs, call[p].at = "set",
         Puts(p, call[p].buf[LowestOf(call[p].todo)]),
         NEW i \in NvramFields, i \notin Own(call[p]) \cup Unguarded(call[p])
  PROVE  flash'[0]["nvram"][i] = flash[0]["nvram"][i]
<1> DEFINE c == call[p]
           b == LowestOf(c.todo)
<1>1. /\ 0 \in 0 .. geom.nsect-1 /\ (b = 0 => c.op \in NvramOps)
      /\ \A x \in 0 .. geom.nsect-1 : flash'[x] = IF x = b THEN c.buf[b] ELSE flash[x]
  BY WritesItsOwn
<1>2. FreshCall(c, p, flash, spMutex, faults) /\ faults \in Nat
  BY NoPrimeSem DEF Fresh
<1>3. c.at = "set" /\ i \notin Own(c) /\ i \notin Unguarded(c)
  OBVIOUS
<1> HIDE DEF c, b
<1>4. CASE b # 0
  BY <1>1, <1>4
<1>5. CASE b = 0
  <2>1. c.op \notin Copied /\ faults = 0
    BY <1>1, <1>2, <1>3, <1>5 DEF Unguarded, NvramOps, Psi, SpOps
  <2>2. c.op # "cfe"
    BY <1>3 DEF Own, Psi
  <2>3. c.op = "wlan" /\ c.item = "wlan"
    BY <1>1, <1>2, <1>5, <2>1, <2>2 DEF NvramOps, Copied, FreshCall
  <2>4. i = "optic"
    BY <1>3, <2>3 DEF Own, Psi, NvramFields
  <2> QED BY <1>1, <1>2, <1>3, <1>5, <2>1, <2>3, <2>4 DEF FreshCall
<1> QED
  BY <1>4, <1>5

LEMMA KeptStep ==
  ASSUME IInv, CopyInv, Fresh, [Next]_vars, NEW i \in Stores, Stored(i)' # Stored(i)
  PROVE  \/ faults' # faults
         \/ \E p \in Procs : Writes(p) /\ i \in Own(call[p]) \cup Unguarded(call[p])
<1>1. geom' = geom
  BY DEF Next, vars, Start, LockSp, LockNvram, Get, NoMemory, WriteBlk, WriteFails, Update,
         Restart, Restarted, PowerCut
<1>2. ASSUME flash' = flash
      PROVE  FALSE
  BY <1>1, <1>2, SameStored
<1>3. ASSUME NEW p \in Procs, WriteBlk(p)
      PROVE  Writes(p) /\ i \in Own(call[p]) \cup Unguarded(call[p])
  <2>1. /\ call[p].at = "set"
        /\ Puts(p, call[p].buf[LowestOf(call[p].todo)])
    BY <1>3 DEF WriteBlk, Puts
  <2>2. Writes(p)
    BY <1>3, <2>1, WriteBlkFresh DEF Writes
  <2>3. ASSUME i \notin Own(call[p]) \cup Unguarded(call[p])
        PROVE  FALSE
    <3>1. CASE i \in NvramFields
      BY <1>1, <2>1, <2>3, <3>1, FieldsLeft, SameStored
    <3>2. CASE i \notin NvramFields
      <4>1. i \in Items \ {"nvram"}
        BY <3>2 DEF Stores
      <4>2. \A a \in ItemBlks(i) : flash'[a][i] = flash[a][i]
        BY <2>1, <2>3, <4>1, OthersLeft
      <4> QED BY <1>1, <3>2, <4>2, SameStored
    <3> QED BY <3>1, <3>2
  <2> QED BY <2>2, <2>3
<1>4. ASSUME NEW p \in Procs, WriteFails(p)
      PROVE  faults' # faults
  BY <1>4, NoPrimeSem DEF WriteFails
<1>5. ASSUME PowerCut
      PROVE  faults' # faults
  <2>1. CASE AllIdle
    <3>1. \A p \in Procs : call[p].at # "set"
      BY <2>1 DEF AllIdle, Idle
    <3> QED BY <1>2, <1>5, <3>1 DEF PowerCut
  <2>2. CASE ~AllIdle
    BY <1>5, <2>2, NoPrimeSem DEF PowerCut
  <2> QED BY <2>1, <2>2
<1>6. ASSUME NEW p \in Procs,
             \/ Start(p) \/ LockSp(p) \/ LockNvram(p) \/ Get(p) \/ NoMemory(p)
             \/ Update(p) \/ Restart(p)
      PROVE  FALSE
  BY <1>2, <1>6 DEF Start, LockSp, LockNvram, Get, NoMemory, Update, Restart
<1>7. ASSUME UNCHANGED vars
      PROVE  FALSE
  BY <1>2, <1>7 DEF vars
<1> QED
  BY <1>3, <1>4, <1>5, <1>6, <1>7 DEF Next

\* Every call leaves the stores of the others alone: for any number of users and
\* kernel threads and any board.
THEOREM OthersKeptAlways == Spec => OthersKept
<1>1. Init => Fresh
  BY FreshInit
<1>2. IInv /\ Fresh /\ [Next]_vars => Fresh'
  BY FreshStep
<1>3. Spec => []Fresh
  BY <1>1, <1>2, Invariance, PTL DEF Spec
<1>4. Spec => []CopyInv
  BY CopyInit, CopyStep, Invariance, PTL DEF Spec
<1>5. IInv /\ CopyInv /\ Fresh /\ [Next]_vars =>
        [\A i \in Stores : Stored(i)' # Stored(i) =>
           \/ faults' # faults
           \/ \E p \in Procs : Writes(p) /\ i \in Own(call[p]) \cup Unguarded(call[p])]_vars
  BY KeptStep
<1> QED
  BY <1>3, <1>4, <1>5, Invariance, PTL DEF Spec, OthersKept

=============================================================================
