-------------------------- MODULE FlashStoreProofs --------------------------
(***************************************************************************)
(* Proofs about module FlashStore, for any boards, processes and tokens.   *)
(* The stores lie apart on every board: the first section is about module  *)
(* FlashLayout. The nvram in the flash and its copy in memory agree        *)
(* because a call writes the nvram's sector only under flashImageMutex     *)
(* (CallOK), and no other store has a part of that sector (Place).         *)
(***************************************************************************)
EXTENDS FlashStore, WellFoundedInduction, TLAPS

(***************************************************************************)
(* The layout of module FlashLayout is sound for every geometry whose      *)
(* areas fit: no area and no image reaches into another.  The rounding to  *)
(* sectors is the only difficulty; DivMod and DivBounds are about it.      *)
(***************************************************************************)

LEMMA DivMod ==
  ASSUME NEW a \in Int, NEW s \in Nat \ {0}
  PROVE  /\ a \div s \in Int
         /\ a % s \in 0 .. s-1
         /\ a = s * (a \div s) + (a % s)
BY SMT

\* The sector an offset lies in begins at or before it and ends after it.
LEMMA DivBounds ==
  ASSUME NEW a \in Int, NEW s \in Nat \ {0}
  PROVE  /\ a \div s \in Int
         /\ (a \div s) * s <= a
         /\ a < (a \div s) * s + s
BY DivMod, SMT

LEMMA MulLt ==
  ASSUME NEW a \in Int, NEW b \in Int, NEW s \in Nat \ {0}, a * s < b * s
  PROVE  a < b
BY SMT

LEMMA MulLe ==
  ASSUME NEW a \in Int, NEW b \in Int, NEW s \in Nat \ {0}, a <= b
  PROVE  a * s <= b * s
BY SMT

LEMMA NextMultiple ==
  ASSUME NEW q \in Int, NEW s \in Nat \ {0}
  PROVE  (q + 1) * s = s * q + s
BY SMT

\* An unsigned int, of something that is less than one word above or below nothing.
LEMMA Wraps ==
  ASSUME NEW w \in Nat \ {0}, NEW x \in Int
  PROVE  /\ x % w \in Int
         /\ 0 <= x /\ x < w => x % w = x
         /\ x < 0 /\ -w <= x => x % w = x + w
<1> DEFINE q == x \div w
           r == x % w
<1>1. q \in Int /\ r \in 0 .. w-1 /\ x = w * q + r
  BY DivMod
<1> HIDE DEF q, r
<1>2. r \in Int /\ 0 <= r /\ r < w /\ q * w = w * q /\ q * w \in Int /\ 1 * w = w /\ 0 * w = 0
      /\ (-1) * w = -w /\ (-2) * w = -w - w
  BY <1>1, SMT
<1>3. ASSUME 0 <= x, x < w
      PROVE  r = x
  <2>1. (-1) * w < q * w /\ q * w < 1 * w
    BY <1>1, <1>2, <1>3
  <2>2. -1 < q /\ q < 1
    BY <1>1, <2>1, MulLt
  <2>3. q = 0
    BY <1>1, <2>2
  <2> QED BY <1>1, <1>2, <2>3
<1>4. ASSUME x < 0, -w <= x
      PROVE  r = x + w
  <2>1. (-2) * w < q * w /\ q * w < 0 * w
    BY <1>1, <1>2, <1>4
  <2>2. -2 < q /\ q < 0
    BY <1>1, <2>1, MulLt
  <2>3. q = -1
    BY <1>1, <2>2
  <2> QED BY <1>1, <1>2, <2>3
<1> QED
  BY <1>2, <1>3, <1>4 DEF r

\* Enough sectors are counted off, and none when there is nothing to store.
LEMMA BlksForEnough ==
  ASSUME NEW g \in Geometry, NEW n \in Nat
  PROVE  /\ BlksFor(n, g) \in Nat
         /\ BlksFor(n, g) * g.sect >= n
<1> DEFINE s == g.sect
           q == BlksFor(n, g)
<1>1. s \in Nat \ {0}
  BY DEF Geometry
<1>2. q = (n + s - 1) \div s
  BY DEF BlksFor
<1>3. n + s - 1 \in Int /\ n + s - 1 >= 0
  BY <1>1
<1>4. q \in Int /\ q * s <= n + s - 1 /\ n + s - 1 < q * s + s
  BY <1>1, <1>2, <1>3, DivBounds
<1> HIDE DEF q
<1>5. (-1) * s < q * s
  BY <1>1, <1>3, <1>4
<1>6. -1 < q
  BY <1>1, <1>4, <1>5, MulLt
<1> QED
  BY <1>1, <1>4, <1>6 DEF q

-----------------------------------------------------------------------------
\* Where the PSI and the scratch pad come to lie.
LEMMA PsiPlace ==
  ASSUME NEW g \in Geometry
  PROVE  /\ PsiStartBlk(g) \in Int /\ PsiStartAddr(g) \in Int
         /\ PsiBlkOffset(g) = PsiStartAddr(g) - PsiStartBlk(g) * g.sect
         /\ PsiBlkOffset(g) \in 0 .. g.sect-1
<1> DEFINE s == g.sect
           P == PsiStartBlk(g)
           A == PsiStartAddr(g)
<1>1. s \in Nat \ {0} /\ g.nsect \in Nat /\ g.psi \in Nat
  BY DEF Geometry
<1>2. A = g.nsect * s - g.psi /\ A \in Int
  BY <1>1 DEF PsiStartAddr, Total
<1>3. P = A \div s
  BY DEF PsiStartBlk, BlkOf
<1>4. P \in Int /\ P * s <= A /\ A < P * s + s
  BY <1>1, <1>2, <1>3, DivBounds
<1>5. PsiBlkOffset(g) = (g.nsect - P) * s - g.psi
  BY DEF PsiBlkOffset, PsiNumBlk
<1> HIDE DEF P, A
<1>6. (g.nsect - P) * s - g.psi = A - P * s
  BY <1>1, <1>2, <1>4, SMT
<1> QED
  BY <1>1, <1>2, <1>4, <1>5, <1>6 DEF P, A

LEMMA SpPlace ==
  ASSUME NEW g \in Geometry, FlashLayoutAssumption
  PROVE  /\ SpStartBlk(g) \in Int
         /\ SpStartBlk(g) <= PsiStartBlk(g)
         /\ SpNumBlk(g) \in Int /\ SpNumBlk(g) >= 1
         /\ SpBlkOffset(g) \in 0 .. g.sect-1
         /\ SpFrom(g) = SpStartAddr(g)
         /\ SpFrom(g) \in Int
         /\ SpFrom(g) + SpMaxLen <= PsiStartAddr(g)
         /\ ~SpShared(g) => SpFrom(g) + SpMaxLen <= PsiStartBlk(g) * g.sect
<1> DEFINE s == g.sect
           P == PsiStartBlk(g)
           A == PsiStartAddr(g)
           O == PsiBlkOffset(g)
           B == SpStartAddr(g)
           S == SpStartBlk(g)
<1>1. s \in Nat \ {0} /\ SpMaxLen \in Nat \ {0}
  BY DEF Geometry, FlashLayoutAssumption
<1>2. P \in Int /\ A \in Int /\ O = A - P * s /\ O \in 0 .. s-1
  BY PsiPlace
<1>3. B = IF O > 0 /\ O < SpMaxLen THEN A - O - SpMaxLen ELSE A - SpMaxLen
  BY DEF SpStartAddr
<1>4. S = B \div s
  BY DEF SpStartBlk, BlkOf
<1>5. SpNumBlk(g) = IF S = P THEN 1 ELSE P - S
  BY DEF SpNumBlk, SpShared
<1>6. SpBlkOffset(g) = IF S = P THEN O - SpMaxLen ELSE SpNumBlk(g) * s - SpMaxLen
  BY DEF SpBlkOffset, SpShared
<1>7. SpFrom(g) = S * s + SpBlkOffset(g)
  BY DEF SpFrom
<1>8. SpShared(g) <=> S = P
  BY DEF SpShared
<1> HIDE DEF P, A, O, B, S
<1>9. B \in Int /\ B <= A - SpMaxLen
  BY <1>1, <1>2, <1>3
<1>10. S \in Int /\ S * s <= B /\ B < S * s + s
  BY <1>1, <1>4, <1>9, DivBounds
<1>11. CASE O >= SpMaxLen
  <2>1. B = A - SpMaxLen /\ P * s <= B
    BY <1>1, <1>2, <1>3, <1>11, SMT
  <2>2. P * s < (S + 1) * s /\ S * s < (P + 1) * s
    BY <1>1, <1>2, <1>10, <2>1, SMT
  <2>3. P < S + 1 /\ S < P + 1
    BY <1>1, <1>2, <1>10, <2>2, MulLt
  <2>4. S = P
    BY <1>2, <1>10, <2>3
  <2> QED
    BY <1>1, <1>2, <1>5, <1>6, <1>7, <1>8, <1>10, <1>11, <2>1, <2>4, SMT DEF P, A, O, B, S
<1>12. CASE O < SpMaxLen
  <2>1. B = P * s - SpMaxLen
    <3>1. P * s \in Int
      BY <1>1, <1>2
    <3>2. CASE O = 0
      BY <1>1, <1>2, <1>3, <3>1, <3>2
    <3>3. CASE O > 0
      BY <1>1, <1>2, <1>3, <1>12, <3>1, <3>3
    <3> QED
      BY <1>1, <1>2, <3>2, <3>3
  <2>2. S * s < P * s
    BY <1>1, <1>2, <1>10, <2>1, SMT
  <2>3. S < P
    BY <1>1, <1>2, <1>10, <2>2, MulLt
  <2>4. SpNumBlk(g) = P - S /\ SpBlkOffset(g) = (P - S) * s - SpMaxLen
    BY <1>2, <1>5, <1>6, <1>10, <2>3
  <2>5. (P - S) * s = P * s - S * s
    BY <1>1, <1>2, <1>10, SMT
  <2>6. SpBlkOffset(g) = B - S * s
    BY <1>1, <1>2, <1>10, <2>1, <2>4, <2>5, SMT
  <2>7. SpFrom(g) = B
    BY <1>1, <1>7, <1>9, <1>10, <2>6, SMT
  <2> QED
    BY <1>1, <1>2, <1>8, <1>9, <1>10, <2>1, <2>3, <2>4, <2>6, <2>7, SMT DEF P, A, O, B, S
<1> QED
  BY <1>1, <1>2, <1>11, <1>12

-----------------------------------------------------------------------------
LEMMA AuxPlace ==
  ASSUME NEW g \in Geometry, FlashLayoutAssumption, Fits(g), MetaStartBlk(g) \in Int
  PROVE  /\ AuxStartBlk(g) \in Int /\ AuxLen(g) \in Int
         /\ \E k \in Int : AuxLen(g) = k * g.sect
         /\ g.aux > 0 => BlkOf(g.rootfs, g) <= AuxStartBlk(g) /\ AuxStartBlk(g) < MetaStartBlk(g)
<1> DEFINE s == g.sect
           M == MetaStartBlk(g)
           R == BlkOf(g.rootfs, g)
           D == Total(g) - g.aux - Reserved(g)
           b == BlkOf(D, g)
<1>1. s \in Nat \ {0} /\ g.nsect \in Nat /\ g.aux \in Nat /\ g.rootfs \in Nat /\ M \in Int
  BY DEF Geometry
<1>2. Reserved(g) = (g.nsect - M) * s /\ Total(g) = g.nsect * s
  BY DEF Reserved, Total
<1>3. D = M * s - g.aux /\ D \in Int
  <2>1. (g.nsect - M) * s = g.nsect * s - M * s /\ M * s \in Int /\ g.nsect * s \in Int
    BY <1>1, SMT
  <2> QED
    BY <1>1, <1>2, <2>1
<1>4. b \in Int /\ b * s <= D /\ D < b * s + s
  BY <1>1, <1>3, DivBounds DEF BlkOf
<1>5. R \in Int /\ R * s <= g.rootfs /\ g.rootfs < R * s + s
  <2>1. R = g.rootfs \div s /\ g.rootfs \in Int
    BY <1>1 DEF BlkOf
  <2> QED
    BY <1>1, <2>1, DivBounds
<1>6. AuxStartBlk(g) = IF b + 1 < M /\ (b + 1 - R) % 2 = 0 THEN b + 1 ELSE b
  BY DEF AuxStartBlk
<1>7. AuxLen(g) = IF g.aux = 0 THEN 0 ELSE (M - AuxStartBlk(g)) * s
  BY DEF AuxLen
<1>8. g.aux > 0 => g.rootfs <= D
  BY <1>1, <1>2, <1>3 DEF Fits, Total, Reserved
<1> HIDE DEF M, R, D, b
<1>9. AuxStartBlk(g) \in Int
  BY <1>1, <1>4, <1>6
<1>10. \E k \in Int : AuxLen(g) = k * s
  <2>1. CASE g.aux = 0
    BY <1>1, <1>7, <2>1, 0 = 0 * s
  <2>2. CASE g.aux # 0
    BY <1>1, <1>7, <1>9, <2>2, M - AuxStartBlk(g) \in Int
  <2> QED
    BY <2>1, <2>2
<1>11. g.aux > 0 => R <= AuxStartBlk(g) /\ AuxStartBlk(g) < M
  <2> SUFFICES ASSUME g.aux > 0
               PROVE  R <= AuxStartBlk(g) /\ AuxStartBlk(g) < M
    OBVIOUS
  <2>0. (b + 1) * s = b * s + s /\ {b * s, R * s, M * s} \subseteq Int
    BY <1>1, <1>4, <1>5, SMT
  <2>1. R * s < (b + 1) * s /\ b * s < M * s
    <3>1. s \in Int /\ g.aux \in Int /\ g.rootfs \in Int /\ 0 < g.aux /\ g.rootfs <= D /\ D = M * s - g.aux
      BY <1>1, <1>3, <1>8
    <3> QED BY <1>3, <1>4, <1>5, <2>0, <3>1
  <2>2. R < b + 1 /\ b < M
    BY <1>1, <1>4, <1>5, <2>1, MulLt
  <2> QED
    BY <1>1, <1>4, <1>5, <1>6, <2>2
<1> QED
  BY <1>1, <1>9, <1>10, <1>11 DEF M, R

LEMMA MetaPlace ==
  ASSUME NEW g \in Geometry, FlashLayoutAssumption
  PROVE  /\ BackupNumBlk(g) \in Nat /\ SyslogNumBlk(g) \in Nat
         /\ BackupStartBlk(g) \in Int /\ MetaStartBlk(g) \in Int
         /\ BackupStartBlk(g) + BackupNumBlk(g) = SpStartBlk(g)
         /\ SyslogStartBlk(g) + SyslogNumBlk(g) = BackupStartBlk(g)
         /\ MetaStartBlk(g) <= PsiStartBlk(g)
         /\ g.backup => BackupNumBlk(g) * g.sect >= g.psi
         /\ SyslogNumBlk(g) * g.sect >= g.syslog
<1>1. g.psi \in Nat /\ g.syslog \in Nat
  BY DEF Geometry
<1>2. /\ BlksFor(g.psi, g) \in Nat /\ BlksFor(g.psi, g) * g.sect >= g.psi
      /\ BlksFor(g.syslog, g) \in Nat /\ BlksFor(g.syslog, g) * g.sect >= g.syslog
  BY <1>1, BlksForEnough
<1>3. SpStartBlk(g) \in Int /\ SpStartBlk(g) <= PsiStartBlk(g) /\ PsiStartBlk(g) \in Int
  BY SpPlace, PsiPlace
<1>4. BackupNumBlk(g) \in Nat /\ SyslogNumBlk(g) \in Nat
  BY <1>2 DEF BackupNumBlk, SyslogNumBlk
<1> QED
  BY <1>2, <1>3, <1>4 DEF BackupNumBlk, BackupStartBlk, SyslogNumBlk, SyslogStartBlk, MetaStartBlk

\* flash_init_info never lets two areas overlap, and only the scratch pad and
\* the PSI ever share a sector: for every flash and every size they fit in.
THEOREM LayoutDisjoint ==
  ASSUME NEW g \in Geometry, FlashLayoutAssumption, Fits(g)
  PROVE  AreasDisjoint(g)
<1>1. MetaStartBlk(g) \in Int
  BY MetaPlace
<1>2. /\ PsiStartBlk(g) \in Int /\ g.sect \in Nat /\ PsiStartAddr(g) \in Int
      /\ PsiStartBlk(g) * g.sect \in Int
  BY PsiPlace DEF Geometry
<1>3. PsiStartBlk(g) * g.sect + PsiBlkOffset(g) = PsiStartAddr(g)
  BY <1>2, PsiPlace
<1>4. /\ BackupStartBlk(g) + BackupNumBlk(g) <= SpStartBlk(g)
      /\ SyslogStartBlk(g) + SyslogNumBlk(g) <= BackupStartBlk(g)
  <2>1. SpStartBlk(g) \in Int /\ BackupStartBlk(g) \in Int
    BY MetaPlace, SpPlace
  <2>2. /\ BackupStartBlk(g) + BackupNumBlk(g) = SpStartBlk(g)
        /\ SyslogStartBlk(g) + SyslogNumBlk(g) = BackupStartBlk(g)
    BY MetaPlace
  <2> QED
    BY <2>1, <2>2
<1> QED
  BY <1>1, <1>3, <1>4, PsiPlace, SpPlace, MetaPlace, AuxPlace DEF AreasDisjoint

\* The middle of what the auxiliary file system leaves, and where the second image
\* begins: at most half a sector after it.
LEMMA HalfPlace ==
  ASSUME NEW g \in Geometry, FlashLayoutAssumption, Fits(g)
  PROVE  /\ Half(g) \in Int /\ 2 * Half(g) = Total(g) - AuxLen(g)
         /\ Image2Start(g) \in Int /\ Half(g) <= Image2Start(g)
         /\ 2 * (Image2Start(g) - Half(g)) <= g.sect
<1> DEFINE s == g.sect
           T == Total(g)
           X == AuxLen(g)
           H == Half(g)
           F == Image2Start(g)
<1>1. /\ s \in Nat \ {0} /\ g.nsect \in Nat /\ g.rootfs \in Nat /\ MetaStartBlk(g) \in Int
      /\ s % 2 = 0
  BY MetaPlace DEF Geometry, FlashLayoutAssumption, Fits
<1>2. PICK k \in Int : X = k * s
  BY <1>1, AuxPlace
<1>3. T = g.nsect * s /\ T \in Int /\ X \in Int
  BY <1>1, <1>2 DEF Total
<1>4. H = (T - X) \div 2
  BY DEF Half
<1>5. F = IF H % s = 0 THEN H ELSE (BlkOf(H, g) + 1) * s
  BY DEF Image2Start
<1>7. T - X = (g.nsect - k) * s
  BY <1>1, <1>2, <1>3, SMT
<1>8. PICK h \in Int : s = 2 * h
  <2>1. s = 2 * (s \div 2) + (s % 2) /\ s \div 2 \in Int
    <3>1. s \in Int /\ 2 \in Nat \ {0}
      BY <1>1
    <3> QED BY <3>1, DivMod
  <2> QED
    BY <1>1, <2>1
<1>9. T - X = 2 * ((g.nsect - k) * h)
  BY <1>1, <1>7, <1>8, SMT
<1> HIDE DEF T, X, H, F
<1>10. H = (g.nsect - k) * h /\ H \in Int /\ 2 * H = T - X
  <2>1. (g.nsect - k) * h \in Int
    BY <1>1, <1>8
  <2> QED
    BY <1>3, <1>4, <1>9, <2>1
<1>11. F >= H /\ F - H <= h /\ F \in Int
  <2> DEFINE q == H \div s
             r == H % s
  <2>1. q \in Int /\ r \in 0 .. s-1 /\ H = s * q + r
    BY <1>1, <1>10, DivMod
  <2>2. F = IF r = 0 THEN H ELSE (q + 1) * s
    BY <1>5 DEF BlkOf
  <2> HIDE DEF q, r
  <2>3. CASE r = 0
    BY <1>1, <1>8, <1>10, <2>2, <2>3
  <2>4. CASE r # 0
    <3>1. r = (g.nsect - k - 2 * q) * h /\ g.nsect - k - 2 * q \in Int /\ h \in Nat \ {0}
      BY <1>1, <1>8, <1>10, <2>1, SMT
    <3>2. 0 * h < (g.nsect - k - 2 * q) * h
      BY <2>1, <2>4, <3>1
    <3>3. 0 < g.nsect - k - 2 * q
      BY <3>1, <3>2, MulLt
    <3>4. h <= (g.nsect - k - 2 * q) * h
      <4>1. 1 <= g.nsect - k - 2 * q
        BY <3>1, <3>3
      <4> QED
        BY <3>1, <4>1, MulLe
    <3>5. F = s * q + s
      <4>1. (q + 1) * s = s * q + s
        BY <1>1, <2>1, NextMultiple
      <4> QED
        BY <2>2, <2>4, <4>1
    <3> QED
      BY <1>1, <1>8, <2>1, <3>1, <3>4, <3>5, SMT
  <2> QED
    BY <2>3, <2>4
<1> QED
  BY <1>3, <1>8, <1>10, <1>11 DEF T, X, H, F

\* What lies where, of the things that bound the images.
LEMMA Bounds ==
  ASSUME NEW g \in Geometry, FlashLayoutAssumption, Fits(g)
  PROVE  /\ {Total(g), Reserved(g), AuxLen(g)} \subseteq Nat
         /\ 0 < g.sect /\ g.sect <= Total(g) /\ 2 * TagLen <= g.sect
         /\ g.rootfs + Reserved(g) + AuxLen(g) <= Total(g)
<1> DEFINE s == g.sect
           T == Total(g)
           M == MetaStartBlk(g)
           R == BlkOf(g.rootfs, g)
           A == AuxStartBlk(g)
<1>1. /\ s \in Nat \ {0} /\ g.nsect \in Nat /\ g.rootfs \in Nat /\ g.aux \in Nat /\ g.psi \in Nat \ {0}
      /\ SpMaxLen \in Nat \ {0} /\ TagLen \in Nat
  BY DEF Geometry, FlashLayoutAssumption
<1>2. M \in Int /\ M <= PsiStartBlk(g) /\ PsiStartBlk(g) \in Int
  BY MetaPlace, PsiPlace
<1>3. T = g.nsect * s /\ T \in Int /\ Reserved(g) = (g.nsect - M) * s
  BY <1>1, <1>2 DEF Total, Reserved
<1>4. /\ A \in Int /\ AuxLen(g) \in Int /\ (g.aux > 0 => R <= A /\ A < M)
      /\ AuxLen(g) = IF g.aux = 0 THEN 0 ELSE (M - A) * s
  BY <1>2, AuxPlace DEF AuxLen
<1>5. R \in Int /\ R * s = g.rootfs /\ R <= M /\ 0 <= R
  <2>1. R = g.rootfs \div s /\ g.rootfs % s = 0
    BY <1>1 DEF BlkOf, Fits
  <2>2. R \in Int /\ g.rootfs = s * R + (g.rootfs % s)
    <3>1. g.rootfs \in Int
      BY <1>1
    <3> QED BY <1>1, <2>1, <3>1, DivMod
  <2>3. R * s = g.rootfs /\ (-1) * s < R * s
    <3>1. R * s = s * R /\ s * R \in Int /\ (-1) * s = -s
      BY <1>1, <2>2, SMT
    <3>2. g.rootfs = s * R
      BY <2>1, <2>2, <3>1
    <3> QED BY <1>1, <3>1, <3>2
  <2>4. -1 < R
    BY <1>1, <2>2, <2>3, MulLt
  <2>5. R <= M
    BY DEF Fits
  <2> QED BY <2>2, <2>3, <2>4, <2>5
<1>6. PsiStartAddr(g) = T - g.psi /\ PsiStartBlk(g) * s <= T
  <2>1. PsiStartAddr(g) = T - g.psi
    BY DEF PsiStartAddr
  <2>2. PsiStartBlk(g) = (T - g.psi) \div s /\ T - g.psi \in Int
    BY <1>1, <1>3, <2>1 DEF PsiStartBlk, BlkOf
  <2>3. PsiStartBlk(g) * s <= T - g.psi
    BY <1>1, <2>2, DivBounds
  <2> QED BY <1>1, <1>2, <1>3, <2>1, <2>3
<1>7. 0 < T /\ s <= T
  <2>1. 0 <= SpFrom(g) /\ SpFrom(g) \in Int /\ SpFrom(g) + SpMaxLen <= PsiStartAddr(g)
    BY SpPlace DEF Fits
  <2>2. 0 * s < g.nsect * s
    BY <1>1, <1>3, <1>6, <2>1
  <2>3. 1 <= g.nsect
    BY <1>1, <2>2, MulLt
  <2>4. 1 * s <= g.nsect * s
    BY <1>1, <2>3, MulLe
  <2> QED BY <1>1, <1>3, <2>4
<1> HIDE DEF T, M, R, A
<1>8. M <= g.nsect
  <2>1. M * s <= PsiStartBlk(g) * s /\ M * s \in Int /\ PsiStartBlk(g) * s \in Int
    BY <1>1, <1>2, MulLe
  <2>2. M * s < (g.nsect + 1) * s
    BY <1>1, <1>3, <1>6, <2>1, NextMultiple, SMT
  <2>3. M < g.nsect + 1
    BY <1>1, <1>2, <2>2, MulLt
  <2> QED BY <1>1, <1>2, <2>3
<1>9. Reserved(g) = T - M * s /\ M * s \in Int /\ 0 <= Reserved(g) /\ Reserved(g) \in Int
  <2>1. (g.nsect - M) * s = g.nsect * s - M * s /\ M * s \in Int
    BY <1>1, <1>2, SMT
  <2>2. 0 * s <= (g.nsect - M) * s
    BY <1>1, <1>2, <1>8, MulLe
  <2> QED BY <1>1, <1>3, <2>1, <2>2
<1>10. 0 <= AuxLen(g) /\ g.rootfs + AuxLen(g) <= M * s
  <2>1. CASE g.aux = 0
    <3>1. R * s <= M * s
      BY <1>1, <1>2, <1>5, MulLe
    <3>2. AuxLen(g) = 0
      BY <1>4, <2>1
    <3> QED BY <1>1, <1>5, <1>9, <3>1, <3>2
  <2>2. CASE g.aux # 0
    <3>1. R <= A /\ A < M /\ AuxLen(g) = (M - A) * s
      BY <1>1, <1>4, <2>2
    <3>2. R * s <= A * s /\ 0 * s <= (M - A) * s
      BY <1>1, <1>2, <1>4, <1>5, <3>1, MulLe
    <3>3. (M - A) * s = M * s - A * s /\ A * s \in Int
      BY <1>1, <1>2, <1>4, SMT
    <3> QED BY <1>1, <1>5, <1>9, <3>1, <3>2, <3>3
  <2> QED BY <2>1, <2>2
<1>11. g.rootfs + Reserved(g) + AuxLen(g) <= T
  BY <1>1, <1>3, <1>4, <1>9, <1>10
<1>12. {T, Reserved(g), AuxLen(g)} \subseteq Nat
  BY <1>3, <1>4, <1>7, <1>9, <1>10
<1>13. 2 * TagLen <= s
  BY DEF Fits
<1> QED
  BY <1>1, <1>7, <1>11, <1>12, <1>13 DEF T

\* The sizes flashFsKernelImage accepts keep each image out of the other, and
\* both out of the areas at the end of the flash, just where RoomForTwo holds.
THEOREM LayoutImages ==
  ASSUME NEW g \in Geometry, FlashLayoutAssumption, Fits(g)
  PROVE  ImagesDisjoint(g)
<1> DEFINE s == g.sect
           T == Total(g)
           X == AuxLen(g)
           H == Half(g)
           E == Reserved(g)
           F == Image2Start(g)
           Z == ReserveForTwoImages(g)
           one == T - (g.rootfs + TagLen) - E - X
           two == H - Z - s
           size == LargestOfTwo(g)
<1>1. /\ s \in Nat \ {0} /\ g.rootfs \in Nat /\ TagLen \in Nat \ {0} /\ Word \in Nat \ {0}
      /\ 4 * T <= Word
  BY DEF Geometry, FlashLayoutAssumption, Fits
<1>2. /\ T \in Nat /\ E \in Nat /\ X \in Nat /\ s <= T /\ 2 * TagLen <= s
      /\ g.rootfs + E + X <= T
  BY Bounds
<1>3. H \in Int /\ 2 * H = T - X /\ F \in Int /\ H <= F /\ 2 * (F - H) <= s
  BY HalfPlace
<1>4. Z = IF g.rootfs > E THEN g.rootfs ELSE E
  BY DEF ReserveForTwoImages
<1>5. /\ size = IF one % Word < two % Word THEN one % Word ELSE two % Word
  BY DEF LargestOfTwo, AvailableSizeOneImg, AvailableSizeTwoImgs
<1>6. /\ TwoApart(g, size) <=> g.rootfs + TagLen + size <= F /\ F + TagLen + size <= T - E - X
      /\ RoomForTwo(g) <=> Z + s <= H
  BY DEF TwoApart, RoomForTwo, Image1Start
<1> HIDE DEF s, T, X, H, E, F, Z, size
<1>7. Z \in Int /\ 0 <= Z /\ Z <= T /\ g.rootfs <= Z /\ E <= Z
  BY <1>1, <1>2, <1>4
<1>8. one \in Int /\ two \in Int /\ one < Word /\ two < Word /\ -Word <= one /\ -Word <= two
      /\ -T <= one /\ -T - T <= two
  BY <1>1, <1>2, <1>3, <1>7
<1> HIDE DEF one, two
<1>9. /\ one % Word \in Int /\ two % Word \in Int
      /\ 0 <= one => one % Word = one
      /\ one < 0 => one % Word = one + Word
      /\ 0 <= two => two % Word = two
      /\ two < 0 => two % Word = two + Word
  BY <1>1, <1>8, Wraps
<1>10. ASSUME 0 <= two
       PROVE  TwoApart(g, size) /\ RoomForTwo(g)
  <2>1. size \in Int /\ size <= two
    BY <1>5, <1>8, <1>9, <1>10
  <2>2. size + Z + s <= H
    BY <1>1, <1>3, <1>7, <1>10, <2>1 DEF two
  <2> QED BY <1>1, <1>2, <1>3, <1>6, <1>7, <1>8, <1>10, <2>1, <2>2 DEF two
<1>11. ASSUME two < 0
       PROVE  ~TwoApart(g, size) /\ ~RoomForTwo(g)
  <2>1. T + T <= two % Word
    BY <1>1, <1>2, <1>8, <1>9, <1>11
  <2>2. CASE 0 <= one
    <3>1. size = one
      BY <1>1, <1>2, <1>5, <1>8, <1>9, <2>1, <2>2 DEF one
    <3>2. ~(g.rootfs + TagLen + one <= F /\ F + TagLen + one <= T - E - X)
      BY <1>1, <1>2, <1>3, <2>2 DEF one
    <3>3. ~(Z + s <= H)
      BY <1>1, <1>3, <1>7, <1>11 DEF two
    <3> QED BY <1>6, <3>1, <3>2, <3>3
  <2>3. CASE one < 0
    <3>1. size \in Int /\ T + T <= size
      BY <1>1, <1>2, <1>5, <1>8, <1>9, <2>1, <2>3
    <3> QED BY <1>1, <1>2, <1>3, <1>6, <1>7, <1>11, <3>1 DEF two
  <2> QED BY <1>8, <2>2, <2>3
<1> QED
  BY <1>8, <1>10, <1>11 DEF ImagesDisjoint, size

-----------------------------------------------------------------------------
(* The nvram in the flash and its copy in memory, and the other stores.    *)

GoodNvram == [wlan : Val \cup {None}, optic : Val \cup {None}, good : {TRUE}]

IsCall(c) == c = [at |-> c.at, op |-> c.op, item |-> c.item, val |-> c.val, nv |-> c.nv,
                  buf |-> c.buf, todo |-> c.todo]

Ats == {"idle", "spMutex", "flashImageMutex", "get", "set", "update", "restart"}
Ops == UserOps \cup KernelOps

\* The nvram that a call is to store, or has in its buffer; an update of the
\* boot loader has a good one in reserve when that in its buffer is bad.
NvOK(c) ==
  /\ c.at = "flashImageMutex" => c.val \in Val /\ (c.op \in Copied => c.nv \in GoodNvram)
  /\ c.at = "get" => c.nv \in GoodNvram
  /\ c.at \in {"set", "update"} =>
       /\ c.buf[0]["nvram"] \in NvramData
       /\ c.buf[0]["nvram"] \in GoodNvram \/ (c.op = "cfe" /\ c.nv \in GoodNvram)

\* Process p in call c, where m holds flashImageMutex: it is the holder exactly
\* while it may read or write the nvram.
CallOK(c, p, m) ==
  /\ IsCall(c) /\ c.at \in Ats
  /\ c.at = "idle" => c = Idle
  /\ c.at # "idle" => c.op \in Ops
  /\ c.at = "spMutex" => c.op \in SpOps
  /\ c.at \in {"flashImageMutex", "update"} => c.op \in NvramOps
  /\ c.at = "restart" => c.op = "default"
  /\ m = p <=> c.op \in NvramOps /\ c.at \in {"get", "set", "update"}
  /\ c.at # "idle" /\ c.op \in NvramOps => c.at # "restart" /\ c.item # "nvram" /\ NvOK(c)
  /\ c.at = "set" /\ c.op \in NvramOps => c.todo = {0}
  /\ c.at = "set" /\ c.op \notin NvramOps => c.todo \subseteq Nat \ {0} /\ c.todo # {}

\* The buffer has what its sectors hold.
BufOK(c) == c.at = "set" => \A b \in c.todo : DOMAIN c.buf[b] = ItemsAt(b)

Place ==
  /\ geom \in Geometry /\ Fits(geom) /\ geom.backup
  /\ BlkOf(geom.rootfs, geom) > 0

FlashOK ==
  /\ flash = [b \in 0 .. geom.nsect-1 |-> flash[b]]
  /\ \A b \in 0 .. geom.nsect-1 : DOMAIN flash[b] = ItemsAt(b)
  /\ flash[0]["nvram"] \in NvramData /\ inMemNvramData \in NvramData

CallsOK ==
  /\ call = [p \in Procs |-> call[p]]
  /\ \A p \in Procs : CallOK(call[p], p, flashImageMutex) /\ BufOK(call[p])

Simple ==
  /\ uses \subseteq Ops
  /\ ioctlMutex \in Procs \cup {None} /\ spMutex \in Procs \cup {None}
  /\ flashImageMutex \in Procs \cup {None} /\ semflash \in Procs \cup {None}
  /\ faults \in 0 .. MaxFaults + 1

\* Before any fault: memory is behind the flash only in a call that is about to
\* bring it up to date, and a bad nvram is in the flash only in a call that is
\* about to replace it.
Agree ==
  faults = 0 =>
    /\ \A p \in Procs : call[p].at = "update" => flash[0]["nvram"] = call[p].buf[0]["nvram"]
    /\ (\A p \in Procs : call[p].at # "update") => inMemNvramData = flash[0]["nvram"]
    /\ flashImageMutex = None => flash[0]["nvram"] \in GoodNvram

IInv == Place /\ FlashOK /\ CallsOK /\ Simple /\ Agree

-----------------------------------------------------------------------------
(* The nvram and the names of operations and tokens.                       *)

LEMMA NvramFacts ==
  /\ BadNvram \in NvramData
  /\ GoodNvram \subseteq NvramData
  /\ \A n \in GoodNvram : n.good
  /\ \A n \in NvramData : n.good => n \in GoodNvram
<1>1. FALSE \in BOOLEAN /\ TRUE \in BOOLEAN
  OBVIOUS
<1>2. BadNvram \in NvramData
  BY <1>1 DEF BadNvram, NvramData
<1>3. GoodNvram \subseteq NvramData
  BY <1>1 DEF GoodNvram, NvramData
<1>4. ASSUME NEW n \in GoodNvram
      PROVE  n.good
  <2>1. n.good = TRUE
    BY DEF GoodNvram
  <2> QED BY <2>1
<1>5. ASSUME NEW n \in NvramData, n.good
      PROVE  n \in GoodNvram
  <2>1. n.good \in BOOLEAN
    BY DEF NvramData
  <2>2. n.good = TRUE
    BY <1>5, <2>1
  <2>3. n = [wlan |-> n.wlan, optic |-> n.optic, good |-> TRUE]
        /\ n.wlan \in Val \cup {None} /\ n.optic \in Val \cup {None}
    BY <2>2 DEF NvramData
  <2>4. \A w, o \in Val \cup {None} : [wlan |-> w, optic |-> o, good |-> TRUE] \in GoodNvram
    BY DEF GoodNvram
  <2> QED BY <2>3, <2>4, Zenon
<1> QED
  BY <1>2, <1>3, <1>4, <1>5

LEMMA NvramSet ==
  ASSUME NEW n \in NvramData, NEW i \in NvramFields, NEW v \in Val
  PROVE  [n EXCEPT ![i] = v, !.good = TRUE] \in GoodNvram
<1>1. CASE i = "wlan"
  BY <1>1 DEF NvramData, GoodNvram
<1>2. CASE i = "optic"
  BY <1>2 DEF NvramData, GoodNvram
<1> QED
  BY <1>1, <1>2 DEF NvramFields

LEMMA NvramSetWlan ==
  ASSUME NEW n \in NvramData, n.good, NEW v \in Val
  PROVE  [n EXCEPT !.wlan = v] \in GoodNvram
<1>1. n \in GoodNvram
  BY NvramFacts
<1> QED
  BY <1>1 DEF GoodNvram

LEMMA NotTokens ==
  /\ "nvram" \notin SpItems /\ "psi" \notin SpItems /\ "backup" \notin SpItems
  /\ "nvram" \notin Tokens
BY FlashStoreAssumption DEF SpItems

LEMMA NobodyIsNone == \A p \in Procs : p # None
BY FlashStoreAssumption DEF Procs

-----------------------------------------------------------------------------
(* Where the stores lie.                                                   *)

\* The nvram's sector is none of the others' sectors, and these are not empty.
LEMMA PlaceFacts ==
  ASSUME Place
  PROVE  /\ PsiBlks \subseteq Nat \ {0} /\ PsiBlks # {}
         /\ SpBlks \subseteq Nat \ {0} /\ SpBlks # {}
         /\ BackupBlks \subseteq Nat \ {0} /\ BackupBlks # {}
         /\ SpStartBlk(geom) # 0
         /\ geom.nsect \in Nat /\ 0 \in 0 .. geom.nsect-1
         /\ "nvram" \in ItemsAt(0)
<1> DEFINE s == geom.sect
           M == MetaStartBlk(geom)
<1>1. /\ geom \in Geometry /\ Fits(geom) /\ geom.backup /\ FlashLayoutAssumption
      /\ s \in Nat \ {0} /\ geom.nsect \in Nat /\ geom.psi \in Nat \ {0} /\ BlkOf(geom.rootfs, geom) > 0
  BY FlashLayoutAssumption DEF Place, Geometry
<1>2. /\ BackupNumBlk(geom) \in Nat /\ SyslogNumBlk(geom) \in Nat
      /\ BackupStartBlk(geom) \in Int /\ M \in Int
      /\ BackupStartBlk(geom) + BackupNumBlk(geom) = SpStartBlk(geom)
      /\ SyslogStartBlk(geom) + SyslogNumBlk(geom) = BackupStartBlk(geom)
      /\ BackupNumBlk(geom) * s >= geom.psi
  BY <1>1, MetaPlace
<1>3. /\ PsiStartBlk(geom) \in Int /\ PsiStartAddr(geom) \in Int
      /\ PsiBlkOffset(geom) \in 0 .. s-1
  BY <1>1, PsiPlace
<1>4. /\ SpStartBlk(geom) \in Int /\ SpStartBlk(geom) <= PsiStartBlk(geom)
      /\ SpNumBlk(geom) \in Int /\ SpNumBlk(geom) >= 1
  BY <1>1, SpPlace
<1>5. BlkOf(geom.rootfs, geom) \in Int /\ BlkOf(geom.rootfs, geom) <= M
  <2>1. geom.rootfs \in Int
    BY <1>1 DEF Geometry
  <2> QED BY <1>1, <2>1, DivMod DEF Fits, BlkOf
<1>6. M > 0 /\ M = SyslogStartBlk(geom)
  BY <1>1, <1>2, <1>5 DEF MetaStartBlk
<1>7. BackupStartBlk(geom) > 0 /\ SpStartBlk(geom) > 0 /\ PsiStartBlk(geom) > 0
  <2> HIDE DEF M
  <2>1. SyslogStartBlk(geom) \in Int
    BY <1>2, <1>6
  <2> QED BY <1>2, <1>3, <1>4, <1>6, <2>1
<1>8. PsiNumBlk(geom) \in Int /\ PsiNumBlk(geom) >= 1
  <2>1. PsiNumBlk(geom) \in Int
    BY <1>1, <1>3 DEF PsiNumBlk
  <2>2. PsiBlkOffset(geom) = PsiNumBlk(geom) * s - geom.psi
    BY DEF PsiBlkOffset
  <2>3. PsiNumBlk(geom) * s \in Int
    BY <1>1, <2>1
  <2>4. PsiNumBlk(geom) * s > 0 * s
    BY <1>1, <1>3, <2>2, <2>3
  <2>5. 0 < PsiNumBlk(geom)
    BY <1>1, <2>1, <2>4, MulLt
  <2> QED BY <2>1, <2>5
<1>9. BackupNumBlk(geom) >= 1
  <2>1. BackupNumBlk(geom) * s > 0 * s
    <3>1. BackupNumBlk(geom) * s \in Int
      BY <1>1, <1>2
    <3> QED BY <1>1, <1>2, <3>1
  <2>2. 0 < BackupNumBlk(geom)
    BY <1>1, <1>2, <2>1, MulLt
  <2> QED BY <1>2, <2>2
<1>10. geom.nsect >= 1
  BY <1>1, <1>3, <1>7, <1>8 DEF PsiNumBlk
<1>11. "nvram" \in ItemsAt(0)
  BY NotTokens DEF ItemsAt, ItemBlks, Items, NvramBlks
<1>12. PsiBlks \subseteq Nat \ {0} /\ PsiBlks # {}
  <2>1. PsiStartBlk(geom) \in PsiBlks
    BY <1>3, <1>8 DEF PsiBlks
  <2> QED BY <1>3, <1>7, <1>8, <2>1 DEF PsiBlks
<1>13. SpBlks \subseteq Nat \ {0} /\ SpBlks # {}
  <2>1. SpStartBlk(geom) \in SpBlks
    BY <1>4 DEF SpBlks
  <2> QED BY <1>4, <1>7, <2>1 DEF SpBlks
<1>14. BackupBlks \subseteq Nat \ {0} /\ BackupBlks # {}
  <2>1. BackupStartBlk(geom) \in BackupBlks
    BY <1>2, <1>9 DEF BackupBlks
  <2> QED BY <1>2, <1>7, <1>9, <2>1 DEF BackupBlks
<1> QED
  BY <1>1, <1>7, <1>10, <1>11, <1>12, <1>13, <1>14

\* What the sectors of an operation are to the nvram.
LEMMA OpBlksFacts ==
  ASSUME Place, NEW op \in Ops
  PROVE  /\ op \in NvramOps => OpBlks(op) = {0}
         /\ op \notin NvramOps => OpBlks(op) \subseteq Nat \ {0} /\ OpBlks(op) # {}
<1>1. CASE op \in NvramOps
  <2>1. op \notin Psi /\ op # "backup" /\ op \notin SpOps
    BY <1>1 DEF NvramOps, Psi, SpOps
  <2> QED BY <1>1, <2>1 DEF OpBlks, NvramBlks
<1>2. CASE op \in Psi
  <2>1. op \notin NvramOps /\ op # "backup" /\ op \notin SpOps
    BY <1>2 DEF NvramOps, Psi, SpOps
  <2> QED BY <1>2, <2>1, PlaceFacts DEF OpBlks
<1>3. CASE op = "backup"
  <2>1. op \notin NvramOps /\ op \notin Psi /\ op \notin SpOps
    BY <1>3 DEF NvramOps, Psi, SpOps
  <2> QED BY <1>3, <2>1, PlaceFacts DEF OpBlks
<1>4. CASE op \in SpOps
  <2>1. op \notin NvramOps /\ op \notin Psi /\ op # "backup"
    BY <1>4 DEF NvramOps, Psi, SpOps
  <2> QED BY <1>4, <2>1, PlaceFacts DEF OpBlks
<1>5. op \in NvramOps \/ op \in Psi \/ op = "backup" \/ op \in SpOps
  BY DEF Ops, UserOps, KernelOps, NvramOps, Psi, SpOps
<1> QED
  BY <1>1, <1>2, <1>3, <1>4, <1>5

LEMMA SameGeometry ==
  ASSUME geom' = geom
  PROVE  /\ Place' <=> Place
         /\ \A b : ItemsAt(b)' = ItemsAt(b)
<1>1. Place' <=> Place
  BY DEF Place
<1>2. PsiBlks' = PsiBlks /\ SpBlks' = SpBlks /\ BackupBlks' = BackupBlks
  BY DEF PsiBlks, SpBlks, BackupBlks
<1>3. \A i : ItemBlks(i)' = ItemBlks(i)
  BY <1>2 DEF ItemBlks
<1>4. \A b : ItemsAt(b)' = ItemsAt(b)
  BY <1>3 DEF ItemsAt
<1> QED
  BY <1>1, <1>4

\* The sector to be written next is one of those to be written.
LEMMA LowestFacts ==
  ASSUME NEW T \in SUBSET Nat, T # {}
  PROVE  LowestOf(T) \in T
<1>1. PICK x \in T : \A y \in T : ~(<<y, x>> \in OpToRel(<, Nat))
  BY NatLessThanWellFounded, WFMin, Zenon
<1>2. \A y \in T : ~(y < x)
  BY <1>1, Zenon DEF OpToRel
<1>3. \E b \in T : \A o \in T : b <= o
  BY <1>2
<1> QED
  BY <1>3 DEF LowestOf

-----------------------------------------------------------------------------
(* What the steps have in common: one process moves.                       *)

\* A call with fields changed is a call.
LEMMA Edited ==
  ASSUME NEW c, IsCall(c)
  PROVE  \A x, y, z, u, v :
           /\ IsCall([c EXCEPT !.at = x]) /\ IsCall([c EXCEPT !.todo = x])
           /\ IsCall([c EXCEPT !.at = x, !.nv = y])
           /\ IsCall([c EXCEPT !.at = x, !.todo = y])
           /\ IsCall([c EXCEPT !.at = x, !.buf = y, !.todo = z])
           /\ IsCall([c EXCEPT !.at = x, !.nv = y, !.todo = z, !.buf = u])
           /\ IsCall([c EXCEPT !.at = x, !.buf = y, !.todo = z, !.val = u, !.nv = v])
<1>1. ASSUME NEW e, IsCall(e), NEW x
      PROVE  /\ IsCall([e EXCEPT !.at = x]) /\ IsCall([e EXCEPT !.nv = x]) /\ IsCall([e EXCEPT !.val = x])
             /\ IsCall([e EXCEPT !.buf = x]) /\ IsCall([e EXCEPT !.todo = x])
  BY <1>1 DEF IsCall
<1>2. ASSUME NEW x, NEW y, NEW z, NEW u, NEW v
      PROVE  /\ IsCall([[c EXCEPT !.at = x] EXCEPT !.nv = y])
             /\ IsCall([[c EXCEPT !.at = x] EXCEPT !.todo = y])
             /\ IsCall([[[c EXCEPT !.at = x] EXCEPT !.buf = y] EXCEPT !.todo = z])
             /\ IsCall([[[[c EXCEPT !.at = x] EXCEPT !.nv = y] EXCEPT !.todo = z] EXCEPT !.buf = u])
             /\ IsCall([[[[[c EXCEPT !.at = x] EXCEPT !.buf = y] EXCEPT !.todo = z]
                           EXCEPT !.val = u] EXCEPT !.nv = v])
  BY <1>1, Zenon
<1>3. ASSUME NEW x, NEW y, NEW z, NEW u, NEW v
      PROVE  /\ [c EXCEPT !.at = x, !.nv = y] = [[c EXCEPT !.at = x] EXCEPT !.nv = y]
             /\ [c EXCEPT !.at = x, !.todo = y] = [[c EXCEPT !.at = x] EXCEPT !.todo = y]
             /\ [c EXCEPT !.at = x, !.buf = y, !.todo = z]
                  = [[[c EXCEPT !.at = x] EXCEPT !.buf = y] EXCEPT !.todo = z]
             /\ [c EXCEPT !.at = x, !.nv = y, !.todo = z, !.buf = u]
                  = [[[[c EXCEPT !.at = x] EXCEPT !.nv = y] EXCEPT !.todo = z] EXCEPT !.buf = u]
             /\ [c EXCEPT !.at = x, !.buf = y, !.todo = z, !.val = u, !.nv = v]
                  = [[[[[c EXCEPT !.at = x] EXCEPT !.buf = y] EXCEPT !.todo = z]
                        EXCEPT !.val = u] EXCEPT !.nv = v]
  OBVIOUS
<1> QED
  BY <1>1, <1>2, <1>3, Zenon

LEMMA OneCall ==
  ASSUME CallsOK, NEW p \in Procs, NEW c, call' = [call EXCEPT ![p] = c], geom' = geom,
         CallOK(c, p, flashImageMutex'), BufOK(c),
         \A q \in Procs \ {p} : flashImageMutex' = q <=> flashImageMutex = q
  PROVE  CallsOK' /\ call'[p] = c /\ \A q \in Procs \ {p} : call'[q] = call[q]
<1>1. call'[p] = c /\ \A q \in Procs \ {p} : call'[q] = call[q]
  BY DEF CallsOK
<1>2. call' = [q \in Procs |-> call'[q]]
  BY DEF CallsOK
<1>3. ASSUME NEW q \in Procs
      PROVE  CallOK(call'[q], q, flashImageMutex')
  <2>1. CASE q = p
    BY <1>1, <2>1
  <2>2. CASE q # p
    <3>1. CallOK(call[q], q, flashImageMutex) /\ call'[q] = call[q]
          /\ (flashImageMutex' = q <=> flashImageMutex = q)
      BY <1>1, <2>2 DEF CallsOK
    <3> QED BY <3>1 DEF CallOK
  <2> QED BY <2>1, <2>2
<1>4. ASSUME NEW q \in Procs
      PROVE  BufOK(call[q])'
  <2>1. BufOK(call'[q])
    BY <1>1 DEF CallsOK
  <2>2. \A b : ItemsAt(b)' = ItemsAt(b)
    BY SameGeometry
  <2> QED BY <2>1, <2>2 DEF BufOK
<1> QED
  BY <1>1, <1>2, <1>3, <1>4 DEF CallsOK

LEMMA FlashSame ==
  ASSUME FlashOK, UNCHANGED <<geom, flash, inMemNvramData>>
  PROVE  FlashOK'
<1>1. \A b : ItemsAt(b)' = ItemsAt(b)
  BY SameGeometry
<1> QED
  BY <1>1 DEF FlashOK

LEMMA AgreeSame ==
  ASSUME Agree, NEW p \in Procs, \A q \in Procs \ {p} : call'[q] = call[q],
         flash'[0] = flash[0], UNCHANGED <<inMemNvramData, faults>>,
         call[p].at # "update", call'[p].at # "update",
         flashImageMutex' = None => flashImageMutex = None
  PROVE  Agree'
<1>1. \A q \in Procs : call'[q].at = "update" => call'[q] = call[q] /\ q # p
  OBVIOUS
<1>2. (\A q \in Procs : call'[q].at # "update") => \A q \in Procs : call[q].at # "update"
  OBVIOUS
<1> QED
  BY <1>1, <1>2 DEF Agree

LEMMA AgreeFault == faults' # 0 => Agree'
BY DEF Agree

LEMMA IdleOK ==
  ASSUME NEW p \in Procs, NEW m, m # p
  PROVE  CallOK(Idle, p, m) /\ BufOK(Idle)
BY DEF CallOK, IsCall, Idle, Ats, BufOK

\* The end of a call.
LEMMA ReturnFacts ==
  ASSUME CallsOK, Simple, NEW p \in Procs, Return(p), geom' = geom
  PROVE  /\ CallsOK' /\ call'[p] = Idle /\ \A q \in Procs \ {p} : call'[q] = call[q]
         /\ ioctlMutex' \in Procs \cup {None} /\ spMutex' \in Procs \cup {None}
         /\ flashImageMutex' \in Procs \cup {None}
         /\ flashImageMutex # p => flashImageMutex' = flashImageMutex
<1>1. /\ call' = [call EXCEPT ![p] = Idle]
      /\ ioctlMutex' = IF ioctlMutex = p THEN None ELSE ioctlMutex
      /\ spMutex' = IF spMutex = p THEN None ELSE spMutex
      /\ flashImageMutex' = IF flashImageMutex = p THEN None ELSE flashImageMutex
  BY DEF Return, Goto, Unlocked
<1>2. flashImageMutex' # p /\ \A q \in Procs \ {p} : flashImageMutex' = q <=> flashImageMutex = q
  BY <1>1, NobodyIsNone
<1>3. CallOK(Idle, p, flashImageMutex') /\ BufOK(Idle)
  BY <1>2, IdleOK
<1>4. CallsOK' /\ call'[p] = Idle /\ \A q \in Procs \ {p} : call'[q] = call[q]
  BY <1>1, <1>2, <1>3, OneCall
<1> QED
  BY <1>1, <1>4 DEF Simple

-----------------------------------------------------------------------------
(* The steps.                                                              *)

LEMMA InitInv == Init => IInv
<1> SUFFICES ASSUME Init PROVE IInv
  OBVIOUS
<1>1. PICK o \in Boards : geom = o.geom /\ uses = o.uses
  BY DEF Init
<1>2. PICK v \in Val :
        /\ inMemNvramData = [wlan |-> v, optic |-> v, good |-> TRUE]
        /\ flash = [b \in 0 .. geom.nsect-1 |->
                      [i \in ItemsAt(b) |-> CASE i \in Tokens -> None
                                              [] i = "nvram" -> inMemNvramData
                                              [] OTHER -> v]]
  BY DEF Init
<1>3. Place
  BY <1>1, FlashStoreAssumption DEF Place
<1>4. inMemNvramData \in GoodNvram /\ inMemNvramData \in NvramData
  <2>1. inMemNvramData \in GoodNvram
    BY <1>2 DEF GoodNvram
  <2> QED BY <2>1, NvramFacts
<1>5. 0 \in 0 .. geom.nsect-1 /\ "nvram" \in ItemsAt(0)
  BY <1>3, PlaceFacts
<1>6. flash[0]["nvram"] = inMemNvramData
  BY <1>2, <1>5, NotTokens
<1>7. FlashOK
  <2>1. flash = [b \in 0 .. geom.nsect-1 |-> flash[b]]
    BY <1>2
  <2>2. \A b \in 0 .. geom.nsect-1 : DOMAIN flash[b] = ItemsAt(b)
    BY <1>2
  <2> QED BY <1>4, <1>6, <2>1, <2>2 DEF FlashOK
<1>8. call = [p \in Procs |-> Idle] /\ flashImageMutex = None /\ faults = 0
  BY DEF Init
<1>9. CallsOK
  <2>1. \A p \in Procs : CallOK(Idle, p, flashImageMutex) /\ BufOK(Idle)
    BY <1>8, IdleOK, NobodyIsNone
  <2> QED BY <1>8, <2>1 DEF CallsOK
<1>10. Simple
  BY <1>1, <1>8, UsesAssumption, FlashStoreAssumption DEF Init, Simple, Ops
<1>11. Agree
  BY <1>4, <1>6, <1>8 DEF Agree, Idle
<1> QED
  BY <1>3, <1>7, <1>9, <1>10, <1>11 DEF IInv

LEMMA StartInv ==
  ASSUME IInv, NEW p \in Procs, Start(p)
  PROVE  IInv'
<1>1. call[p] = Idle
      /\ UNCHANGED <<geom, uses, flash, inMemNvramData, spMutex, flashImageMutex, semflash, faults>>
  BY DEF Start
<1>2. PICK op \in uses \cap (IF p \in Users THEN UserOps ELSE KernelOps), v \in Val :
        \E i \in (IF op \in {"token", "delete"} THEN Tokens ELSE {ItemOf(op)}) :
          Goto(p, [at |-> FirstAt(op), op |-> op, item |-> i, val |-> v,
                   nv |-> IF op \in Copied
                          THEN [inMemNvramData EXCEPT ![i] = v, !.good = TRUE] ELSE None,
                   buf |-> None, todo |-> {}])
  BY DEF Start
<1>3. PICK i \in (IF op \in {"token", "delete"} THEN Tokens ELSE {ItemOf(op)}) :
        Goto(p, [at |-> FirstAt(op), op |-> op, item |-> i, val |-> v,
                 nv |-> IF op \in Copied
                        THEN [inMemNvramData EXCEPT ![i] = v, !.good = TRUE] ELSE None,
                 buf |-> None, todo |-> {}])
  BY <1>2
<1> DEFINE n == IF op \in Copied THEN [inMemNvramData EXCEPT ![i] = v, !.good = TRUE] ELSE None
           c == [at |-> FirstAt(op), op |-> op, item |-> i, val |-> v, nv |-> n,
                 buf |-> None, todo |-> {}]
<1>4. call' = [call EXCEPT ![p] = c]
  BY <1>3 DEF Goto
<1>5. Place /\ FlashOK /\ CallsOK /\ Simple /\ Agree
  BY DEF IInv
<1>6. op \in Ops
  BY DEF Ops
<1>7. op \in Copied => n \in GoodNvram /\ op \in NvramOps
  <2> SUFFICES ASSUME op \in Copied PROVE n \in GoodNvram /\ op \in NvramOps
    OBVIOUS
  <2>1. i = ItemOf(op) /\ op \in {"proc", "optic"} /\ op \in NvramOps
    BY DEF Copied, NvramOps
  <2>2. i \in NvramFields
    BY <2>1 DEF ItemOf, Psi, NvramFields
  <2>3. inMemNvramData \in NvramData
    BY <1>5 DEF FlashOK
  <2> QED BY <2>1, <2>2, <2>3, NvramSet
<1> HIDE DEF n
<1>8. flashImageMutex # p
  BY <1>1, <1>5 DEF CallsOK, CallOK, Idle
<1>9. /\ FirstAt(op) \in {"spMutex", "flashImageMutex", "get"}
      /\ op \in NvramOps <=> FirstAt(op) = "flashImageMutex"
      /\ FirstAt(op) = "spMutex" => op \in SpOps
  BY DEF FirstAt, SpOps, NvramOps
<1>10. op \in NvramOps => i # "nvram"
  BY DEF ItemOf, NvramOps, Psi
<1>11. IsCall(c) /\ (op \in NvramOps => NvOK(c))
  <2>1. IsCall(c)
    BY DEF IsCall
  <2>2. c.at = FirstAt(op) /\ c.op = op /\ c.val = v /\ c.nv = n
    OBVIOUS
  <2>3. c.at = "get" => op \notin NvramOps
    BY <1>9, <2>2
  <2> HIDE DEF c
  <2> QED BY <1>7, <1>9, <2>1, <2>2, <2>3 DEF NvOK
<1>12. CallOK(c, p, flashImageMutex) /\ BufOK(c)
  <2>1. c.at = FirstAt(op) /\ c.op = op /\ c.item = i
    OBVIOUS
  <2> HIDE DEF c
  <2> QED BY <1>6, <1>8, <1>9, <1>10, <1>11, <2>1 DEF CallOK, BufOK, Ats
<1>13. c.at # "update"
  BY <1>9
<1> HIDE DEF c
<1>14. CallsOK' /\ call'[p] = c /\ \A q \in Procs \ {p} : call'[q] = call[q]
  BY <1>1, <1>4, <1>5, <1>12, OneCall
<1>15. Agree'
  BY <1>1, <1>5, <1>13, <1>14, AgreeSame DEF Idle
<1>16. Place' /\ FlashOK'
  BY <1>1, <1>5, SameGeometry, FlashSame
<1>17. ioctlMutex' \in Procs \cup {None}
  BY <1>5 DEF Start, Ioctl, Simple
<1>18. Simple'
  BY <1>1, <1>5, <1>17 DEF Simple
<1> QED
  BY <1>14, <1>15, <1>16, <1>18 DEF IInv

LEMMA LockSpInv ==
  ASSUME IInv, NEW p \in Procs, LockSp(p)
  PROVE  IInv'
<1> DEFINE c == [call[p] EXCEPT !.at = "get"]
<1>1. /\ call[p].at = "spMutex" /\ spMutex' = p /\ call' = [call EXCEPT ![p] = c]
      /\ UNCHANGED <<geom, uses, flash, inMemNvramData, ioctlMutex, flashImageMutex, semflash, faults>>
  BY DEF LockSp, Goto
<1>2. Place /\ FlashOK /\ CallsOK /\ Simple /\ Agree
  BY DEF IInv
<1>3. CallOK(call[p], p, flashImageMutex)
  BY <1>2 DEF CallsOK
<1>4. IsCall(c) /\ c.at = "get" /\ c.op = call[p].op
  BY <1>3 DEF CallOK, IsCall
<1>5. c.op \in SpOps /\ c.op \notin NvramOps /\ c.op \in Ops
  BY <1>1, <1>3, <1>4 DEF CallOK, SpOps, NvramOps
<1>6. flashImageMutex # p
  BY <1>1, <1>3 DEF CallOK
<1> HIDE DEF c
<1>7. CallOK(c, p, flashImageMutex) /\ BufOK(c)
  BY <1>4, <1>5, <1>6 DEF CallOK, Ats, BufOK
<1>8. CallsOK' /\ call'[p] = c /\ \A q \in Procs \ {p} : call'[q] = call[q]
  BY <1>1, <1>2, <1>7, OneCall
<1>9. Agree'
  BY <1>1, <1>2, <1>4, <1>8, AgreeSame
<1>10. Place' /\ FlashOK'
  BY <1>1, <1>2, SameGeometry, FlashSame
<1>11. Simple'
  BY <1>1, <1>2 DEF Simple
<1> QED
  BY <1>8, <1>9, <1>10, <1>11 DEF IInv

LEMMA LockNvramInv ==
  ASSUME IInv, NEW p \in Procs, LockNvram(p)
  PROVE  IInv'
<1>1. /\ call[p].at = "flashImageMutex" /\ flashImageMutex = None
      /\ UNCHANGED <<geom, uses, flash, inMemNvramData, semflash, faults>>
  BY DEF LockNvram
<1>2. Place /\ FlashOK /\ CallsOK /\ Simple /\ Agree /\ flashImageMutex # p
  BY <1>1, NobodyIsNone DEF IInv
<1>3. CallOK(call[p], p, flashImageMutex)
  BY <1>2 DEF CallsOK
<1>4. /\ IsCall(call[p]) /\ call[p].op \in NvramOps /\ call[p].op \in Ops /\ call[p].val \in Val
      /\ call[p].item # "nvram"
      /\ call[p].op \in Copied => call[p].nv \in GoodNvram
  BY <1>1, <1>3 DEF CallOK, NvOK
<1>5. Place' /\ FlashOK'
  BY <1>1, <1>2, SameGeometry, FlashSame
<1>6. CASE Return(p)
  <2>1. /\ CallsOK' /\ call'[p] = Idle /\ \A q \in Procs \ {p} : call'[q] = call[q]
        /\ ioctlMutex' \in Procs \cup {None} /\ spMutex' \in Procs \cup {None}
        /\ flashImageMutex' \in Procs \cup {None}
    BY <1>1, <1>2, <1>6, ReturnFacts
  <2>2. Agree'
    BY <1>1, <1>2, <2>1, AgreeSame DEF Idle
  <2>3. Simple'
    BY <1>1, <1>2, <2>1 DEF Simple
  <2> QED BY <1>5, <2>1, <2>2, <2>3 DEF IInv
<1>7. CASE ~Return(p)
  <2>1. /\ flashImageMutex' = p /\ UNCHANGED <<ioctlMutex, spMutex>>
        /\ call[p].op \in Copied \/ inMemNvramData.good
        /\ Goto(p, CASE call[p].op \in Copied -> [call[p] EXCEPT !.at = "get"]
                     [] call[p].op = "wlan" ->
                          [call[p] EXCEPT !.at = "get", !.nv = [inMemNvramData EXCEPT !.wlan = call[p].val]]
                     [] call[p].op = "cfe" ->
                          [call[p] EXCEPT !.at = "set", !.nv = inMemNvramData, !.todo = NvramBlks,
                             !.buf = [b \in NvramBlks |-> [i \in ItemsAt(b) |-> BadNvram]]])
    BY <1>7 DEF LockNvram
  <2>2. inMemNvramData \in NvramData
    BY <1>2 DEF FlashOK
  <2>3. PICK d : /\ call' = [call EXCEPT ![p] = d] /\ CallOK(d, p, p) /\ BufOK(d)
                 /\ d.at # "update"
    <3>1. CASE call[p].op \in Copied
      <4> DEFINE d == [call[p] EXCEPT !.at = "get"]
      <4>1. IsCall(d) /\ d.at = "get" /\ d.op = call[p].op /\ d.nv = call[p].nv /\ d.item = call[p].item
        BY <1>4 DEF IsCall
      <4>2. call' = [call EXCEPT ![p] = d]
        BY <2>1, <3>1 DEF Goto, Copied
      <4> HIDE DEF d
      <4>3. CallOK(d, p, p) /\ BufOK(d)
        BY <1>4, <3>1, <4>1 DEF CallOK, NvOK, BufOK, Ats
      <4> QED BY <4>1, <4>2, <4>3
    <3>2. CASE call[p].op = "wlan"
      <4> DEFINE d == [call[p] EXCEPT !.at = "get", !.nv = [inMemNvramData EXCEPT !.wlan = call[p].val]]
      <4>1. IsCall(d) /\ d.at = "get" /\ d.op = call[p].op /\ d.item = call[p].item
            /\ d.nv = [inMemNvramData EXCEPT !.wlan = call[p].val]
        <5> DEFINE n == [inMemNvramData EXCEPT !.wlan = call[p].val]
        <5> HIDE DEF n
        <5>1. IsCall([call[p] EXCEPT !.at = "get", !.nv = n])
          BY <1>4, Edited, Zenon
        <5>2. [call[p] EXCEPT !.at = "get", !.nv = n].at = "get"
              /\ [call[p] EXCEPT !.at = "get", !.nv = n].op = call[p].op
              /\ [call[p] EXCEPT !.at = "get", !.nv = n].item = call[p].item
              /\ [call[p] EXCEPT !.at = "get", !.nv = n].nv = n
          BY <1>4 DEF IsCall
        <5> QED BY <5>1, <5>2, Zenon DEF n
      <4>2. call' = [call EXCEPT ![p] = d]
        BY <2>1, <3>2 DEF Goto, Copied
      <4> HIDE DEF d
      <4>3. inMemNvramData.good
        BY <2>1, <3>2 DEF Copied
      <4>4. d.nv \in GoodNvram
        BY <1>4, <2>2, <4>1, <4>3, NvramSetWlan
      <4>5. CallOK(d, p, p) /\ BufOK(d)
        BY <1>4, <3>2, <4>1, <4>4 DEF CallOK, NvOK, BufOK, Ats
      <4> QED BY <4>1, <4>2, <4>5
    <3>3. CASE call[p].op = "cfe"
      <4> DEFINE u == [b \in NvramBlks |-> [i \in ItemsAt(b) |-> BadNvram]]
                 d == [call[p] EXCEPT !.at = "set", !.nv = inMemNvramData, !.todo = NvramBlks, !.buf = u]
      <4>1. IsCall(d) /\ d.at = "set" /\ d.op = call[p].op /\ d.item = call[p].item
            /\ d.nv = inMemNvramData /\ d.todo = {0} /\ d.buf = u
        <5>1. IsCall(d)
          BY <1>4, Edited, Zenon
        <5>2. d.at = "set" /\ d.op = call[p].op /\ d.item = call[p].item /\ d.nv = inMemNvramData /\ d.todo = {0} /\ d.buf = u
          BY <1>4 DEF IsCall, NvramBlks
        <5> QED BY <5>1, <5>2
      <4>2. call' = [call EXCEPT ![p] = d]
        BY <2>1, <3>3 DEF Goto, Copied
      <4>3. u[0]["nvram"] = BadNvram /\ DOMAIN u[0] = ItemsAt(0)
        BY <1>2, PlaceFacts DEF NvramBlks
      <4> HIDE DEF d, u
      <4>4. inMemNvramData.good
        BY <2>1, <3>3 DEF Copied
      <4>5. d.nv \in GoodNvram /\ d.buf[0]["nvram"] \in NvramData
        BY <2>2, <4>1, <4>3, <4>4, NvramFacts
      <4>6. CallOK(d, p, p) /\ BufOK(d)
        BY <1>4, <3>3, <4>1, <4>3, <4>5 DEF CallOK, NvOK, BufOK, Ats
      <4> QED BY <4>1, <4>2, <4>6
    <3> QED BY <1>4, <3>1, <3>2, <3>3 DEF NvramOps, Copied
  <2>4. \A q \in Procs \ {p} : flashImageMutex' = q <=> flashImageMutex = q
    BY <1>1, <2>1, NobodyIsNone
  <2>5. CallsOK' /\ call'[p] = d /\ \A q \in Procs \ {p} : call'[q] = call[q]
    BY <1>1, <1>2, <2>1, <2>3, <2>4, OneCall
  <2>6. Agree'
    BY <1>1, <1>2, <2>1, <2>3, <2>5, AgreeSame, NobodyIsNone
  <2>7. Simple'
    BY <1>1, <1>2, <2>1 DEF Simple
  <2> QED BY <1>5, <2>5, <2>6, <2>7 DEF IInv
<1> QED
  BY <1>6, <1>7

LEMMA GetInv ==
  ASSUME IInv, NEW p \in Procs, Get(p)
  PROVE  IInv'
<1>1. /\ call[p].at = "get"
      /\ UNCHANGED <<geom, uses, flash, inMemNvramData, semflash, faults>>
  BY DEF Get
<1>2. Place /\ FlashOK /\ CallsOK /\ Simple /\ Agree
  BY DEF IInv
<1>3. CallOK(call[p], p, flashImageMutex)
  BY <1>2 DEF CallsOK
<1>4. /\ IsCall(call[p]) /\ call[p].op \in Ops
      /\ flashImageMutex = p <=> call[p].op \in NvramOps
      /\ call[p].op \in NvramOps => call[p].nv \in GoodNvram /\ call[p].item # "nvram"
  BY <1>1, <1>3 DEF CallOK, NvOK
<1>5. Place' /\ FlashOK'
  BY <1>1, <1>2, SameGeometry, FlashSame
<1>6. CASE NoRoom(call[p]) \/ NoBootState(call[p])
  <2>1. Return(p) /\ flashImageMutex # p
    BY <1>4, <1>6 DEF Get, NoRoom, NoBootState, NvramOps
  <2>2. /\ CallsOK' /\ call'[p] = Idle /\ \A q \in Procs \ {p} : call'[q] = call[q]
        /\ ioctlMutex' \in Procs \cup {None} /\ spMutex' \in Procs \cup {None}
        /\ flashImageMutex' \in Procs \cup {None} /\ flashImageMutex' = flashImageMutex
    BY <1>1, <1>2, <2>1, ReturnFacts
  <2>3. Agree'
    BY <1>1, <1>2, <2>2, AgreeSame DEF Idle
  <2>4. Simple'
    BY <1>1, <1>2, <2>2 DEF Simple
  <2> QED BY <1>5, <2>2, <2>3, <2>4 DEF IInv
<1>7. CASE ~(NoRoom(call[p]) \/ NoBootState(call[p]))
  <2>1. PICK inPlace \in {FALSE, InPlace(call[p])} :
          Goto(p, [call[p] EXCEPT !.at = "set", !.buf = Buffer(call[p], inPlace),
                     !.todo = OpBlks(call[p].op), !.val = None, !.nv = None])
    BY <1>7 DEF Get
  <2>2. UNCHANGED <<ioctlMutex, spMutex, flashImageMutex>>
    BY <1>7 DEF Get
  <2> DEFINE u == Buffer(call[p], inPlace)
             d == [call[p] EXCEPT !.at = "set", !.buf = u, !.todo = OpBlks(call[p].op),
                     !.val = None, !.nv = None]
  <2>3. IsCall(d) /\ d.at = "set" /\ d.op = call[p].op /\ d.buf = u /\ d.todo = OpBlks(call[p].op)
        /\ d.item = call[p].item
    <3> HIDE DEF u
    <3>1. IsCall(d)
      BY <1>4, Edited, Zenon
    <3>2. d.at = "set" /\ d.op = call[p].op /\ d.buf = u /\ d.todo = OpBlks(call[p].op)
          /\ d.item = call[p].item
      BY <1>4 DEF IsCall
    <3> QED BY <3>1, <3>2
  <2>4. call' = [call EXCEPT ![p] = d]
    BY <2>1 DEF Goto
  <2>5. \A b \in OpBlks(call[p].op) : DOMAIN u[b] = ItemsAt(b)
    BY DEF Buffer
  <2>6. call[p].op \in NvramOps => u[0]["nvram"] = call[p].nv
    <3> SUFFICES ASSUME call[p].op \in NvramOps PROVE u[0]["nvram"] = call[p].nv
      OBVIOUS
    <3>1. OpBlks(call[p].op) = {0} /\ "nvram" \in ItemsAt(0)
      BY <1>2, <1>4, OpBlksFacts, PlaceFacts
    <3>2. u[0]["nvram"] = Changed(call[p], 0, "nvram", inPlace)
      BY <3>1 DEF Buffer
    <3>3. call[p].item # "nvram"
      BY <1>1, <1>3 DEF CallOK
    <3>4. "nvram" \notin Tokens
      BY NotTokens
    <3> QED BY <3>2, <3>3, <3>4 DEF Changed
  <2> HIDE DEF u, d
  <2>7. CallOK(d, p, flashImageMutex) /\ BufOK(d)
    <3>1. /\ d.op \in NvramOps => d.todo = {0}
          /\ d.op \notin NvramOps => d.todo \subseteq Nat \ {0} /\ d.todo # {}
      BY <1>2, <1>4, <2>3, OpBlksFacts
    <3>2. d.op \in NvramOps => NvOK(d)
      BY <1>4, <2>3, <2>6, NvramFacts DEF NvOK
    <3>3. BufOK(d)
      BY <2>3, <2>5 DEF BufOK
    <3> QED BY <1>4, <2>3, <3>1, <3>2, <3>3 DEF CallOK, Ats
  <2>8. CallsOK' /\ call'[p] = d /\ \A q \in Procs \ {p} : call'[q] = call[q]
    BY <1>1, <1>2, <2>2, <2>4, <2>7, OneCall
  <2>9. Agree'
    BY <1>1, <1>2, <2>2, <2>3, <2>8, AgreeSame
  <2>10. Simple'
    BY <1>1, <1>2, <2>2 DEF Simple
  <2> QED BY <1>5, <2>8, <2>9, <2>10 DEF IInv
<1> QED
  BY <1>6, <1>7

LEMMA NoMemoryInv ==
  ASSUME IInv, NEW p \in Procs, NoMemory(p)
  PROVE  IInv'
<1>1. /\ Return(p) /\ faults < MaxFaults /\ faults' = faults + 1
      /\ UNCHANGED <<geom, uses, flash, inMemNvramData, semflash>>
  BY DEF NoMemory
<1>2. Place /\ FlashOK /\ CallsOK /\ Simple
  BY DEF IInv
<1>3. /\ CallsOK' /\ ioctlMutex' \in Procs \cup {None} /\ spMutex' \in Procs \cup {None}
      /\ flashImageMutex' \in Procs \cup {None}
  BY <1>1, <1>2, ReturnFacts
<1>4. Place' /\ FlashOK'
  BY <1>1, <1>2, SameGeometry, FlashSame
<1>5. faults' \in 0 .. MaxFaults + 1 /\ faults' # 0
  BY <1>1, <1>2, FlashStoreAssumption DEF Simple
<1>6. Simple' /\ Agree'
  BY <1>1, <1>2, <1>3, <1>5, AgreeFault DEF Simple
<1> QED
  BY <1>3, <1>4, <1>6 DEF IInv

-----------------------------------------------------------------------------
(* Steps that write a sector.                                              *)

LEMMA FlashWritten ==
  ASSUME Place, FlashOK, geom' = geom, NEW b \in Nat, NEW f,
         flash' = [flash EXCEPT ![b] = f], DOMAIN f = ItemsAt(b),
         b = 0 => f["nvram"] \in NvramData
  PROVE  /\ flash' = [a \in 0 .. geom'.nsect-1 |-> flash'[a]]
         /\ \A a \in 0 .. geom'.nsect-1 : DOMAIN flash'[a] = ItemsAt(a)'
         /\ flash'[0]["nvram"] \in NvramData
         /\ b # 0 => flash'[0] = flash[0]
         /\ b = 0 => flash'[0] = f
<1>1. \A a : ItemsAt(a)' = ItemsAt(a)
  BY SameGeometry
<1>2. 0 \in 0 .. geom.nsect-1
  BY PlaceFacts
<1>3. flash = [a \in 0 .. geom.nsect-1 |-> flash[a]] /\ flash[0]["nvram"] \in NvramData
      /\ \A a \in 0 .. geom.nsect-1 : DOMAIN flash[a] = ItemsAt(a)
  BY DEF FlashOK
<1>4. flash' = [a \in 0 .. geom.nsect-1 |-> flash'[a]]
  BY <1>3
<1>5. (b # 0 => flash'[0] = flash[0]) /\ (b = 0 => flash'[0] = f)
  BY <1>2, <1>3
<1>6. flash'[0]["nvram"] \in NvramData
  BY <1>3, <1>5
<1>7. ASSUME NEW a \in 0 .. geom'.nsect-1
      PROVE  DOMAIN flash'[a] = ItemsAt(a)'
  <2>1. CASE a = b
    BY <1>1, <1>3, <2>1
  <2>2. CASE a # b
    BY <1>1, <1>3, <2>2
  <2> QED BY <2>1, <2>2
<1> QED
  BY <1>4, <1>5, <1>6, <1>7

\* The sector a call writes next: the nvram's only in calls that store the nvram.
LEMMA NextBlk ==
  ASSUME Place, CallsOK, NEW p \in Procs, call[p].at = "set"
  PROVE  /\ LowestOf(call[p].todo) \in call[p].todo /\ LowestOf(call[p].todo) \in Nat
         /\ call[p].op \in NvramOps <=> LowestOf(call[p].todo) = 0
         /\ DOMAIN call[p].buf[LowestOf(call[p].todo)] = ItemsAt(LowestOf(call[p].todo))
         /\ call[p].op \in NvramOps => call[p].buf[0]["nvram"] \in NvramData
<1>1. CallOK(call[p], p, flashImageMutex) /\ BufOK(call[p])
  BY DEF CallsOK
<1>2. /\ call[p].op \in NvramOps => call[p].todo = {0} /\ NvOK(call[p])
      /\ call[p].op \notin NvramOps => call[p].todo \subseteq Nat \ {0} /\ call[p].todo # {}
  BY <1>1 DEF CallOK
<1>3. LowestOf(call[p].todo) \in call[p].todo
  BY <1>2, LowestFacts
<1>4. call[p].op \in NvramOps => call[p].buf[0]["nvram"] \in NvramData
  BY <1>2 DEF NvOK
<1>5. DOMAIN call[p].buf[LowestOf(call[p].todo)] = ItemsAt(LowestOf(call[p].todo))
  BY <1>1, <1>3 DEF BufOK
<1> QED
  BY <1>2, <1>3, <1>4, <1>5

LEMMA Torn1 ==
  ASSUME Place, FlashOK, CallsOK, geom' = geom, NEW p \in Procs, call[p].at = "set", TornBlk(p)
  PROVE  /\ flash' = [a \in 0 .. geom'.nsect-1 |-> flash'[a]]
         /\ \A a \in 0 .. geom'.nsect-1 : DOMAIN flash'[a] = ItemsAt(a)'
         /\ flash'[0]["nvram"] \in NvramData
<1> DEFINE b == LowestOf(call[p].todo)
           u == call[p].buf[b]
<1>1. PICK done \in SUBSET ItemsAt(b) : flash' = [flash EXCEPT ![b] = PartOf(u, b, done)]
  BY DEF TornBlk
<1> DEFINE f == PartOf(u, b, done)
<1>2. b \in Nat /\ (b = 0 => call[p].op \in NvramOps) /\ (call[p].op \in NvramOps => call[p].buf[0]["nvram"] \in NvramData)
  BY NextBlk
<1>3. DOMAIN f = ItemsAt(b)
  BY DEF PartOf
<1>4. ASSUME b = 0
      PROVE  f["nvram"] \in NvramData
  <2>1. "nvram" \in ItemsAt(b)
    BY <1>4, PlaceFacts
  <2>2. f["nvram"] = u["nvram"] \/ f["nvram"] = BadNvram
    BY <2>1, NotTokens DEF PartOf
  <2>3. u["nvram"] \in NvramData
    BY <1>2, <1>4
  <2> QED BY <2>2, <2>3, NvramFacts
<1> HIDE DEF b, f
<1> QED
  BY <1>1, <1>2, <1>3, <1>4, FlashWritten DEF f

LEMMA WriteBlkInv ==
  ASSUME IInv, NEW p \in Procs, WriteBlk(p)
  PROVE  IInv'
<1> DEFINE b == LowestOf(call[p].todo)
<1>1. /\ call[p].at = "set" /\ semflash \in {None, p}
      /\ flash' = [flash EXCEPT ![b] = call[p].buf[b]]
      /\ UNCHANGED <<geom, uses, inMemNvramData, faults>>
  BY DEF WriteBlk
<1>2. Place /\ FlashOK /\ CallsOK /\ Simple /\ Agree
  BY DEF IInv
<1>3. CallOK(call[p], p, flashImageMutex) /\ IsCall(call[p]) /\ call[p].op \in Ops
  BY <1>1, <1>2 DEF CallsOK, CallOK
<1>4. /\ b \in call[p].todo /\ b \in Nat /\ (call[p].op \in NvramOps <=> b = 0)
      /\ DOMAIN call[p].buf[b] = ItemsAt(b)
      /\ call[p].op \in NvramOps => call[p].buf[0]["nvram"] \in NvramData
  BY <1>1, <1>2, NextBlk
<1>5. b = 0 => call[p].buf[b]["nvram"] \in NvramData
  BY <1>4
<1> HIDE DEF b
<1>6. /\ flash' = [a \in 0 .. geom'.nsect-1 |-> flash'[a]]
      /\ \A a \in 0 .. geom'.nsect-1 : DOMAIN flash'[a] = ItemsAt(a)'
      /\ flash'[0]["nvram"] \in NvramData
      /\ b # 0 => flash'[0] = flash[0]
      /\ b = 0 => flash'[0] = call[p].buf[b]
  BY <1>1, <1>2, <1>4, <1>5, FlashWritten
<1>7. Place' /\ FlashOK'
  BY <1>1, <1>2, <1>6, SameGeometry DEF FlashOK
<1>8. flashImageMutex = p <=> call[p].op \in NvramOps
  BY <1>1, <1>3 DEF CallOK
<1>9. CASE call[p].todo = {b} /\ call[p].op \in NvramOps
  <2> DEFINE d == [call[p] EXCEPT !.at = "update", !.todo = {}]
  <2>1. /\ semflash' = None /\ call' = [call EXCEPT ![p] = d]
        /\ UNCHANGED <<ioctlMutex, spMutex, flashImageMutex>>
    BY <1>9 DEF WriteBlk, Written, Goto, b
  <2>2. /\ IsCall(d) /\ d.at = "update" /\ d.op = call[p].op /\ d.item = call[p].item
        /\ d.nv = call[p].nv /\ d.buf = call[p].buf
    <3>1. IsCall(d)
      BY <1>3, Edited, Zenon
    <3>2. /\ d.at = "update" /\ d.op = call[p].op /\ d.item = call[p].item
          /\ d.nv = call[p].nv /\ d.buf = call[p].buf
      BY <1>3 DEF IsCall
    <3> QED BY <3>1, <3>2
  <2> HIDE DEF d
  <2>3. CallOK(d, p, flashImageMutex) /\ BufOK(d)
    <3>1. call[p].item # "nvram" /\ NvOK(call[p])
      BY <1>1, <1>3, <1>9 DEF CallOK
    <3>2. NvOK(d)
      BY <1>1, <2>2, <3>1 DEF NvOK
    <3> QED BY <1>3, <1>8, <1>9, <2>2, <3>1, <3>2 DEF CallOK, BufOK, Ats
  <2>4. CallsOK' /\ call'[p] = d /\ \A q \in Procs \ {p} : call'[q] = call[q]
    BY <1>1, <1>2, <2>1, <2>3, OneCall
  <2>5. \A q \in Procs : call'[q].at = "update" => q = p
    <3>1. \A q \in Procs : call[q].at = "update" => flashImageMutex = q
      BY <1>2 DEF CallsOK, CallOK
    <3> QED BY <1>8, <1>9, <2>4, <3>1
  <2>6. Agree'
    <3>1. flash'[0]["nvram"] = d.buf[0]["nvram"] /\ flashImageMutex' # None
      BY <1>4, <1>6, <1>8, <1>9, <2>1, <2>2, NobodyIsNone
    <3> QED BY <2>2, <2>4, <2>5, <3>1 DEF Agree
  <2>7. Simple'
    BY <1>1, <1>2, <2>1 DEF Simple
  <2> QED BY <1>7, <2>4, <2>6, <2>7 DEF IInv
<1>10. CASE call[p].todo = {b} /\ call[p].op = "default"
  <2> DEFINE d == [call[p] EXCEPT !.at = "restart", !.todo = {}]
  <2>1. /\ semflash' = None /\ call' = [call EXCEPT ![p] = d]
        /\ UNCHANGED <<ioctlMutex, spMutex, flashImageMutex>>
    BY <1>10 DEF WriteBlk, Written, Goto, b, NvramOps
  <2>2. IsCall(d) /\ d.at = "restart" /\ d.op = call[p].op
    <3>1. IsCall(d)
      BY <1>3, Edited, Zenon
    <3>2. d.at = "restart" /\ d.op = call[p].op
      BY <1>3 DEF IsCall
    <3> QED BY <3>1, <3>2
  <2> HIDE DEF d
  <2>3. CallOK(d, p, flashImageMutex) /\ BufOK(d)
    BY <1>3, <1>8, <1>10, <2>2 DEF CallOK, BufOK, Ats, NvramOps
  <2>4. CallsOK' /\ call'[p] = d /\ \A q \in Procs \ {p} : call'[q] = call[q]
    BY <1>1, <1>2, <2>1, <2>3, OneCall
  <2>5. flash'[0] = flash[0]
    BY <1>4, <1>6, <1>10 DEF NvramOps
  <2>6. Agree'
    BY <1>1, <1>2, <2>1, <2>2, <2>4, <2>5, AgreeSame
  <2>7. Simple'
    BY <1>1, <1>2, <2>1 DEF Simple
  <2> QED BY <1>7, <2>4, <2>6, <2>7 DEF IInv
<1>11. CASE call[p].todo = {b} /\ call[p].op \notin NvramOps /\ call[p].op # "default"
  <2>1. semflash' = None /\ Return(p)
    BY <1>11 DEF WriteBlk, Written, b
  <2>2. /\ CallsOK' /\ call'[p] = Idle /\ \A q \in Procs \ {p} : call'[q] = call[q]
        /\ ioctlMutex' \in Procs \cup {None} /\ spMutex' \in Procs \cup {None}
        /\ flashImageMutex' \in Procs \cup {None} /\ flashImageMutex' = flashImageMutex
    BY <1>1, <1>2, <1>8, <1>11, <2>1, ReturnFacts
  <2>3. flash'[0] = flash[0]
    BY <1>4, <1>6, <1>11
  <2>4. Agree'
    BY <1>1, <1>2, <2>2, <2>3, AgreeSame DEF Idle
  <2>5. Simple'
    BY <1>1, <1>2, <2>1, <2>2 DEF Simple
  <2> QED BY <1>7, <2>2, <2>4, <2>5 DEF IInv
<1>12. CASE call[p].todo # {b}
  <2> DEFINE d == [call[p] EXCEPT !.todo = @ \ {b}]
  <2>1. /\ semflash' = p /\ call' = [call EXCEPT ![p] = d]
        /\ UNCHANGED <<ioctlMutex, spMutex, flashImageMutex>>
    BY <1>12 DEF WriteBlk, Goto, b
  <2>2. IsCall(d) /\ d.at = "set" /\ d.op = call[p].op /\ d.todo = call[p].todo \ {b}
        /\ d.buf = call[p].buf
    BY <1>1, <1>3 DEF IsCall
  <2> HIDE DEF d
  <2>3. call[p].op \notin NvramOps /\ call[p].todo \subseteq Nat \ {0}
    BY <1>1, <1>3, <1>4, <1>12 DEF CallOK
  <2>4. CallOK(d, p, flashImageMutex) /\ BufOK(d)
    <3>1. d.todo \subseteq Nat \ {0} /\ d.todo # {}
      BY <1>4, <1>12, <2>2, <2>3
    <3>2. BufOK(d)
      BY <1>1, <1>2, <2>2 DEF BufOK, CallsOK
    <3> QED BY <1>3, <1>8, <2>2, <2>3, <3>1, <3>2 DEF CallOK, Ats
  <2>5. CallsOK' /\ call'[p] = d /\ \A q \in Procs \ {p} : call'[q] = call[q]
    BY <1>1, <1>2, <2>1, <2>4, OneCall
  <2>6. flash'[0] = flash[0]
    BY <1>4, <1>6, <2>3
  <2>7. Agree'
    BY <1>1, <1>2, <2>1, <2>2, <2>5, <2>6, AgreeSame
  <2>8. Simple'
    BY <1>1, <1>2, <2>1 DEF Simple
  <2> QED BY <1>7, <2>5, <2>7, <2>8 DEF IInv
<1> QED
  BY <1>9, <1>10, <1>11, <1>12

\* What commonImageWrite does about a bad nvram: it goes on under the mutex.
LEMMA StoreOrigFacts ==
  ASSUME CallsOK, NEW p \in Procs, StoreOrig(p), UNCHANGED <<geom, flashImageMutex>>,
         call[p].at \in {"set", "update"}, call[p].op \in NvramOps, call[p].nv \in GoodNvram
  PROVE  CallsOK' /\ call'[p].at = "get" /\ \A q \in Procs \ {p} : call'[q] = call[q]
<1> DEFINE d == [call[p] EXCEPT !.at = "get", !.buf = None, !.todo = {}]
<1>1. call' = [call EXCEPT ![p] = d]
  BY DEF StoreOrig, Goto
<1>2. CallOK(call[p], p, flashImageMutex)
  BY DEF CallsOK
<1>3. /\ IsCall(call[p]) /\ call[p].op \in Ops /\ flashImageMutex = p /\ call[p].item # "nvram"
  BY <1>2 DEF CallOK
<1>4. /\ IsCall(d) /\ d.at = "get" /\ d.op = call[p].op /\ d.item = call[p].item
      /\ d.nv = call[p].nv
  <2>1. IsCall(d)
    BY <1>3, Edited, Zenon
  <2>2. d.at = "get" /\ d.op = call[p].op /\ d.item = call[p].item /\ d.nv = call[p].nv
    BY <1>3 DEF IsCall
  <2> QED BY <2>1, <2>2
<1> HIDE DEF d
<1>5. CallOK(d, p, flashImageMutex) /\ BufOK(d)
  BY <1>3, <1>4 DEF CallOK, NvOK, BufOK, Ats
<1> QED
  BY <1>1, <1>4, <1>5, OneCall

LEMMA WriteFailsInv ==
  ASSUME IInv, NEW p \in Procs, WriteFails(p)
  PROVE  IInv'
<1>1. /\ call[p].at = "set" /\ faults < MaxFaults /\ faults' = faults + 1 /\ TornBlk(p)
      /\ semflash' = None /\ UNCHANGED <<geom, uses, inMemNvramData>>
  BY DEF WriteFails
<1>2. Place /\ FlashOK /\ CallsOK /\ Simple
  BY DEF IInv
<1>3. Place' /\ FlashOK'
  BY <1>1, <1>2, Torn1, SameGeometry DEF FlashOK
<1>4. faults' \in 0 .. MaxFaults + 1 /\ faults' # 0
  BY <1>1, <1>2, FlashStoreAssumption DEF Simple
<1>5. /\ CallsOK' /\ ioctlMutex' \in Procs \cup {None} /\ spMutex' \in Procs \cup {None}
      /\ flashImageMutex' \in Procs \cup {None}
  <2>1. CASE call[p].op = "cfe" /\ ~call[p].buf[0]["nvram"].good
    <3>1. StoreOrig(p) /\ UNCHANGED <<ioctlMutex, spMutex, flashImageMutex>>
      BY <2>1 DEF WriteFails
    <3>2. CallOK(call[p], p, flashImageMutex) /\ call[p].op \in NvramOps
      BY <1>2, <2>1 DEF CallsOK, NvramOps
    <3>3. NvOK(call[p])
      BY <1>1, <3>2 DEF CallOK
    <3>4. call[p].nv \in GoodNvram
      BY <1>1, <2>1, <3>3, NvramFacts DEF NvOK
    <3>5. CallsOK'
      BY <1>1, <1>2, <3>1, <3>2, <3>4, StoreOrigFacts
    <3> QED BY <1>2, <3>1, <3>5 DEF Simple
  <2>2. CASE ~(call[p].op = "cfe" /\ ~call[p].buf[0]["nvram"].good)
    <3>1. Return(p)
      BY <2>2 DEF WriteFails
    <3> QED BY <1>1, <1>2, <3>1, ReturnFacts
  <2> QED BY <2>1, <2>2
<1>6. Simple' /\ Agree'
  BY <1>1, <1>2, <1>4, <1>5, AgreeFault DEF Simple
<1> QED
  BY <1>3, <1>5, <1>6 DEF IInv

LEMMA UpdateInv ==
  ASSUME IInv, NEW p \in Procs, Update(p)
  PROVE  IInv'
<1>1. /\ call[p].at = "update" /\ inMemNvramData' = call[p].buf[0]["nvram"]
      /\ UNCHANGED <<geom, uses, flash, semflash, faults>>
  BY DEF Update
<1>2. Place /\ FlashOK /\ CallsOK /\ Simple /\ Agree
  BY DEF IInv
<1>3. CallOK(call[p], p, flashImageMutex)
  BY <1>2 DEF CallsOK
<1>4. call[p].op \in NvramOps /\ flashImageMutex = p /\ NvOK(call[p])
  BY <1>1, <1>3 DEF CallOK
<1>5. /\ inMemNvramData' \in NvramData
      /\ inMemNvramData' \in GoodNvram \/ call[p].nv \in GoodNvram
  BY <1>1, <1>4 DEF NvOK
<1>6. Place' /\ FlashOK'
  <2>1. \A b : ItemsAt(b)' = ItemsAt(b)
    BY <1>1, SameGeometry
  <2> QED BY <1>1, <1>2, <1>5, <2>1, SameGeometry DEF FlashOK
<1>7. \A q \in Procs \ {p} : call[q].at # "update"
  <2>1. \A q \in Procs : call[q].at = "update" => flashImageMutex = q
    BY <1>2 DEF CallsOK, CallOK
  <2> QED BY <1>4, <2>1
<1>8. faults = 0 => flash'[0]["nvram"] = inMemNvramData'
  BY <1>1, <1>2 DEF Agree
<1>9. CASE inMemNvramData'.good
  <2>1. Return(p)
    BY <1>9 DEF Update
  <2>2. /\ CallsOK' /\ call'[p] = Idle /\ \A q \in Procs \ {p} : call'[q] = call[q]
        /\ ioctlMutex' \in Procs \cup {None} /\ spMutex' \in Procs \cup {None}
        /\ flashImageMutex' \in Procs \cup {None}
    BY <1>1, <1>2, <2>1, ReturnFacts
  <2>3. inMemNvramData' \in GoodNvram
    BY <1>5, <1>9, NvramFacts
  <2>4. \A q \in Procs : call'[q].at # "update"
    BY <1>7, <2>2 DEF Idle
  <2>5. Agree'
    BY <1>1, <1>8, <2>3, <2>4 DEF Agree
  <2>6. Simple'
    BY <1>1, <1>2, <2>2 DEF Simple
  <2> QED BY <1>6, <2>2, <2>5, <2>6 DEF IInv
<1>10. CASE ~inMemNvramData'.good
  <2>1. StoreOrig(p) /\ UNCHANGED <<ioctlMutex, spMutex, flashImageMutex>>
    BY <1>10 DEF Update
  <2>2. call[p].nv \in GoodNvram
    BY <1>5, <1>10, NvramFacts
  <2>3. CallsOK' /\ call'[p].at = "get" /\ \A q \in Procs \ {p} : call'[q] = call[q]
    BY <1>1, <1>2, <1>4, <2>1, <2>2, StoreOrigFacts
  <2>4. \A q \in Procs : call'[q].at # "update"
    BY <1>7, <2>3
  <2>5. flashImageMutex' # None
    BY <1>4, <2>1, NobodyIsNone
  <2>6. Agree'
    BY <1>1, <1>8, <2>4, <2>5 DEF Agree
  <2>7. Simple'
    BY <1>1, <1>2, <2>1 DEF Simple
  <2> QED BY <1>6, <2>3, <2>6, <2>7 DEF IInv
<1> QED
  BY <1>9, <1>10

-----------------------------------------------------------------------------
(* Restarts.                                                               *)

LEMMA NobodyHolds ==
  ASSUME CallsOK, Simple, \A q \in Procs : call[q].at \notin {"get", "set", "update"}
  PROVE  flashImageMutex = None
<1>1. \A q \in Procs : flashImageMutex # q
  BY DEF CallsOK, CallOK
<1> QED
  BY <1>1 DEF Simple

\* A restart takes what the flash has into the memory. Without a fault nobody
\* held the mutex, so that the flash has a good nvram.
LEMMA RestartedInv ==
  ASSUME IInv, Restarted,
         flash' = [a \in 0 .. geom'.nsect-1 |-> flash'[a]],
         \A a \in 0 .. geom'.nsect-1 : DOMAIN flash'[a] = ItemsAt(a)',
         flash'[0]["nvram"] \in NvramData, faults' \in 0 .. MaxFaults + 1,
         faults' = 0 => flash' = flash /\ faults = 0 /\ flashImageMutex = None
  PROVE  IInv'
<1>1. /\ call' = [p \in Procs |-> Idle]
      /\ ioctlMutex' = None /\ spMutex' = None /\ flashImageMutex' = None /\ semflash' = None
      /\ inMemNvramData' = flash'[0]["nvram"] /\ UNCHANGED <<geom, uses>>
  BY DEF Restarted
<1>2. Place /\ Simple /\ Agree
  BY DEF IInv
<1>3. Place' /\ FlashOK'
  BY <1>1, <1>2, SameGeometry DEF FlashOK
<1>4. CallsOK'
  <2>1. \A p \in Procs : CallOK(Idle, p, None)
    BY IdleOK, NobodyIsNone
  <2>2. \A p \in Procs : BufOK(call[p])'
    BY <1>1 DEF BufOK, Idle
  <2>3. \A p \in Procs : CallOK(call'[p], p, flashImageMutex')
    BY <1>1, <2>1
  <2> QED BY <1>1, <2>2, <2>3 DEF CallsOK
<1>5. Agree'
  <2>1. \A p \in Procs : call'[p].at = "idle"
    BY <1>1 DEF Idle
  <2>2. faults' = 0 => flash'[0]["nvram"] \in GoodNvram
    BY <1>2 DEF Agree
  <2> QED BY <1>1, <2>1, <2>2 DEF Agree
<1>6. Simple'
  BY <1>1, <1>2 DEF Simple
<1> QED
  BY <1>3, <1>4, <1>5, <1>6 DEF IInv

LEMMA FlashKept ==
  ASSUME FlashOK, flash' = flash, geom' = geom
  PROVE  /\ flash' = [a \in 0 .. geom'.nsect-1 |-> flash'[a]]
         /\ \A a \in 0 .. geom'.nsect-1 : DOMAIN flash'[a] = ItemsAt(a)'
         /\ flash'[0]["nvram"] \in NvramData
<1>1. \A a : ItemsAt(a)' = ItemsAt(a)
  BY SameGeometry
<1> QED
  BY <1>1 DEF FlashOK

LEMMA RestartInv ==
  ASSUME IInv, NEW p \in Procs, Restart(p)
  PROVE  IInv'
<1>1. /\ call[p].at = "restart" /\ flash' = flash /\ Restarted /\ geom' = geom
      /\ faults' = IF faults > MaxFaults \/ \A q \in Procs \ {p} : call[q] = Idle
                   THEN faults ELSE faults + 1
  BY DEF Restart, Restarted
<1>2. FlashOK /\ CallsOK /\ Simple
  BY DEF IInv
<1>3. faults \in 0 .. MaxFaults + 1 /\ MaxFaults \in Nat
  BY <1>2, FlashStoreAssumption DEF Simple
<1>4. faults' \in 0 .. MaxFaults + 1
  BY <1>1, <1>3
<1>5. ASSUME faults' = 0
      PROVE  faults = 0 /\ flashImageMutex = None
  <2>1. faults = 0 /\ \A q \in Procs \ {p} : call[q] = Idle
    BY <1>1, <1>3, <1>5
  <2>2. flashImageMutex = None
    BY <1>1, <1>2, <2>1, NobodyHolds DEF Idle
  <2> QED BY <2>1, <2>2
<1>6. /\ flash' = [a \in 0 .. geom'.nsect-1 |-> flash'[a]]
      /\ \A a \in 0 .. geom'.nsect-1 : DOMAIN flash'[a] = ItemsAt(a)'
      /\ flash'[0]["nvram"] \in NvramData
  BY <1>1, <1>2, FlashKept
<1> QED
  BY <1>1, <1>4, <1>5, <1>6, RestartedInv

LEMMA PowerCutInv == IInv /\ PowerCut => IInv'
<1> SUFFICES ASSUME IInv, PowerCut PROVE IInv'
  OBVIOUS
<1>1. /\ AllIdle \/ faults < MaxFaults
      /\ faults' = IF AllIdle THEN faults ELSE faults + 1
      /\ \/ flash' = flash
         \/ \E p \in Procs : call[p].at = "set" /\ semflash \in {None, p} /\ TornBlk(p)
      /\ Restarted /\ geom' = geom
  BY DEF PowerCut, Restarted
<1>2. Place /\ FlashOK /\ CallsOK /\ Simple
  BY DEF IInv
<1>3. faults \in 0 .. MaxFaults + 1 /\ MaxFaults \in Nat
  BY <1>2, FlashStoreAssumption DEF Simple
<1>4. faults' \in 0 .. MaxFaults + 1
  BY <1>1, <1>3
<1>5. ASSUME faults' = 0
      PROVE  flash' = flash /\ faults = 0 /\ flashImageMutex = None
  <2>1. AllIdle /\ faults = 0
    BY <1>1, <1>3, <1>5
  <2>2. \A q \in Procs : call[q].at = "idle"
    BY <2>1 DEF AllIdle, Idle
  <2>3. flashImageMutex = None
    BY <1>2, <2>2, NobodyHolds
  <2> QED BY <1>1, <2>1, <2>2, <2>3
<1>6. /\ flash' = [a \in 0 .. geom'.nsect-1 |-> flash'[a]]
      /\ \A a \in 0 .. geom'.nsect-1 : DOMAIN flash'[a] = ItemsAt(a)'
      /\ flash'[0]["nvram"] \in NvramData
  BY <1>1, <1>2, FlashKept, Torn1
<1> QED
  BY <1>1, <1>4, <1>5, <1>6, RestartedInv

LEMMA StutterInv == IInv /\ UNCHANGED vars => IInv'
<1> SUFFICES ASSUME IInv, UNCHANGED vars PROVE IInv'
  OBVIOUS
<1>1. UNCHANGED <<geom, uses, flash, inMemNvramData, ioctlMutex, spMutex, flashImageMutex,
                  semflash, call, faults>>
  BY DEF vars
<1>2. Place /\ FlashOK /\ CallsOK /\ Simple /\ Agree
  BY DEF IInv
<1>3. Place' /\ FlashOK' /\ \A b : ItemsAt(b)' = ItemsAt(b)
  BY <1>1, <1>2, SameGeometry, FlashSame
<1>4. CallsOK'
  BY <1>1, <1>2, <1>3 DEF CallsOK, CallOK, BufOK
<1>5. Simple' /\ Agree'
  BY <1>1, <1>2 DEF Simple, Agree
<1> QED
  BY <1>3, <1>4, <1>5 DEF IInv

LEMMA NextInv == IInv /\ [Next]_vars => IInv'
<1> SUFFICES ASSUME IInv, [Next]_vars PROVE IInv'
  OBVIOUS
<1>1. ASSUME NEW p \in Procs,
             \/ Start(p) \/ LockSp(p) \/ LockNvram(p) \/ Get(p) \/ NoMemory(p)
             \/ WriteBlk(p) \/ WriteFails(p) \/ Update(p) \/ Restart(p)
      PROVE  IInv'
  BY <1>1, StartInv, LockSpInv, LockNvramInv, GetInv, NoMemoryInv, WriteBlkInv, WriteFailsInv,
     UpdateInv, RestartInv
<1>2. CASE PowerCut
  BY <1>2, PowerCutInv
<1>3. CASE UNCHANGED vars
  BY <1>3, StutterInv
<1> QED
  BY <1>1, <1>2, <1>3 DEF Next

LEMMA Invariance == Spec => []IInv
<1>1. Init => IInv
  BY InitInv
<1>2. IInv /\ [Next]_vars => IInv'
  BY NextInv
<1> QED
  BY <1>1, <1>2, PTL DEF Spec

-----------------------------------------------------------------------------
(* The results.                                                            *)

\* The stores and calls keep the shape that the functions on the flash give
\* them.
THEOREM StoresTyped == Spec => []FlashStoreTypeOK
<1>1. IInv => FlashStoreTypeOK
  <2> SUFFICES ASSUME IInv PROVE FlashStoreTypeOK
    OBVIOUS
  <2>1. \A p \in Procs : call[p].at \in Ats
    BY DEF IInv, CallsOK, CallOK
  <2> QED BY <2>1 DEF IInv, Place, FlashOK, Simple, Ops, Ats, FlashStoreTypeOK
<1> QED
  BY <1>1, Invariance, PTL

\* On every board, the stores that flash_init_info places stay apart, and so do
\* the images.
THEOREM StoresApart == Spec => []AreasApart
<1>1. IInv => AreasApart
  BY LayoutDisjoint, LayoutImages, FlashLayoutAssumption DEF IInv, Place, AreasApart
<1> QED
  BY <1>1, Invariance, PTL

\* Outside of flashImageMutex, the nvram in memory is the one in the flash:
\* for any number of processes that come by the ioctl or from a kernel thread.
THEOREM NvramInMemory == Spec => []NvramMatchesMemory
<1>1. IInv => NvramMatchesMemory
  <2> SUFFICES ASSUME IInv, flashImageMutex = None, faults = 0
               PROVE  inMemNvramData = flash[0]["nvram"]
    BY DEF NvramMatchesMemory
  <2>1. \A p \in Procs : CallOK(call[p], p, None)
    BY DEF IInv, CallsOK
  <2>2. \A p \in Procs : call[p].at # "update"
    BY <2>1, NobodyIsNone DEF CallOK
  <2> QED BY <2>2 DEF IInv, Agree
<1> QED
  BY <1>1, Invariance, PTL

\* An update of the boot loader, and any other call, leaves a good nvram behind.
THEOREM NvramStaysGood == Spec => []NvramGood
<1>1. IInv => NvramGood
  BY NvramFacts DEF IInv, Agree, NvramGood
<1> QED
  BY <1>1, Invariance, PTL
=============================================================================
