------------------------------ MODULE SpuProofs -----------------------------
(***************************************************************************)
(* Proofs about module Spu, for any contexts, scatterlists, block size and *)
(* limits. A context is followed from request to request: what Handle is   *)
(* given (HashGiven, CipherGiven) and what it leaves (HashKept,            *)
(* CipherKept). Where the data is in order this rests on the place in the  *)
(* scatterlist being exact, which it is as long as no request with several *)
(* entries needs a second message. The channels are followed apart.        *)
(***************************************************************************)
EXTENDS Spu, TLAPS, WellFoundedInduction

Whole(n) == n % BlockSize = 0

-----------------------------------------------------------------------------
(* Blocks.                                                                 *)

LEMMA BlockDivMod ==
  ASSUME NEW a \in Int, NEW s \in Nat \ {0}
  PROVE  /\ a \div s \in Int
         /\ a % s \in 0 .. s-1
         /\ a = s * (a \div s) + (a % s)
BY SMT

\* A multiple of s is divisible by s.
LEMMA MultipleMod ==
  ASSUME NEW k \in Int, NEW s \in Nat \ {0}
  PROVE  (s * k) % s = 0
<1> DEFINE a == s * k
           q == a \div s
           m == a % s
<1>1. a \in Int
  BY SMT
<1>2. q \in Int /\ m \in 0 .. s-1 /\ s * k = s * q + m
  BY <1>1, BlockDivMod
<1> HIDE DEF a, q, m
<1>3. s * (k - q) = m
  BY <1>2, SMT
<1>4. k - q = 0
  <2> DEFINE d == k - q
  <2>1. d \in Int /\ s * d = m /\ 0 <= m /\ m < s
    BY <1>2, <1>3
  <2> HIDE DEF d
  <2>2. ~(d >= 1)
    BY <2>1, SMT
  <2>3. ~(d <= -1)
    BY <2>1, SMT
  <2> QED BY <2>1, <2>2, <2>3 DEF d
<1> QED
  BY <1>2, <1>3, <1>4, SMT DEF m, a

LEMMA WholeIsMultiple ==
  ASSUME NEW a \in Int, Whole(a)
  PROVE  \E k \in Int : a = BlockSize * k
<1> DEFINE k == a \div BlockSize
<1>1. BlockSize \in Nat \ {0}
  BY SpuAssumption
<1>2. k \in Int /\ a = BlockSize * k + (a % BlockSize)
  BY <1>1, BlockDivMod
<1>3. a % BlockSize = 0
  BY DEF Whole
<1> HIDE DEF k
<1>4. a = BlockSize * k
  BY <1>1, <1>2, <1>3, SMT
<1> QED
  BY <1>2, <1>4

LEMMA MultipleIsWhole ==
  ASSUME NEW k \in Int
  PROVE  Whole(BlockSize * k)
BY MultipleMod, SpuAssumption DEF Whole

LEMMA WholeSum ==
  ASSUME NEW a \in Int, NEW b \in Int, Whole(a), Whole(b)
  PROVE  Whole(a + b)
<1>1. PICK k \in Int : a = BlockSize * k
  BY WholeIsMultiple
<1>2. PICK l \in Int : b = BlockSize * l
  BY WholeIsMultiple
<1>3. a + b = BlockSize * (k + l)
  BY <1>1, <1>2, SpuAssumption, SMT
<1> QED
  BY <1>3, MultipleIsWhole

\* Cutting to whole blocks.
LEMMA Cut ==
  ASSUME NEW a \in Nat
  PROVE  /\ a - (a % BlockSize) \in 0 .. a
         /\ Whole(a - (a % BlockSize))
         /\ \A b \in 0 .. a : Whole(b) => b <= a - (a % BlockSize)
<1> DEFINE s == BlockSize
           q == a \div s
           m == a % s
<1>1. s \in Nat \ {0} /\ q \in Int /\ m \in 0 .. s-1 /\ a = s * q + m
  BY BlockDivMod, SpuAssumption
<1> HIDE DEF q, m, s
<1>2. a - m = s * q
  BY <1>1, SMT
<1>3. Whole(a - m)
  BY <1>1, <1>2, MultipleIsWhole DEF s
<1>4. a - m >= 0
  <2>1. ~(q <= -1)
    BY <1>1, SMT
  <2>2. q >= 0
    BY <1>1, <2>1
  <2> QED BY <1>1, <1>2, <2>2, SMT
<1>5. ASSUME NEW b \in 0 .. a, Whole(b)
      PROVE  b <= a - m
  <2>1. PICK k \in Int : b = s * k
    BY <1>5, WholeIsMultiple DEF s
  <2>2. s * k <= s * q + m /\ m < s
    BY <1>1, <2>1
  <2>3. ~(k >= q + 1)
    <3>1. k >= q + 1 => s * k >= s * (q + 1)
      BY <1>1, SMT
    <3>2. s * (q + 1) = s * q + s
      BY <1>1, SMT
    <3> DEFINE x == s * k
               y == s * q
    <3>3. x \in Int /\ y \in Int
      BY <1>1, SMT
    <3> HIDE DEF x, y
    <3> QED BY <1>1, <2>2, <3>1, <3>2, <3>3 DEF x, y
  <2>4. k <= q
    BY <1>1, <2>3
  <2> QED BY <1>1, <1>2, <2>1, <2>4, SMT
<1> QED
  BY <1>1, <1>3, <1>4, <1>5 DEF m, s

-----------------------------------------------------------------------------
(* Scatterlists.                                                           *)

LEMMA LeastNat ==
  ASSUME NEW T \in SUBSET Nat, T # {}
  PROVE  \E x \in T : \A y \in T : x <= y
<1>1. PICK x \in T : \A y \in T : ~(<<y, x>> \in OpToRel(<, Nat))
  BY NatLessThanWellFounded, WFMin, Zenon
<1>2. \A y \in T : ~(y < x)
  BY <1>1, Zenon DEF OpToRel
<1> QED
  BY <1>2

\* Lists that requests come with.
LEMMA ListFacts ==
  ASSUME NEW l \in Lists
  PROVE  /\ l \in Seq(Nat) /\ Len(l) \in Nat \ {0}
         /\ \A i \in 1 .. Len(l) : l[i] \in Nat /\ Begin(l, i) \in Nat /\ Begin(l, i) < l[i]
         /\ Size(l) \in Nat \ {0}
<1>1. l \in Seq(Nat) /\ l # << >> /\ l[1] > 0 /\ \A i, j \in DOMAIN l : i < j => l[i] < l[j]
  BY SpuAssumption
<1>2. Len(l) \in Nat \ {0} /\ DOMAIN l = 1 .. Len(l) /\ \A i \in 1 .. Len(l) : l[i] \in Nat
  BY <1>1
<1>3. ASSUME NEW i \in 1 .. Len(l)
      PROVE  Begin(l, i) \in Nat /\ Begin(l, i) < l[i]
  <2>1. CASE i = 1
    BY <2>1, <1>1 DEF Begin
  <2>2. CASE i # 1
    <3>1. i - 1 \in 1 .. Len(l) /\ i - 1 < i
      BY <2>2, <1>2
    <3> QED BY <3>1, <2>2, <1>1, <1>2 DEF Begin
  <2> QED BY <2>1, <2>2
<1>4. Size(l) \in Nat \ {0}
  BY <1>2, <1>3 DEF Size
<1> QED
  BY <1>1, <1>2, <1>3, <1>4

\* Every byte is in an entry.
LEMMA EntryAtFacts ==
  ASSUME NEW l \in Lists, NEW a \in 1 .. Size(l)
  PROVE  /\ EntryAt(l, a) \in 1 .. Len(l)
         /\ Begin(l, EntryAt(l, a)) < a /\ a <= l[EntryAt(l, a)]
<1> DEFINE T == {j \in 1 .. Len(l) : a <= l[j]}
<1>1. l \in Seq(Nat) /\ Len(l) \in Nat \ {0} /\ DOMAIN l = 1 .. Len(l)
  BY ListFacts
<1>2. T \in SUBSET Nat /\ Len(l) \in T
  BY <1>1 DEF Size
<1>3. PICK j \in T : \A i \in T : j <= i
  BY <1>2, LeastNat
<1>4. j \in DOMAIN l /\ a <= l[j]
  BY <1>1, <1>3
<1>5. Begin(l, j) < a
  <2>1. CASE j = 1
    BY <2>1 DEF Begin
  <2>2. CASE j # 1
    <3>1. j - 1 \in 1 .. Len(l) /\ ~(j <= j - 1)
      BY <2>2, <1>1, <1>3
    <3>2. ~(a <= l[j - 1])
      BY <3>1, <1>3
    <3>3. l[j - 1] \in Nat
      BY <3>1, <1>1
    <3> QED BY <2>2, <3>2, <3>3 DEF Begin
  <2> QED BY <2>1, <2>2
<1>6. \E i \in DOMAIN l : Begin(l, i) < a /\ a <= l[i]
  BY <1>4, <1>5
<1> QED
  BY <1>1, <1>6 DEF EntryAt

InList(l, at) == at \in Place /\ at.sg \in 1 .. Len(l)

LEMMA OffsetIsNat ==
  ASSUME NEW l \in Lists, NEW at, InList(l, at)
  PROVE  Offset(l, at) \in Nat
BY ListFacts DEF InList, Place, Offset

\* spu_msg_sg_add stays in the list, and is never too far on.
LEMMA SgAddBack ==
  ASSUME NEW l \in Lists, NEW at, InList(l, at), NEW n \in Nat,
         Offset(l, at) + n <= Size(l)
  PROVE  /\ Offset(l, at) \in Nat
         /\ InList(l, SgAdd(l, at, n))
         /\ Offset(l, SgAdd(l, at, n)) \in 0 .. Offset(l, at) + n
<1> DEFINE a == Offset(l, at) + n
           j == EntryAt(l, a)
<1>1. at.sg \in 1 .. Len(l) /\ at.skip \in Nat /\ Begin(l, at.sg) \in Nat /\ Offset(l, at) \in Nat
  BY ListFacts DEF InList, Place, Offset
<1>2. CASE n = 0
  BY <1>1, <1>2 DEF SgAdd
<1>3. CASE n # 0
  <2>1. a \in 1 .. Size(l)
    BY <1>1, <1>3, ListFacts
  <2>2. j \in 1 .. Len(l) /\ Begin(l, j) < a /\ a <= l[j]
    BY <2>1, EntryAtFacts
  <2>3. Begin(l, j) \in Nat /\ l[j] \in Nat /\ Len(l) \in Nat
    BY <2>2, ListFacts
  <2>4. SgAdd(l, at, n) = [sg |-> j, skip |-> IF a < l[j] THEN a - Begin(l, j) ELSE 0]
    BY <1>3 DEF SgAdd
  <2>5. SgAdd(l, at, n).sg = j /\ SgAdd(l, at, n).skip = IF a < l[j] THEN a - Begin(l, j) ELSE 0
    BY <2>4
  <2> HIDE DEF j, a
  <2>6. SgAdd(l, at, n).skip \in Nat /\ Begin(l, j) + SgAdd(l, at, n).skip \in 0 .. a
    BY <2>1, <2>2, <2>3, <2>5
  <2>7. InList(l, SgAdd(l, at, n))
    BY <2>2, <2>3, <2>4, <2>5, <2>6 DEF InList, Place
  <2> QED BY <1>1, <2>5, <2>6, <2>7 DEF Offset, a
<1> QED
  BY <1>2, <1>3

\* With one entry it is exact, until the end is reached.
LEMMA SgAddOne ==
  ASSUME NEW l \in Lists, Len(l) = 1, NEW at, InList(l, at), NEW n \in Nat,
         Offset(l, at) + n < Size(l)
  PROVE  /\ SgAdd(l, at, n).sg = 1
         /\ SgAdd(l, at, n).skip = Offset(l, at) + n
<1>1. at.sg = 1 /\ at.skip \in Nat /\ Offset(l, at) = at.skip /\ Offset(l, at) \in Nat
  BY DEF InList, Place, Offset, Begin
<1>2. Size(l) = l[1] /\ Begin(l, 1) = 0 /\ l[1] \in Nat
  BY ListFacts DEF Size, Begin
<1>3. CASE n = 0
  BY <1>1, <1>3 DEF SgAdd
<1>4. CASE n # 0
  <2>1. EntryAt(l, Offset(l, at) + n) = 1
    BY <1>1, <1>2, <1>4, EntryAtFacts
  <2> QED BY <1>1, <1>2, <1>4, <2>1 DEF SgAdd
<1> QED
  BY <1>3, <1>4

LEMMA OneEntry ==
  ASSUME NEW l \in Lists, ~(Len(l) > 1)
  PROVE  Len(l) = 1
<1> DEFINE n == Len(l)
<1>1. n \in Nat \ {0} /\ ~(n > 1)
  BY ListFacts
<1> HIDE DEF n
<1>2. n = 1
  BY <1>1
<1> QED
  BY <1>2 DEF n

LEMMA StartFacts ==
  ASSUME NEW l \in Lists
  PROVE  InList(l, Start) /\ Offset(l, Start) = 0 /\ Start.sg = 1 /\ Start.skip = 0
BY ListFacts DEF InList, Start, Place, Offset, Begin

-----------------------------------------------------------------------------
(* What a context is between two steps, and when Handle gets it.           *)

Types == {"none", "init", "updt", "fin", "full"}

Context ==
  [at : {"unused", "ready", "busy"}, mode : {"none", "hash", "enc", "dec", "ctr", "ofb"},
   todo : Nat, sent : Nat, final : BOOLEAN, carry : Nat, base : Nat,
   srcList : Lists \cup {<<1>>}, src : Place, dstList : Lists \cup {<<1>>}, dst : Place, iv : Nat,
   type : Types, len : Nat,
   good : BOOLEAN, scattered : BOOLEAN]

\* The request's list ends where the hash given so far ends, and its place is
\* never further on than what was taken.
HashPlace(q) ==
  /\ q.srcList \in Lists /\ InList(q.srcList, q.src)
  /\ q.base + Size(q.srcList) = q.todo
  /\ q.base + Offset(q.srcList, q.src) <= q.sent + q.carry

HashExact(q) == q.src.sg = 1 /\ q.base + q.src.skip = q.sent + q.carry

CarryFits(q) == q.carry < MaxCarry \/ q.carry = BlockSize

HashGiven(q) ==
  /\ q \in Context /\ q.mode = "hash" /\ Whole(q.sent)
  /\ q.sent + q.carry <= q.todo /\ CarryFits(q)
  /\ q.good \/ q.scattered
  /\ \/ q.final /\ q.todo = q.sent + q.carry
     \/ HashPlace(q) /\ (q.scattered \/ HashExact(q))

TypeRight(q) ==
  /\ q.type \in {"init", "full"} <=> q.sent = q.len
  /\ q.type \in {"fin", "full"} <=> q.final /\ q.sent = q.todo
  /\ q.type \in {"init", "updt"} => q.len > 0 /\ q.len % BlockSize = 0
  /\ (q.sent - q.len) % BlockSize = 0

HashReady(q) == ~q.final /\ q.todo = q.sent + q.carry /\ Whole(q.sent)

HashBusy(q) ==
  /\ q.carry = 0 /\ q.sent <= q.todo /\ TypeRight(q)
  /\ (q.final /\ q.sent = q.todo) \/ Whole(q.sent)
  /\ q.sent < q.todo => HashPlace(q) /\ (Len(q.srcList) = 1 => q.scattered \/ HashExact(q))

HashKept(q) ==
  /\ q \in Context /\ q.mode = "hash" /\ CarryFits(q) /\ (q.good \/ q.scattered)
  /\ \/ q.at = "ready" /\ HashReady(q)
     \/ q.at = "busy" /\ HashBusy(q)

-----------------------------------------------------------------------------
(* Hashes.                                                                 *)

LEMMA MaxCarryFacts ==
  /\ MaxCarry \in Nat \ {0} /\ Whole(MaxCarry) /\ BlockSize <= MaxCarry
  /\ MaxCarry <= MaxPayload /\ MaxCarry <= CarryMax /\ Whole(MaxPayload) /\ Whole(0) /\ Whole(BlockSize)
<1>1. MaxCarry \in Nat \ {0} /\ Whole(MaxCarry) /\ MaxCarry <= MaxPayload /\ MaxCarry <= CarryMax
      /\ Whole(MaxPayload)
  BY SpuAssumption DEF MaxCarry, MinOf, Whole
<1>2. BlockSize <= MaxCarry
  <2>1. PICK k \in Int : MaxCarry = BlockSize * k
    BY <1>1, WholeIsMultiple
  <2>2. BlockSize \in Nat \ {0}
    BY SpuAssumption
  <2>3. ~(k <= 0)
    BY <1>1, <2>1, <2>2, SMT
  <2>4. k >= 1
    BY <2>3
  <2> QED BY <2>1, <2>2, <2>4, SMT
<1>3. Whole(0) /\ Whole(BlockSize)
  <2>1. BlockSize * 0 = 0 /\ BlockSize * 1 = BlockSize
    BY SpuAssumption
  <2> QED BY <2>1, MultipleIsWhole
<1> QED
  BY <1>1, <1>2, <1>3

\* The message takes all that is carried, and is whole blocks unless it is the
\* last: the new data's size, which the code computes without a sign, is right.
LEMMA ChunkFacts ==
  ASSUME NEW q, HashGiven(q), ~CarriesOver(q)
  PROVE  /\ HashChunk(q) \in Nat
         /\ q.carry <= HashChunk(q) /\ HashChunk(q) <= Left(q)
         /\ \/ q.final /\ HashChunk(q) = Left(q)
            \/ HashChunk(q) > 0 /\ Whole(HashChunk(q))
         /\ q.todo = q.sent + q.carry /\ q.final => HashChunk(q) = q.carry
<1> DEFINE most == MinOf(Left(q), MaxPayload)
<1>1. /\ q.todo \in Nat /\ q.sent \in Nat /\ q.carry \in Nat /\ q.sent + q.carry <= q.todo
      /\ q.final \in BOOLEAN
  BY DEF HashGiven, Context
<1>2. Left(q) \in Nat /\ q.carry <= Left(q) /\ (q.todo = q.sent + q.carry => Left(q) = q.carry)
  BY <1>1 DEF Left
<1>3. MaxPayload \in Nat \ {0} /\ Whole(MaxPayload) /\ MaxCarry <= MaxPayload /\ MaxCarry \in Nat \ {0}
      /\ BlockSize \in Nat \ {0} /\ BlockSize <= MaxCarry /\ Whole(MaxCarry) /\ Whole(BlockSize)
  BY MaxCarryFacts, SpuAssumption
<1>4. q.carry <= MaxPayload
  BY <1>1, <1>3 DEF HashGiven, CarryFits
<1>5. most \in Nat /\ q.carry <= most /\ most <= Left(q) /\ most <= MaxPayload
      /\ (most = Left(q) \/ most = MaxPayload)
  BY <1>2, <1>3, <1>4 DEF MinOf
<1> HIDE DEF most
<1>6. CASE q.final
  <2>1. HashChunk(q) = most
    BY <1>6 DEF HashChunk, most
  <2> QED BY <2>1, <1>2, <1>3, <1>4, <1>5, <1>6
<1>7. CASE ~q.final
  <2>1. HashChunk(q) = most - (most % BlockSize)
    BY <1>7 DEF HashChunk, most
  <2>2. MaxCarry <= most
    BY <1>2, <1>3, <1>5, <1>7 DEF CarriesOver
  <2>3. most - (most % BlockSize) \in 0 .. most /\ Whole(most - (most % BlockSize))
        /\ \A b \in 0 .. most : Whole(b) => b <= most - (most % BlockSize)
    BY <1>5, Cut
  <2>4. MaxCarry <= most - (most % BlockSize)
    BY <1>3, <1>5, <2>2, <2>3
  <2> DEFINE n == most - (most % BlockSize)
  <2>5. n \in 0 .. most /\ Whole(n) /\ MaxCarry <= n /\ HashChunk(q) = n
    BY <2>1, <2>3, <2>4
  <2> HIDE DEF n
  <2>6. q.carry <= n
    BY <1>1, <1>3, <2>5 DEF HashGiven, CarryFits
  <2> QED BY <1>2, <1>3, <1>5, <1>7, <2>5, <2>6
<1> QED
  BY <1>6, <1>7

\* Where the message leaves the place in the list.
LEMMA HashSentPlace ==
  ASSUME NEW q, HashGiven(q), ~CarriesOver(q), HashSent(q).sent < q.todo
  PROVE  /\ HashPlace(HashSent(q))
         /\ Len(q.srcList) = 1 => q.scattered \/ HashExact(HashSent(q))
<1> DEFINE n == HashChunk(q) - q.carry
           t == HashSent(q)
<1>1. /\ q.todo \in Nat /\ q.sent \in Nat /\ q.carry \in Nat /\ q.base \in Nat
      /\ HashChunk(q) \in Nat /\ q.carry <= HashChunk(q) /\ HashChunk(q) <= Left(q)
  BY ChunkFacts DEF HashGiven, Context
<1>2. n \in Nat /\ Left(q) = q.todo - q.sent
  BY <1>1 DEF Left
<1>3. /\ t.sent = q.sent + HashChunk(q) /\ t.carry = 0 /\ t.base = q.base /\ t.todo = q.todo
      /\ t.srcList = q.srcList /\ t.scattered = q.scattered /\ t.src = SgAdd(q.srcList, q.src, n)
  BY DEF HashSent, HashGiven, Context
<1>4. ~(q.final /\ q.todo = q.sent + q.carry)
  BY <1>1, <1>3
<1>5. HashPlace(q) /\ (q.scattered \/ HashExact(q))
  BY <1>4 DEF HashGiven
<1>6. q.srcList \in Lists /\ InList(q.srcList, q.src) /\ q.base + Size(q.srcList) = q.todo
      /\ q.base + Offset(q.srcList, q.src) <= q.sent + q.carry /\ Size(q.srcList) \in Nat
  BY <1>5, ListFacts DEF HashPlace
<1>7. Offset(q.srcList, q.src) \in Nat
  BY <1>6, ListFacts DEF InList, Place, Offset
<1>8. q.base + Offset(q.srcList, q.src) + n < q.todo
  BY <1>1, <1>2, <1>3, <1>6, <1>7
<1>9. Offset(q.srcList, q.src) + n < Size(q.srcList)
  BY <1>1, <1>2, <1>6, <1>7, <1>8
<1>10. /\ InList(q.srcList, t.src)
       /\ Offset(q.srcList, t.src) \in 0 .. Offset(q.srcList, q.src) + n
  BY <1>2, <1>3, <1>6, <1>7, <1>9, SgAddBack
<1>11. HashPlace(t)
  BY <1>1, <1>2, <1>3, <1>6, <1>7, <1>10 DEF HashPlace
<1>12. ASSUME Len(q.srcList) = 1, ~q.scattered
       PROVE  HashExact(t)
  <2>1. q.src.sg = 1 /\ q.base + q.src.skip = q.sent + q.carry
    BY <1>5, <1>12 DEF HashExact
  <2>2. t.src.sg = 1 /\ t.src.skip = Offset(q.srcList, q.src) + n
    BY <1>2, <1>3, <1>6, <1>9, <1>12, SgAddOne
  <2>3. Offset(q.srcList, q.src) = q.src.skip
    BY <1>6, <2>1 DEF Offset, Begin, InList, Place
  <2> QED BY <1>1, <1>2, <1>3, <1>7, <2>1, <2>2, <2>3 DEF HashExact
<1> QED
  BY <1>11, <1>12

\* SgAdd's result is a place, whatever the message.
LEMMA HashSentSrc ==
  ASSUME NEW q, HashGiven(q), ~CarriesOver(q)
  PROVE  HashSent(q).src \in Place
<1> DEFINE n == HashChunk(q) - q.carry
<1>1. /\ q.todo \in Nat /\ q.sent \in Nat /\ q.carry \in Nat /\ q.base \in Nat /\ q.src \in Place
      /\ HashChunk(q) \in Nat /\ q.carry <= HashChunk(q) /\ HashChunk(q) <= Left(q)
  BY ChunkFacts DEF HashGiven, Context
<1>2. n \in Nat /\ Left(q) = q.todo - q.sent
  BY <1>1 DEF Left
<1>3. HashSent(q).src = SgAdd(q.srcList, q.src, n)
  BY DEF HashSent, HashGiven, Context
<1>4. CASE q.final /\ q.todo = q.sent + q.carry
  <2>1. n = 0
    BY <1>1, <1>4, ChunkFacts
  <2> QED BY <2>1, <1>1, <1>3 DEF SgAdd
<1>5. CASE HashPlace(q)
  <2>1. q.srcList \in Lists /\ InList(q.srcList, q.src) /\ q.base + Size(q.srcList) = q.todo
        /\ q.base + Offset(q.srcList, q.src) <= q.sent + q.carry /\ Size(q.srcList) \in Nat
    BY <1>5, ListFacts DEF HashPlace
  <2>2. Offset(q.srcList, q.src) \in Nat
    BY <2>1, ListFacts DEF InList, Place, Offset
  <2>3. Offset(q.srcList, q.src) + n <= Size(q.srcList)
    BY <1>1, <1>2, <2>1, <2>2
  <2> QED BY <1>2, <1>3, <2>1, <2>3, SgAddBack DEF InList
<1> QED
  BY <1>4, <1>5 DEF HashGiven

LEMMA HashSentType ==
  ASSUME NEW q \in Context, NEW sent \in Nat,
         NEW type \in Types, NEW len \in Nat,
         NEW src \in Place, NEW good \in BOOLEAN
  PROVE  [q EXCEPT !.at = "busy", !.sent = sent, !.carry = 0, !.type = type, !.len = len,
                   !.src = src, !.good = good] \in Context
BY DEF Context

LEMMA CarriedType ==
  ASSUME NEW q \in Context, NEW carry \in Nat, NEW good \in BOOLEAN
  PROVE  [q EXCEPT !.carry = carry, !.at = "ready", !.good = good] \in Context
BY DEF Context

LEMMA HashSentKept ==
  ASSUME NEW q, HashGiven(q), ~CarriesOver(q)
  PROVE  HashKept(HashSent(q)) /\ HashSent(q).at = "busy"
<1> DEFINE t == HashSent(q)
           n == HashChunk(q)
<1>1. /\ q.todo \in Nat /\ q.sent \in Nat /\ q.carry \in Nat /\ q.base \in Nat
      /\ q.final \in BOOLEAN /\ Whole(q.sent) /\ q.mode = "hash" /\ q \in Context
      /\ n \in Nat /\ q.carry <= n /\ n <= Left(q) /\ Left(q) = q.todo - q.sent
  BY ChunkFacts DEF HashGiven, Context, Left
<1>2. /\ t.at = "busy" /\ t.mode = "hash" /\ t.sent = q.sent + n /\ t.carry = 0 /\ t.todo = q.todo
      /\ t.final = q.final /\ t.len = n /\ t.type = HashType(q) /\ t.scattered = q.scattered
      /\ t.srcList = q.srcList
  BY <1>1 DEF HashSent, Context
<1>3. t.good = (q.good /\ n - q.carry >= 0
                /\ (n - q.carry = 0 \/ q.base + Offset(q.srcList, q.src) = q.sent + q.carry))
  BY <1>1 DEF HashSent, Context
<1>4. HashType(q) \in {"init", "updt", "fin", "full"}
  BY DEF HashType
<1>5. t \in Context
  <2>1. t.src \in Place
    BY HashSentSrc
  <2>2. t.good \in BOOLEAN
    BY <1>3, Zenon
  <2>3. q \in Context /\ n \in Nat /\ q.sent + n \in Nat
    BY <1>1
  <2>4. t = [q EXCEPT !.at = "busy", !.sent = q.sent + n, !.carry = 0, !.type = HashType(q),
               !.len = n, !.src = t.src, !.good = t.good]
    BY <1>1 DEF HashSent, Context
  <2>5. HashType(q) \in Types
    BY <1>4 DEF Types
  <2> HIDE DEF t, n
  <2>6. [q EXCEPT !.at = "busy", !.sent = q.sent + n, !.carry = 0, !.type = HashType(q),
               !.len = n, !.src = t.src, !.good = t.good] \in Context
    BY <2>1, <2>2, <2>3, <2>5, HashSentType, Zenon
  <2> QED BY <2>4, <2>6, Zenon
<1>6. t.good \/ t.scattered
  <2> SUFFICES ASSUME ~q.scattered PROVE t.good
    BY <1>2
  <2>1. q.good
    BY DEF HashGiven
  <2>2. CASE q.final /\ q.todo = q.sent + q.carry
    <3>1. n = q.carry
      BY <2>2, ChunkFacts
    <3>2. n - q.carry >= 0 /\ n - q.carry = 0
      BY <1>1, <3>1
    <3> QED BY <1>3, <2>1, <3>2, Zenon
  <2>3. CASE HashPlace(q) /\ HashExact(q)
    <3>1. Offset(q.srcList, q.src) = q.src.skip
      BY <2>3 DEF HashPlace, HashExact, InList, Place, Offset, Begin
    <3>2. n - q.carry >= 0 /\ q.base + Offset(q.srcList, q.src) = q.sent + q.carry
      BY <1>1, <2>3, <3>1 DEF HashExact
    <3> QED BY <1>3, <2>1, <3>2, Zenon
  <2> QED BY <2>2, <2>3 DEF HashGiven
<1>7. \/ q.final /\ t.sent = q.todo
      \/ n > 0 /\ Whole(n) /\ Whole(t.sent)
  <2>1. (q.final /\ n = Left(q)) \/ (n > 0 /\ Whole(n))
    BY ChunkFacts
  <2>2. Whole(n) => Whole(q.sent + n)
    BY <1>1, WholeSum
  <2> HIDE DEF t, n
  <2> QED BY <1>1, <1>2, <2>1, <2>2
<1>8. TypeRight(t)
  <2>1. (t.sent - t.len) = q.sent
    BY <1>1, <1>2
  <2>2. q.sent = 0 <=> t.sent = t.len
    BY <1>1, <1>2
  <2>3. t.type \in {"init", "full"} <=> q.sent = 0
    BY <1>2 DEF HashType
  <2>4. t.type \in {"fin", "full"} <=> q.final /\ t.sent = q.todo
    BY <1>2 DEF HashType
  <2>5. t.type \in {"init", "updt"} => ~(q.final /\ t.sent = q.todo)
    BY <2>4
  <2> QED BY <1>1, <1>2, <1>7, <2>1, <2>2, <2>3, <2>4, <2>5 DEF TypeRight, Whole
<1>9. t.sent <= t.todo /\ (t.sent < t.todo => HashPlace(t) /\ (Len(t.srcList) = 1 => t.scattered \/ HashExact(t)))
  BY <1>1, <1>2, HashSentPlace
<1>10. HashBusy(t)
  <2>1. (t.final /\ t.sent = t.todo) \/ Whole(t.sent)
    BY <1>2, <1>7
  <2> HIDE DEF t, n
  <2> QED BY <2>1, <1>2, <1>8, <1>9 DEF HashBusy
<1>11. CarryFits(t)
  BY <1>2, MaxCarryFacts DEF CarryFits
<1> QED
  <2> HIDE DEF t, n
  <2> QED BY <1>2, <1>5, <1>6, <1>10, <1>11 DEF HashKept, t

LEMMA CarriedKept ==
  ASSUME NEW q, HashGiven(q), CarriesOver(q)
  PROVE  HashKept(Finished(Carried(q), FALSE)) /\ Finished(Carried(q), FALSE).at = "ready"
<1> DEFINE t == Finished(Carried(q), FALSE)
<1>1. /\ q.todo \in Nat /\ q.sent \in Nat /\ q.carry \in Nat /\ q.base \in Nat
      /\ Whole(q.sent) /\ q.mode = "hash" /\ q \in Context
      /\ ~q.final /\ q.sent + q.carry <= q.todo /\ Left(q) = q.todo - q.sent /\ Left(q) < MaxCarry
  BY DEF HashGiven, Context, Left, CarriesOver
<1>2. t = [q EXCEPT !.carry = Left(q), !.at = "ready",
             !.good = @ /\ (Left(q) = q.carry \/ q.base + q.src.skip = q.sent + q.carry)]
  BY <1>1 DEF Finished, Carried, Context
<1>3. t.at = "ready" /\ t.mode = "hash" /\ t.carry = Left(q) /\ t.final = q.final /\ t.todo = q.todo
      /\ t.sent = q.sent /\ t.scattered = q.scattered
      /\ t.good = (q.good /\ (Left(q) = q.carry \/ q.base + q.src.skip = q.sent + q.carry))
  BY <1>1, <1>2 DEF Context
<1>4. t \in Context
  <2>1. Left(q) \in Nat
    BY <1>1
  <2>2. (q.good /\ (Left(q) = q.carry \/ q.base + q.src.skip = q.sent + q.carry)) \in BOOLEAN
    BY Zenon
  <2>3. [q EXCEPT !.carry = Left(q), !.at = "ready",
                  !.good = @ /\ (Left(q) = q.carry \/ q.base + q.src.skip = q.sent + q.carry)]
        \in Context
    BY <1>1, <2>1, <2>2, CarriedType, Zenon
  <2> QED BY <1>2, <2>3, Zenon
<1>5. t.good \/ t.scattered
  <2> SUFFICES ASSUME ~q.scattered PROVE t.good
    BY <1>3
  <2>1. q.good /\ q.base + q.src.skip = q.sent + q.carry
    BY <1>1 DEF HashGiven, HashExact
  <2> QED BY <1>3, <2>1, Zenon
<1>6. HashReady(t) /\ CarryFits(t)
  <2>1. q.todo = q.sent + Left(q)
    BY <1>1
  <2> HIDE DEF t
  <2> QED BY <1>1, <1>3, <2>1 DEF HashReady, CarryFits
<1> QED
  <2> HIDE DEF t
  <2> QED BY <1>3, <1>4, <1>5, <1>6 DEF HashKept, t

-----------------------------------------------------------------------------
(* Ciphers.                                                                *)

CipherModes == {"enc", "dec", "ctr", "ofb"}

CipherPlace(q) ==
  /\ q.srcList \in Lists /\ InList(q.srcList, q.src)
  /\ q.dstList \in Lists /\ InList(q.dstList, q.dst)
  /\ Size(q.srcList) = q.todo /\ Size(q.dstList) = q.todo
  /\ Offset(q.srcList, q.src) <= q.sent /\ Offset(q.dstList, q.dst) <= q.sent

\* The places are exact, and so is the IV; in OFB and XTS only at the start.
CipherExact(q) ==
  /\ q.src.sg = 1 /\ q.src.skip = q.sent /\ q.dst.sg = 1 /\ q.dst.skip = q.sent
  /\ q.sent > 0 => q.sent >= IvLen
  /\ q.sent = 0 => q.iv = 0
  /\ q.mode \in {"dec", "ctr"} => q.iv = q.sent

CipherGiven(q) ==
  /\ q \in Context /\ q.mode \in CipherModes /\ q.sent < q.todo /\ q.carry = 0
  /\ CipherPlace(q)
  /\ \/ q.scattered
     \/ q.mode = "ofb" /\ q.sent > 0
     \/ q.good /\ CipherExact(q)

CipherKept(q) ==
  /\ q \in Context /\ q.mode \in CipherModes /\ q.at = "busy" /\ q.sent <= q.todo /\ q.carry = 0
  /\ 0 < q.sent
  /\ \/ q.scattered
     \/ q.mode = "ofb" /\ q.sent > q.len
     \/ q.good
  /\ q.sent < q.todo =>
       /\ CipherPlace(q)
       /\ \/ q.scattered \/ q.mode = "ofb"
          \/ Len(q.srcList) > 1 \/ Len(q.dstList) > 1
          \/ CipherExact(q)

LEMMA CipherSentType ==
  ASSUME NEW q \in Context, NEW sent \in Nat, NEW len \in Nat, NEW src \in Place, NEW dst \in Place,
         NEW iv \in Nat, NEW good \in BOOLEAN
  PROVE  [q EXCEPT !.at = "busy", !.sent = sent, !.len = len, !.src = src, !.dst = dst,
                   !.iv = iv, !.good = good] \in Context
BY DEF Context

LEMMA CipherSentKept ==
  ASSUME NEW q, CipherGiven(q)
  PROVE  CipherKept(CipherSent(q)) /\ CipherSent(q).at = "busy"
<1> DEFINE t == CipherSent(q)
           n == CipherChunk(q)
           exact == ~q.scattered /\ ~(q.mode = "ofb" /\ q.sent > 0)
<1>1. /\ q \in Context /\ q.todo \in Nat /\ q.sent \in Nat /\ q.iv \in Nat /\ q.sent < q.todo
      /\ q.src \in Place /\ q.dst \in Place /\ q.src.skip \in Nat /\ q.dst.skip \in Nat
      /\ q.mode \in CipherModes /\ q.carry = 0
  BY DEF CipherGiven, Context, Place
<1>2. n \in Nat /\ 0 < n /\ n <= Left(q) /\ Left(q) = q.todo - q.sent
      /\ (n # Left(q) => n = MaxPayload) /\ MaxPayload \in Nat /\ IvLen \in Nat /\ IvLen <= MaxPayload
  BY <1>1, SpuAssumption DEF CipherChunk, MinOf, Left
<1>3. IvUsed(q) \in Nat /\ IvNext(q, n) \in Nat
  BY <1>1, <1>2 DEF IvUsed, IvNext
<1>4. /\ t.at = "busy" /\ t.mode = q.mode /\ t.todo = q.todo /\ t.sent = q.sent + n /\ t.len = n
      /\ t.carry = q.carry /\ t.scattered = q.scattered /\ t.srcList = q.srcList
      /\ t.dstList = q.dstList /\ t.src = SgAdd(q.srcList, q.src, n)
      /\ t.dst = SgAdd(q.dstList, q.dst, n) /\ t.iv = IvNext(q, n)
  BY <1>1 DEF CipherSent, Context
<1>5. t.good = (q.good /\ IvUsed(q) = q.sent /\ Offset(q.srcList, q.src) = q.sent
                       /\ Offset(q.dstList, q.dst) = q.sent)
  BY <1>1 DEF CipherSent, Context
<1>6. CipherPlace(q)
  BY DEF CipherGiven
<1>7. /\ q.srcList \in Lists /\ InList(q.srcList, q.src) /\ Offset(q.srcList, q.src) <= q.sent
      /\ q.dstList \in Lists /\ InList(q.dstList, q.dst) /\ Offset(q.dstList, q.dst) <= q.sent
      /\ Size(q.srcList) = q.todo /\ Size(q.dstList) = q.todo
  BY <1>6 DEF CipherPlace
<1>8. Offset(q.srcList, q.src) \in Nat /\ Offset(q.dstList, q.dst) \in Nat
  BY <1>7, OffsetIsNat
<1> HIDE DEF t, n
<1>9. /\ InList(q.srcList, t.src) /\ Offset(q.srcList, t.src) \in 0 .. Offset(q.srcList, q.src) + n
      /\ InList(q.dstList, t.dst) /\ Offset(q.dstList, t.dst) \in 0 .. Offset(q.dstList, q.dst) + n
  <2>1. Offset(q.srcList, q.src) + n <= Size(q.srcList) /\ Offset(q.dstList, q.dst) + n <= Size(q.dstList)
    BY <1>1, <1>2, <1>7, <1>8
  <2> QED BY <1>2, <1>4, <1>7, <2>1, SgAddBack
<1>10. t.sent \in Nat /\ t.sent <= t.todo /\ 0 < t.sent
  BY <1>1, <1>2, <1>4
<1>11. t \in Context
  <2>1. t.src \in Place /\ t.dst \in Place
    BY <1>9 DEF InList
  <2>2. t.good \in BOOLEAN
    BY <1>5, Zenon
  <2>3. q.sent + n \in Nat
    BY <1>1, <1>2
  <2>4. t = [q EXCEPT !.at = "busy", !.sent = q.sent + n, !.len = n, !.src = t.src,
               !.dst = t.dst, !.iv = IvNext(q, n), !.good = t.good]
    BY <1>1 DEF CipherSent, Context, t, n
  <2>5. [q EXCEPT !.at = "busy", !.sent = q.sent + n, !.len = n, !.src = t.src,
               !.dst = t.dst, !.iv = IvNext(q, n), !.good = t.good] \in Context
    BY <1>1, <1>2, <1>3, <2>1, <2>2, <2>3, CipherSentType, ZenonT(30)
  <2> QED BY <2>4, <2>5, Zenon
<1>12. CipherPlace(t)
  BY <1>1, <1>2, <1>4, <1>7, <1>8, <1>9 DEF CipherPlace
<1>13. ASSUME exact
       PROVE  q.good /\ CipherExact(q) /\ Offset(q.srcList, q.src) = q.sent
              /\ Offset(q.dstList, q.dst) = q.sent /\ IvUsed(q) = q.sent
  <2>1. q.good /\ CipherExact(q)
    BY <1>13 DEF CipherGiven
  <2>2. Offset(q.srcList, q.src) = q.sent /\ Offset(q.dstList, q.dst) = q.sent
    BY <1>1, <2>1 DEF CipherExact, Offset, Begin
  <2>3. IvUsed(q) = q.sent
    BY <1>1, <1>2, <1>13, <2>1 DEF CipherExact, IvUsed, CipherModes
  <2> QED BY <2>1, <2>2, <2>3
<1>14. t.scattered \/ (t.mode = "ofb" /\ t.sent > t.len) \/ t.good
  <2>1. exact => t.good
    BY <1>5, <1>13, Zenon
  <2>2. q.sent > 0 => t.sent > t.len
    BY <1>1, <1>2, <1>4
  <2> QED BY <1>4, <2>1, <2>2
<1>15. ASSUME t.sent < t.todo, exact, q.mode # "ofb", ~(Len(q.srcList) > 1), ~(Len(q.dstList) > 1)
       PROVE  CipherExact(t)
  <2>1. Len(q.srcList) = 1 /\ Len(q.dstList) = 1
    BY <1>7, <1>15, OneEntry
  <2>2. Offset(q.srcList, q.src) + n < Size(q.srcList) /\ Offset(q.dstList, q.dst) + n < Size(q.dstList)
    BY <1>1, <1>2, <1>4, <1>7, <1>13, <1>15
  <2>3. t.src.sg = 1 /\ t.src.skip = q.sent + n /\ t.dst.sg = 1 /\ t.dst.skip = q.sent + n
    BY <1>2, <1>4, <1>7, <1>13, <1>15, <2>1, <2>2, SgAddOne
  <2>4. n = MaxPayload /\ n # Left(q)
    BY <1>1, <1>2, <1>4, <1>15
  <2>5. t.sent > 0 /\ t.sent >= IvLen
    BY <1>1, <1>2, <1>4, <2>4
  <2>6. q.mode = "dec" => t.iv = q.sent + n
    <3>1. q.src.skip = q.sent
      BY <1>13, <1>15 DEF CipherExact
    <3> QED BY <1>4, <2>4, <3>1 DEF IvNext
  <2>7. q.mode = "ctr" => t.iv = q.sent + n
    BY <1>4, <1>13, <1>15, <2>4 DEF IvNext
  <2> QED BY <1>4, <2>3, <2>5, <2>6, <2>7 DEF CipherExact
<1>16. t.sent < t.todo =>
         \/ t.scattered \/ t.mode = "ofb"
         \/ Len(t.srcList) > 1 \/ Len(t.dstList) > 1
         \/ CipherExact(t)
  BY <1>4, <1>15
<1> QED
  BY <1>1, <1>4, <1>10, <1>11, <1>12, <1>14, <1>16 DEF CipherKept, t

-----------------------------------------------------------------------------
(* The data of all contexts.                                               *)

DataInv ==
  /\ rctx \in [Reqs -> Context]
  /\ \A r \in Hashes : rctx[r] = Unused \/ HashKept(rctx[r])
  /\ \A r \in Ciphers : rctx[r] = Unused \/ CipherKept(rctx[r])

Kept(r, q) ==
  /\ q \in Context
  /\ r \in Hashes => q = Unused \/ HashKept(q)
  /\ r \in Ciphers => q = Unused \/ CipherKept(q)

LEMMA UnusedType == Unused \in Context /\ \A r \in Reqs : Kept(r, Unused)
BY SMT DEF Unused, Context, Types, Kept, Start, Place

LEMMA SetKept ==
  ASSUME DataInv, NEW r \in Reqs, NEW q, Kept(r, q), rctx' = [rctx EXCEPT ![r] = q]
  PROVE  DataInv'
<1>1. rctx' \in [Reqs -> Context]
  BY DEF DataInv, Kept
<1>2. \A s \in Reqs : rctx'[s] = IF s = r THEN q ELSE rctx[s]
  BY DEF DataInv
<1>3. Hashes \subseteq Reqs /\ Ciphers \subseteq Reqs
  BY DEF Reqs
<1>4. \A s \in Hashes : rctx'[s] = Unused \/ HashKept(rctx'[s])
  BY <1>2, <1>3 DEF DataInv, Kept
<1>5. \A s \in Ciphers : rctx'[s] = Unused \/ CipherKept(rctx'[s])
  BY <1>2, <1>3 DEF DataInv, Kept
<1> QED
  BY <1>1, <1>4, <1>5 DEF DataInv

\* Whatever becomes of a request, Handle leaves its context right; it is busy
\* exactly if a message was accepted.
LEMMA HandleHash ==
  ASSUME NEW r \in Hashes, NEW q, HashGiven(q), Handle(r, q)
  PROVE  \E t : /\ Kept(r, t) /\ rctx' = [rctx EXCEPT ![r] = t]
                /\ \/ t.at = "busy" /\ Pdc!Accept(ChanOf[r], r)
                   \/ t.at # "busy" /\ UNCHANGED <<queue, answering>>
<1>1. r \in Reqs /\ r \notin Ciphers /\ q.mode = "hash"
  BY SpuAssumption DEF Reqs, HashGiven
<1>2. CASE CarriesOver(q)
  <2>1. rctx' = [rctx EXCEPT ![r] = Finished(Carried(q), FALSE)] /\ UNCHANGED <<queue, answering>>
    BY <1>1, <1>2 DEF Handle
  <2>2. Kept(r, Finished(Carried(q), FALSE)) /\ Finished(Carried(q), FALSE).at # "busy"
    BY <1>1, <1>2, CarriedKept DEF Kept, HashKept
  <2> QED BY <2>1, <2>2
<1>3. CASE ~CarriesOver(q) /\ Pdc!Accept(ChanOf[r], r) /\ rctx' = [rctx EXCEPT ![r] = HashSent(q)]
  <2>1. Kept(r, HashSent(q)) /\ HashSent(q).at = "busy"
    BY <1>1, <1>3, HashSentKept DEF Kept, HashKept
  <2> QED BY <1>3, <2>1
<1>4. CASE rctx' = [rctx EXCEPT ![r] = Finished(q, TRUE)] /\ UNCHANGED <<queue, answering>>
  <2>1. Finished(q, TRUE) = Unused /\ Unused.at # "busy"
    BY DEF Finished, Unused
  <2> QED BY <1>1, <1>4, <2>1, UnusedType
<1> QED
  BY <1>1, <1>2, <1>3, <1>4 DEF Handle

LEMMA HandleCipher ==
  ASSUME NEW r \in Ciphers, NEW q, CipherGiven(q), Handle(r, q)
  PROVE  \E t : /\ Kept(r, t) /\ rctx' = [rctx EXCEPT ![r] = t]
                /\ \/ t.at = "busy" /\ Pdc!Accept(ChanOf[r], r)
                   \/ t.at # "busy" /\ UNCHANGED <<queue, answering>>
<1>1. r \in Reqs /\ r \notin Hashes /\ q.mode # "hash"
  BY SpuAssumption DEF Reqs, CipherGiven, CipherModes
<1>2. CASE Pdc!Accept(ChanOf[r], r) /\ rctx' = [rctx EXCEPT ![r] = CipherSent(q)]
  <2>1. Kept(r, CipherSent(q)) /\ CipherSent(q).at = "busy"
    BY <1>1, CipherSentKept DEF Kept, CipherKept
  <2> QED BY <1>2, <2>1
<1>3. CASE rctx' = [rctx EXCEPT ![r] = Finished(q, TRUE)] /\ UNCHANGED <<queue, answering>>
  <2>1. Finished(q, TRUE) = Unused /\ Unused.at # "busy"
    BY DEF Finished, Unused
  <2> QED BY <1>1, <1>3, <2>1, UnusedType
<1> QED
  BY <1>1, <1>2, <1>3 DEF Handle

-----------------------------------------------------------------------------
(* What the operations give to Handle.                                     *)

LEMMA ReadyKept ==
  ASSUME DataInv, NEW r \in Hashes, rctx[r].at = "ready"
  PROVE  HashKept(rctx[r]) /\ HashReady(rctx[r])
<1>1. rctx[r] # Unused
  BY DEF Unused
<1> QED
  BY <1>1 DEF DataInv, HashKept

LEMMA DataType ==
  ASSUME NEW q \in Context, NEW base \in Nat, NEW todo \in Nat, NEW final \in BOOLEAN,
         NEW list \in Lists, NEW src \in Place
  PROVE  [q EXCEPT !.base = base, !.todo = todo, !.final = final, !.srcList = list, !.src = src]
         \in Context
BY DEF Context

LEMMA DataGiven ==
  ASSUME NEW q, HashKept(q), HashReady(q), NEW list \in Lists, NEW final \in BOOLEAN
  PROVE  HashGiven([q EXCEPT !.base = q.todo, !.todo = @ + Size(list), !.final = final,
                             !.srcList = list, !.src = Start])
<1> DEFINE t == [q EXCEPT !.base = q.todo, !.todo = @ + Size(list), !.final = final,
                          !.srcList = list, !.src = Start]
<1>1. /\ q \in Context /\ q.mode = "hash" /\ q.todo \in Nat /\ q.sent \in Nat /\ q.carry \in Nat
      /\ q.todo = q.sent + q.carry /\ Whole(q.sent) /\ CarryFits(q) /\ (q.good \/ q.scattered)
  BY DEF HashKept, HashReady, Context
<1>2. Size(list) \in Nat \ {0} /\ InList(list, Start) /\ Offset(list, Start) = 0
      /\ Start.sg = 1 /\ Start.skip = 0
  BY ListFacts, StartFacts
<1>3. /\ t.mode = "hash" /\ t.sent = q.sent /\ t.carry = q.carry /\ t.base = q.todo
      /\ t.todo = q.todo + Size(list) /\ t.good = q.good /\ t.scattered = q.scattered
      /\ t.srcList = list /\ t.src = Start
  BY <1>1 DEF Context
<1>4. t \in Context
  <2>1. q.todo + Size(list) \in Nat /\ Start \in Place
    BY <1>1, <1>2 DEF InList
  <2> QED BY <1>1, <2>1, DataType
<1> HIDE DEF t
<1>5. HashPlace(t) /\ HashExact(t)
  BY <1>1, <1>2, <1>3 DEF HashPlace, HashExact
<1>6. t.sent + t.carry <= t.todo /\ CarryFits(t)
  BY <1>1, <1>2, <1>3 DEF CarryFits
<1>7. HashGiven(t)
  BY <1>1, <1>3, <1>4, <1>5, <1>6 DEF HashGiven
<1> QED
  BY <1>7 DEF t

LEMMA StartIsPlace == Start \in Place
BY DEF Start, Place

LEMMA FinalType ==
  ASSUME NEW q \in Context, NEW src \in Place
  PROVE  [q EXCEPT !.final = TRUE, !.src = src] \in Context
BY DEF Context

LEMMA FinalGiven ==
  ASSUME NEW q, HashKept(q), HashReady(q)
  PROVE  HashGiven([q EXCEPT !.final = TRUE, !.src = Start])
<1> DEFINE t == [q EXCEPT !.final = TRUE, !.src = Start]
<1>1. /\ q \in Context /\ q.mode = "hash" /\ q.todo \in Nat /\ q.sent \in Nat /\ q.carry \in Nat
      /\ q.todo = q.sent + q.carry /\ Whole(q.sent) /\ CarryFits(q) /\ (q.good \/ q.scattered)
  BY DEF HashKept, HashReady, Context
<1>2. /\ t.mode = "hash" /\ t.sent = q.sent /\ t.carry = q.carry /\ t.todo = q.todo
      /\ t.good = q.good /\ t.scattered = q.scattered /\ t.final = TRUE
  BY <1>1 DEF Context
<1>3. t \in Context
  BY <1>1, StartIsPlace, FinalType
<1> HIDE DEF t
<1>4. t.sent + t.carry <= t.todo /\ CarryFits(t) /\ t.todo = t.sent + t.carry
  BY <1>1, <1>2 DEF CarryFits
<1>5. HashGiven(t)
  BY <1>1, <1>2, <1>3, <1>4 DEF HashGiven
<1> QED
  BY <1>5 DEF t

LEMMA InitType ==
  ASSUME NEW q \in Context, NEW pad \in Nat
  PROVE  [q EXCEPT !.at = "ready", !.mode = "hash", !.todo = pad, !.carry = pad] \in Context
BY DEF Context

LEMMA InitKept ==
  ASSUME NEW r \in Hashes, NEW pad \in {0, BlockSize}
  PROVE  Kept(r, [Unused EXCEPT !.at = "ready", !.mode = "hash", !.todo = pad, !.carry = pad])
<1> DEFINE t == [Unused EXCEPT !.at = "ready", !.mode = "hash", !.todo = pad, !.carry = pad]
<1>1. pad \in Nat
  BY SpuAssumption
<1>2. /\ t.at = "ready" /\ t.mode = "hash" /\ t.todo = pad /\ t.carry = pad /\ t.sent = 0
      /\ t.final = FALSE /\ t.good = TRUE
  BY DEF Unused
<1>3. t \in Context
  <2>1. Unused \in Context
    BY UnusedType
  <2> QED BY <1>1, <2>1, InitType
<1> HIDE DEF t
<1>4. CarryFits(t) /\ HashReady(t)
  BY <1>1, <1>2, MaxCarryFacts DEF CarryFits, HashReady
<1>5. HashKept(t)
  BY <1>2, <1>3, <1>4 DEF HashKept
<1>6. r \notin Ciphers
  BY SpuAssumption
<1> QED
  BY <1>3, <1>5, <1>6 DEF Kept, t

LEMMA EnqueueGiven ==
  ASSUME NEW mode \in CipherModes, NEW src \in Lists, NEW dst \in Lists, Size(src) = Size(dst)
  PROVE  CipherGiven([Unused EXCEPT !.mode = mode, !.todo = Size(src), !.srcList = src, !.dstList = dst])
<1> DEFINE t == [Unused EXCEPT !.mode = mode, !.todo = Size(src), !.srcList = src, !.dstList = dst]
<1>1. Size(src) \in Nat \ {0} /\ InList(src, Start) /\ Offset(src, Start) = 0
      /\ Start.sg = 1 /\ Start.skip = 0
  BY ListFacts, StartFacts
<1>2. Size(dst) \in Nat \ {0} /\ InList(dst, Start) /\ Offset(dst, Start) = 0
  BY ListFacts, StartFacts
<1>3. /\ t.mode = mode /\ t.todo = Size(src) /\ t.sent = 0 /\ t.carry = 0 /\ t.srcList = src
      /\ t.dstList = dst /\ t.src = Start /\ t.dst = Start /\ t.good = TRUE /\ t.iv = 0
  BY DEF Unused
<1>4. t \in Context
  BY <1>1, UnusedType DEF Context, CipherModes
<1> HIDE DEF t
<1>5. CipherPlace(t) /\ CipherExact(t)
  BY <1>1, <1>2, <1>3 DEF CipherPlace, CipherExact
<1>6. CipherGiven(t)
  BY <1>1, <1>3, <1>4, <1>5 DEF CipherGiven
<1> QED
  BY <1>6 DEF t

-----------------------------------------------------------------------------
(* The next message of a request.                                          *)

NextPart(q) == [q EXCEPT !.scattered = @ \/ Len(q.srcList) > 1 \/ Len(q.dstList) > 1]

LEMMA NextMessage ==
  ASSUME NEW q \in Context
  PROVE  /\ NextPart(q) \in Context
         /\ NextPart(q).scattered <=> q.scattered \/ Len(q.srcList) > 1 \/ Len(q.dstList) > 1
         /\ NextPart(q).at = q.at /\ NextPart(q).mode = q.mode /\ NextPart(q).todo = q.todo
         /\ NextPart(q).sent = q.sent /\ NextPart(q).carry = q.carry /\ NextPart(q).final = q.final
         /\ NextPart(q).base = q.base /\ NextPart(q).srcList = q.srcList /\ NextPart(q).src = q.src
         /\ NextPart(q).dstList = q.dstList /\ NextPart(q).dst = q.dst /\ NextPart(q).iv = q.iv
         /\ NextPart(q).good = q.good /\ NextPart(q).len = q.len
<1> DEFINE b == q.scattered \/ Len(q.srcList) > 1 \/ Len(q.dstList) > 1
<1>1. b \in BOOLEAN
  BY Zenon
<1>2. NextPart(q) = [q EXCEPT !.scattered = b]
  BY DEF NextPart, Context
<1> HIDE DEF b
<1>3. [q EXCEPT !.scattered = b] \in Context /\ [q EXCEPT !.scattered = b].scattered = b
  BY <1>1 DEF Context
<1> QED
  BY <1>2, <1>3 DEF Context, b

LEMMA HashNextGiven ==
  ASSUME NEW q, HashKept(q), q.at = "busy", MoreToSend(q)
  PROVE  HashGiven(NextPart(q))
<1> DEFINE t == NextPart(q)
<1>1. /\ q \in Context /\ q.mode = "hash" /\ q.todo \in Nat /\ q.sent \in Nat /\ q.carry = 0
      /\ q.sent < q.todo /\ HashBusy(q) /\ CarryFits(q) /\ (q.good \/ q.scattered)
  BY DEF HashKept, HashBusy, Context, MoreToSend
<1>2. Whole(q.sent) /\ HashPlace(q) /\ (Len(q.srcList) = 1 => q.scattered \/ HashExact(q))
  BY <1>1 DEF HashBusy
<1>3. /\ t \in Context /\ t.mode = "hash" /\ t.sent = q.sent /\ t.carry = q.carry /\ t.todo = q.todo
      /\ t.base = q.base /\ t.srcList = q.srcList /\ t.src = q.src /\ t.good = q.good
      /\ (t.scattered <=> q.scattered \/ Len(q.srcList) > 1 \/ Len(q.dstList) > 1)
  BY <1>1, NextMessage
<1> HIDE DEF t
<1>4. HashPlace(t)
  BY <1>2, <1>3 DEF HashPlace
<1>5. t.scattered \/ HashExact(t)
  <2>1. q.srcList \in Lists
    BY <1>2 DEF HashPlace
  <2>2. Len(q.srcList) = 1 \/ Len(q.srcList) > 1
    BY <2>1, OneEntry
  <2>3. HashExact(q) => HashExact(t)
    BY <1>3 DEF HashExact
  <2> QED BY <1>2, <1>3, <2>2, <2>3
<1>6. t.sent + t.carry <= t.todo /\ CarryFits(t) /\ Whole(t.sent)
  BY <1>1, <1>2, <1>3 DEF CarryFits
<1>7. HashGiven(t)
  BY <1>1, <1>3, <1>4, <1>5, <1>6 DEF HashGiven
<1> QED
  BY <1>7 DEF t

LEMMA CipherNextGiven ==
  ASSUME NEW q, CipherKept(q), MoreToSend(q)
  PROVE  CipherGiven(NextPart(q))
<1> DEFINE t == NextPart(q)
<1>1. /\ q \in Context /\ q.mode \in CipherModes /\ q.todo \in Nat /\ q.sent \in Nat /\ q.carry = 0
      /\ q.sent < q.todo /\ 0 < q.sent /\ CipherPlace(q)
  BY DEF CipherKept, Context, MoreToSend
<1>2. q.scattered \/ q.mode = "ofb" \/ Len(q.srcList) > 1 \/ Len(q.dstList) > 1 \/ CipherExact(q)
  BY <1>1 DEF CipherKept
<1>3. /\ t \in Context /\ t.mode = q.mode /\ t.sent = q.sent /\ t.carry = q.carry /\ t.todo = q.todo
      /\ t.srcList = q.srcList /\ t.src = q.src /\ t.dstList = q.dstList /\ t.dst = q.dst
      /\ t.iv = q.iv /\ t.good = q.good
      /\ (t.scattered <=> q.scattered \/ Len(q.srcList) > 1 \/ Len(q.dstList) > 1)
  BY <1>1, NextMessage
<1> HIDE DEF t
<1>4. CipherPlace(t) /\ (CipherExact(q) => CipherExact(t))
  BY <1>1, <1>3 DEF CipherPlace, CipherExact
<1>5. q.scattered \/ q.mode = "ofb" \/ q.good
  BY DEF CipherKept
<1>6. CipherGiven(t)
  BY <1>1, <1>2, <1>3, <1>4, <1>5 DEF CipherGiven
<1> QED
  BY <1>6 DEF t

\* All is done.
LEMMA DoneKept ==
  ASSUME DataInv, NEW r \in Reqs, rctx[r].at = "busy", NEW err \in BOOLEAN,
         err \/ ~MoreToSend(rctx[r])
  PROVE  Kept(r, Finished(rctx[r], err)) /\ Finished(rctx[r], err).at # "busy"
<1> DEFINE q == rctx[r]
<1>1. Unused.at # "busy" /\ q # Unused /\ q \in Context
  BY DEF Unused, DataInv
<1>2. CASE Finished(q, err) = Unused
  BY <1>1, <1>2, UnusedType
<1>3. CASE Finished(q, err) # Unused
  <2>1. ~err /\ q.mode = "hash" /\ ~q.final /\ Finished(q, err) = [q EXCEPT !.at = "ready"]
    BY <1>3 DEF Finished
  <2>2. r \in Hashes /\ r \notin Ciphers
    BY <1>1, <2>1, SpuAssumption DEF DataInv, CipherKept, CipherModes, Reqs
  <2>3. HashKept(q) /\ HashBusy(q)
    BY <1>1, <2>2 DEF DataInv, HashKept
  <2> DEFINE t == [q EXCEPT !.at = "ready"]
  <2>4. /\ t \in Context /\ t.at = "ready" /\ t.mode = "hash" /\ t.final = q.final /\ t.sent = q.sent
        /\ t.todo = q.todo /\ t.carry = q.carry /\ t.good = q.good /\ t.scattered = q.scattered
    BY <1>1, <2>1 DEF Context
  <2>5. q.sent = q.todo /\ q.sent \in Nat /\ q.carry = 0 /\ Whole(q.sent)
    BY <1>1, <2>1, <2>3 DEF HashBusy, MoreToSend, Context
  <2> HIDE DEF t, q
  <2>6. HashReady(t) /\ CarryFits(t)
    BY <2>1, <2>3, <2>4, <2>5 DEF HashReady, CarryFits, HashKept
  <2>7. HashKept(t)
    BY <2>3, <2>4, <2>6 DEF HashKept
  <2>8. Kept(r, t) /\ t.at # "busy"
    BY <2>2, <2>4, <2>7 DEF Kept
  <2> QED BY <2>1, <2>8 DEF t, q
<1> QED
  BY <1>2, <1>3

-----------------------------------------------------------------------------
(* The channels.                                                           *)

QueueInv ==
  /\ queue \in [Chan -> Seq(Reqs)] /\ answering \in Reqs \cup {NoReq}
  /\ \A c \in Chan : \A i \in 1 .. Len(queue[c]) :
       ChanOf[queue[c][i]] = c /\ rctx[queue[c][i]].at = "busy"
  /\ \A c \in Chan : \A i, j \in 1 .. Len(queue[c]) : queue[c][i] = queue[c][j] => i = j
  /\ \A r \in Reqs : rctx[r].at = "busy" => answering = r \/ Queued(r)

IInv == DataInv /\ QueueInv

LEMMA AppendFacts ==
  ASSUME NEW S, NEW s \in Seq(S), NEW e \in S
  PROVE  /\ Append(s, e) \in Seq(S) /\ Len(Append(s, e)) = Len(s) + 1
         /\ \A i \in 1 .. Len(s) : Append(s, e)[i] = s[i]
         /\ Append(s, e)[Len(s) + 1] = e
OBVIOUS

LEMMA TailFacts ==
  ASSUME NEW S, NEW s \in Seq(S), s # << >>
  PROVE  /\ Head(s) = s[1] /\ s[1] \in S /\ Len(s) \in Nat \ {0}
         /\ Tail(s) \in Seq(S) /\ Len(Tail(s)) = Len(s) - 1
         /\ \A i \in 1 .. Len(s) - 1 : Tail(s)[i] = s[i + 1]
OBVIOUS

LEMMA QueuedFacts ==
  ASSUME QueueInv, NEW r \in Reqs
  PROVE  Queued(r) <=> \E i \in 1 .. Len(queue[ChanOf[r]]) : queue[ChanOf[r]][i] = r
<1>1. ChanOf[r] \in Chan
  BY SpuAssumption
<1>2. queue[ChanOf[r]] \in Seq(Reqs)
  BY <1>1 DEF QueueInv
<1>3. DOMAIN queue[ChanOf[r]] = 1 .. Len(queue[ChanOf[r]])
  BY <1>2
<1> QED
  BY <1>3 DEF Queued

\* A context that is not in its channel's queue leaves the queues right,
\* whatever becomes of it.
LEMMA QueueOutside ==
  ASSUME QueueInv, NEW r \in Reqs, ~Queued(r), NEW t, t.at # "busy",
         rctx \in [Reqs -> Context], rctx' = [rctx EXCEPT ![r] = t], UNCHANGED <<queue, answering>>
  PROVE  QueueInv'
<1>1. \A s \in Reqs : rctx'[s] = IF s = r THEN t ELSE rctx[s]
  OBVIOUS
<1>2. ASSUME NEW c \in Chan, NEW i \in 1 .. Len(queue[c])
      PROVE  queue[c][i] \in Reqs /\ queue[c][i] # r
  <2>1. queue[c] \in Seq(Reqs)
    BY DEF QueueInv
  <2>2. queue[c][i] \in Reqs
    BY <2>1
  <2>3. ~(queue[c][i] = r)
    BY <1>2, QueuedFacts DEF QueueInv
  <2> QED BY <2>2, <2>3
<1>3. \A s \in Reqs : Queued(s)' <=> Queued(s)
  BY DEF Queued
<1>4. \A s \in Reqs : rctx'[s].at = "busy" => answering' = s \/ Queued(s)'
  BY <1>1, <1>3 DEF QueueInv
<1>5. \A c \in Chan : \A i \in 1 .. Len(queue[c]) :
        ChanOf[queue[c][i]] = c /\ rctx'[queue[c][i]].at = "busy"
  BY <1>1, <1>2 DEF QueueInv
<1> QED
  BY <1>4, <1>5 DEF QueueInv

\* One that is accepted comes last in its channel's queue, once.
LEMMA QueueAccepted ==
  ASSUME QueueInv, NEW r \in Reqs, ~Queued(r), NEW t, t.at = "busy",
         rctx \in [Reqs -> Context], rctx' = [rctx EXCEPT ![r] = t], Pdc!Accept(ChanOf[r], r)
  PROVE  QueueInv'
<1> DEFINE d == ChanOf[r]
<1>1. \A s \in Reqs : rctx'[s] = IF s = r THEN t ELSE rctx[s]
  OBVIOUS
<1>2. d \in Chan /\ queue \in [Chan -> Seq(Reqs)] /\ queue[d] \in Seq(Reqs)
  BY SpuAssumption DEF QueueInv
<1>3. queue' = [queue EXCEPT ![d] = Append(queue[d], r)] /\ answering' = answering
  BY DEF Pdc!Accept
<1>4. /\ Append(queue[d], r) \in Seq(Reqs) /\ Len(Append(queue[d], r)) = Len(queue[d]) + 1
      /\ \A i \in 1 .. Len(queue[d]) : Append(queue[d], r)[i] = queue[d][i]
      /\ Append(queue[d], r)[Len(queue[d]) + 1] = r
  BY <1>2, AppendFacts
<1>5. queue'[d] = Append(queue[d], r) /\ \A c \in Chan : c # d => queue'[c] = queue[c]
  BY <1>2, <1>3
<1> DEFINE n == Len(queue[d])
<1>14. n \in Nat /\ Len(queue'[d]) = n + 1 /\ queue'[d][n + 1] = r
       /\ \A i \in 1 .. n : queue'[d][i] = queue[d][i]
  BY <1>2, <1>4, <1>5
<1> HIDE DEF n
<1>6. queue' \in [Chan -> Seq(Reqs)]
  BY <1>2, <1>3, <1>4
<1>7. \A c \in Chan : Len(queue[c]) \in Nat
  BY <1>2
<1>8. ASSUME NEW c \in Chan, NEW i \in 1 .. Len(queue[c])
      PROVE  queue[c][i] \in Reqs /\ queue[c][i] # r /\ queue'[c][i] = queue[c][i]
             /\ i \in 1 .. Len(queue'[c])
  <2>1. queue[c] \in Seq(Reqs)
    BY <1>2
  <2>2. queue[c][i] \in Reqs
    BY <2>1
  <2>3. ~(queue[c][i] = r)
    BY <1>8, QueuedFacts DEF QueueInv
  <2>4. queue'[c][i] = queue[c][i] /\ i \in 1 .. Len(queue'[c])
    <3>1. CASE c = d
      <4>1. i \in 1 .. n
        BY <1>8, <3>1 DEF n
      <4>2. i \in 1 .. n + 1
        BY <1>14, <4>1
      <4> QED BY <1>14, <3>1, <4>1, <4>2
    <3>2. CASE c # d
      BY <1>5, <3>2
    <3> QED BY <3>1, <3>2
  <2> QED BY <2>2, <2>3, <2>4
<1>9. ASSUME NEW c \in Chan, NEW i \in 1 .. Len(queue'[c])
      PROVE  i \in 1 .. Len(queue[c]) \/ (c = d /\ i = n + 1 /\ queue'[c][i] = r)
  <2>1. CASE c = d
    <3>1. i \in 1 .. n + 1
      BY <1>9, <1>14, <2>1
    <3>2. i \in 1 .. n \/ i = n + 1
      BY <1>14, <3>1
    <3> QED BY <1>14, <2>1, <3>2 DEF n
  <2>2. CASE c # d
    BY <1>5, <1>9, <2>2
  <2> QED BY <2>1, <2>2
<1>10. \A c \in Chan : \A i \in 1 .. Len(queue'[c]) :
         ChanOf[queue'[c][i]] = c /\ rctx'[queue'[c][i]].at = "busy"
  BY <1>1, <1>8, <1>9 DEF QueueInv
<1>11. ASSUME NEW c \in Chan, NEW i \in 1 .. Len(queue'[c]), NEW j \in 1 .. Len(queue'[c]),
              queue'[c][i] = queue'[c][j]
       PROVE  i = j
  <2>1. CASE i \in 1 .. Len(queue[c]) /\ j \in 1 .. Len(queue[c])
    BY <1>8, <1>11, <2>1 DEF QueueInv
  <2>2. CASE i \notin 1 .. Len(queue[c])
    BY <1>8, <1>9, <1>11, <2>2
  <2>3. CASE j \notin 1 .. Len(queue[c])
    BY <1>8, <1>9, <1>11, <2>3
  <2> QED BY <2>1, <2>2, <2>3
<1>12. ASSUME NEW s \in Reqs, rctx'[s].at = "busy"
       PROVE  answering' = s \/ Queued(s)'
  <2>1. ChanOf[s] \in Chan
    BY SpuAssumption
  <2>2. Len(queue'[ChanOf[s]]) \in Nat /\ DOMAIN queue'[ChanOf[s]] = 1 .. Len(queue'[ChanOf[s]])
    BY <2>1, <1>6
  <2>3. CASE s = r
    <3>1. n + 1 \in 1 .. Len(queue'[d]) /\ queue'[d][n + 1] = r
      BY <1>14
    <3> QED BY <2>2, <2>3, <3>1 DEF Queued
  <2>4. CASE s # r /\ answering # s
    <3>1. Queued(s)
      BY <1>1, <1>12, <2>4 DEF QueueInv
    <3>2. PICK i \in 1 .. Len(queue[ChanOf[s]]) : queue[ChanOf[s]][i] = s
      BY <3>1, QueuedFacts
    <3>3. i \in 1 .. Len(queue'[ChanOf[s]]) /\ queue'[ChanOf[s]][i] = s
      BY <2>1, <3>2, <1>8
    <3> QED BY <2>2, <3>3 DEF Queued
  <2> QED BY <1>3, <2>3, <2>4
<1>13. answering' \in Reqs \cup {NoReq}
  BY <1>3 DEF QueueInv
<1> QED
  BY <1>6, <1>10, <1>11, <1>12, <1>13 DEF QueueInv

LEMMA QueueAnswer ==
  ASSUME QueueInv, NEW c \in Chan, Answer(c)
  PROVE  QueueInv'
<1>1. /\ answering = NoReq /\ queue[c] # << >> /\ answering' = Head(queue[c])
      /\ queue' = [queue EXCEPT ![c] = Tail(queue[c])] /\ rctx' = rctx
  BY DEF Answer, Pdc!Answer
<1>2. queue \in [Chan -> Seq(Reqs)] /\ queue[c] \in Seq(Reqs)
  BY DEF QueueInv
<1>3. /\ Head(queue[c]) = queue[c][1] /\ queue[c][1] \in Reqs /\ Len(queue[c]) \in Nat \ {0}
      /\ Tail(queue[c]) \in Seq(Reqs) /\ Len(Tail(queue[c])) = Len(queue[c]) - 1
      /\ \A i \in 1 .. Len(queue[c]) - 1 : Tail(queue[c])[i] = queue[c][i + 1]
  BY <1>1, <1>2, TailFacts
<1>4. queue' \in [Chan -> Seq(Reqs)] /\ answering' \in Reqs \cup {NoReq}
  BY <1>1, <1>2, <1>3
<1> DEFINE n == Len(queue[c])
<1>5. /\ n \in Nat \ {0} /\ Len(queue'[c]) = n - 1
      /\ \A i \in 1 .. n - 1 : queue'[c][i] = queue[c][i + 1]
      /\ \A b \in Chan : b # c => queue'[b] = queue[b]
  BY <1>1, <1>2, <1>3
<1> HIDE DEF n
<1>6. \A i \in 1 .. n - 1 : i \in Int /\ i + 1 \in 1 .. n
  BY <1>5
<1>7. \A i \in 1 .. Len(queue'[c]) : i \in Int /\ i + 1 \in 1 .. Len(queue[c]) /\ queue'[c][i] = queue[c][i + 1]
  BY <1>5, <1>6 DEF n
<1>8. ASSUME NEW b \in Chan, NEW i \in 1 .. Len(queue'[b])
      PROVE  ChanOf[queue'[b][i]] = b /\ rctx'[queue'[b][i]].at = "busy"
  <2>1. CASE b = c
    BY <1>1, <1>7, <2>1 DEF QueueInv
  <2>2. CASE b # c
    BY <1>1, <1>5, <2>2 DEF QueueInv
  <2> QED BY <2>1, <2>2
<1>9. ASSUME NEW b \in Chan, NEW i \in 1 .. Len(queue'[b]), NEW j \in 1 .. Len(queue'[b]),
             queue'[b][i] = queue'[b][j]
      PROVE  i = j
  <2>1. CASE b = c
    <3>2. /\ i + 1 \in 1 .. Len(queue[c]) /\ j + 1 \in 1 .. Len(queue[c])
          /\ queue[c][i + 1] = queue[c][j + 1]
      BY <1>7, <1>9, <2>1
    <3>1. i + 1 = j + 1
      BY <3>2 DEF QueueInv
    <3> QED BY <1>7, <2>1, <3>1
  <2>2. CASE b # c
    BY <1>5, <1>9, <2>2 DEF QueueInv
  <2> QED BY <2>1, <2>2
<1>10. ASSUME NEW s \in Reqs, rctx'[s].at = "busy"
       PROVE  answering' = s \/ Queued(s)'
  <2>1. ChanOf[s] \in Chan /\ s # NoReq
    BY SpuAssumption
  <2>2. Queued(s)
    BY <1>1, <1>10, <2>1 DEF QueueInv
  <2>3. PICK i \in 1 .. Len(queue[ChanOf[s]]) : queue[ChanOf[s]][i] = s
    BY <2>2, QueuedFacts
  <2>4. DOMAIN queue'[ChanOf[s]] = 1 .. Len(queue'[ChanOf[s]])
    BY <2>1, <1>4
  <2>5. CASE ChanOf[s] = c /\ i = 1
    BY <1>1, <1>3, <2>3, <2>5
  <2>6. CASE ChanOf[s] = c /\ i # 1
    <3>1. i \in 1 .. n /\ queue[c][i] = s
      BY <2>3, <2>6 DEF n
    <3>2. i - 1 \in 1 .. n - 1 /\ (i - 1) + 1 = i
      BY <1>5, <2>6, <3>1
    <3>3. i - 1 \in 1 .. Len(queue'[c]) /\ queue'[c][i - 1] = s
      BY <1>5, <3>1, <3>2
    <3> QED BY <2>4, <2>6, <3>3 DEF Queued
  <2>7. CASE ChanOf[s] # c
    BY <1>5, <2>1, <2>2, <2>7 DEF Queued
  <2> QED BY <2>5, <2>6, <2>7
<1> QED
  BY <1>4, <1>8, <1>9, <1>10 DEF QueueInv

LEMMA QueueReturn ==
  ASSUME QueueInv, Return
  PROVE  QueueInv'
<1>1. answering' = NoReq /\ queue' = queue /\ rctx' = rctx /\ ~(\E r \in Reqs : Answered(r))
  BY DEF Return, Pdc!Return
<1>2. \A s \in Reqs : rctx[s].at = "busy" => Queued(s)
  BY <1>1 DEF Answered, QueueInv
<1>3. \A s \in Reqs : Queued(s)' <=> Queued(s)
  BY <1>1 DEF Queued
<1> QED
  BY <1>1, <1>2, <1>3 DEF QueueInv

-----------------------------------------------------------------------------
(* The invariant.                                                          *)

LEMMA NotBusyNotQueued ==
  ASSUME QueueInv, NEW r \in Reqs, rctx[r].at # "busy"
  PROVE  ~Queued(r)
<1>1. ChanOf[r] \in Chan
  BY SpuAssumption
<1> QED
  BY <1>1, QueuedFacts DEF QueueInv

LEMMA HandleStep ==
  ASSUME IInv, NEW r \in Reqs, ~Queued(r), NEW t, Kept(r, t), rctx' = [rctx EXCEPT ![r] = t],
         \/ t.at = "busy" /\ Pdc!Accept(ChanOf[r], r)
         \/ t.at # "busy" /\ UNCHANGED <<queue, answering>>
  PROVE  IInv'
<1>1. DataInv /\ QueueInv /\ rctx \in [Reqs -> Context]
  BY DEF IInv, DataInv
<1>2. DataInv'
  BY <1>1, SetKept
<1>3. QueueInv'
  BY <1>1, QueueAccepted, QueueOutside
<1> QED
  BY <1>2, <1>3 DEF IInv

LEMMA InitInv == Init => IInv
<1> SUFFICES ASSUME Init PROVE IInv
  OBVIOUS
<1>1. rctx = [r \in Reqs |-> Unused] /\ queue = [c \in Chan |-> << >>] /\ answering = NoReq
  BY DEF Init, Pdc!Init
<1>2. Unused \in Context /\ Unused.at # "busy" /\ Hashes \subseteq Reqs /\ Ciphers \subseteq Reqs
  BY UnusedType DEF Unused, Reqs
<1>3. DataInv
  BY <1>1, <1>2 DEF DataInv
<1>4. QueueInv
  BY <1>1, <1>2 DEF QueueInv
<1> QED
  BY <1>3, <1>4 DEF IInv

LEMMA HashStep ==
  ASSUME IInv, NEW r \in Hashes
  PROVE  /\ \A hmac \in BOOLEAN : AhashInit(r, hmac) => IInv'
         /\ \A list \in Lists, final \in BOOLEAN : AhashData(r, list, final) => IInv'
         /\ AhashFinal(r) => IInv'
<1>1. DataInv /\ QueueInv /\ r \in Reqs
  BY DEF IInv, Reqs
<1>2. ASSUME NEW hmac \in BOOLEAN, AhashInit(r, hmac)
      PROVE  IInv'
  <2>1. ~Queued(r)
    BY <1>1, <1>2, NotBusyNotQueued DEF AhashInit
  <2> DEFINE pad == IF hmac THEN BlockSize ELSE 0
             t == [Unused EXCEPT !.at = "ready", !.mode = "hash", !.todo = pad, !.carry = pad]
  <2>2. rctx' = [rctx EXCEPT ![r] = t] /\ UNCHANGED <<queue, answering>>
    BY <1>2 DEF AhashInit
  <2>3. pad \in {0, BlockSize} /\ t.at # "busy"
    BY DEF Unused
  <2> HIDE DEF pad
  <2>4. Kept(r, t)
    BY <2>3, InitKept
  <2> QED BY <1>1, <2>1, <2>2, <2>3, <2>4, HandleStep
<1>3. ASSUME NEW list \in Lists, NEW final \in BOOLEAN, AhashData(r, list, final)
      PROVE  IInv'
  <2> DEFINE q == [rctx[r] EXCEPT !.base = rctx[r].todo, !.todo = @ + Size(list), !.final = final,
                                  !.srcList = list, !.src = Start]
  <2>1. ~Queued(r) /\ rctx[r].at = "ready"
    BY <1>1, <1>3, NotBusyNotQueued DEF AhashData
  <2>2. Handle(r, q)
    BY <1>3 DEF AhashData
  <2>3. HashGiven(q)
    BY <1>1, <2>1, ReadyKept, DataGiven
  <2> HIDE DEF q
  <2> QED BY <1>1, <2>1, <2>2, <2>3, HandleHash, HandleStep
<1>4. ASSUME AhashFinal(r)
      PROVE  IInv'
  <2> DEFINE q == [rctx[r] EXCEPT !.final = TRUE, !.src = Start]
  <2>1. ~Queued(r) /\ rctx[r].at = "ready"
    BY <1>1, <1>4, NotBusyNotQueued DEF AhashFinal
  <2>2. Handle(r, q)
    BY <1>4 DEF AhashFinal
  <2>3. HashGiven(q)
    BY <1>1, <2>1, ReadyKept, FinalGiven
  <2> HIDE DEF q
  <2> QED BY <1>1, <2>1, <2>2, <2>3, HandleHash, HandleStep
<1> QED
  BY <1>2, <1>3, <1>4

LEMMA CipherStep ==
  ASSUME IInv, NEW r \in Ciphers, NEW mode \in CipherModes, NEW src \in Lists, NEW dst \in Lists,
         AblkcipherEnqueue(r, mode, src, dst)
  PROVE  IInv'
<1> DEFINE q == [Unused EXCEPT !.mode = mode, !.todo = Size(src), !.srcList = src, !.dstList = dst]
<1>1. r \in Reqs /\ QueueInv /\ rctx[r].at = "unused" /\ Size(src) = Size(dst)
  BY DEF IInv, Reqs, AblkcipherEnqueue
<1>2. ~Queued(r)
  BY <1>1, NotBusyNotQueued
<1>3. Handle(r, q)
  BY DEF AblkcipherEnqueue
<1>4. CipherGiven(q)
  BY <1>1, EnqueueGiven
<1> HIDE DEF q
<1> QED
  BY <1>1, <1>2, <1>3, <1>4, HandleCipher, HandleStep

LEMMA CallbackStep ==
  ASSUME IInv, NEW r \in Reqs, SpuRxCallback(r)
  PROVE  IInv'
<1>1. DataInv /\ QueueInv /\ rctx[r].at = "busy" /\ ~Queued(r) /\ rctx[r] # Unused
  BY DEF IInv, SpuRxCallback, Answered, Unused
<1>2. ASSUME NEW err \in BOOLEAN, err \/ ~MoreToSend(rctx[r]),
             rctx' = [rctx EXCEPT ![r] = Finished(rctx[r], err)], UNCHANGED <<queue, answering>>
      PROVE  IInv'
  BY <1>1, <1>2, DoneKept, HandleStep
<1>3. ASSUME MoreToSend(rctx[r]), Handle(r, NextPart(rctx[r]))
      PROVE  IInv'
  <2>1. CASE r \in Hashes
    <3>1. HashGiven(NextPart(rctx[r]))
      BY <1>1, <1>3, <2>1, HashNextGiven DEF DataInv
    <3> QED BY <1>1, <1>3, <2>1, <3>1, HandleHash, HandleStep
  <2>2. CASE r \in Ciphers
    <3>1. CipherGiven(NextPart(rctx[r]))
      BY <1>1, <1>3, <2>2, CipherNextGiven DEF DataInv
    <3> QED BY <1>1, <1>3, <2>2, <3>1, HandleCipher, HandleStep
  <2> QED BY <2>1, <2>2 DEF Reqs
<1>4. \/ rctx' = [rctx EXCEPT ![r] = Finished(rctx[r], TRUE)] /\ UNCHANGED <<queue, answering>>
      \/ /\ ~MoreToSend(rctx[r])
         /\ rctx' = [rctx EXCEPT ![r] = Finished(rctx[r], FALSE)] /\ UNCHANGED <<queue, answering>>
      \/ MoreToSend(rctx[r]) /\ Handle(r, NextPart(rctx[r]))
  BY DEF SpuRxCallback, NextPart
<1> QED
  BY <1>2, <1>3, <1>4

LEMMA NextInv == IInv /\ [Next]_vars => IInv'
<1> SUFFICES ASSUME IInv, [Next]_vars PROVE IInv'
  OBVIOUS
<1>1. CASE UNCHANGED vars
  <2>1. rctx' = rctx /\ queue' = queue /\ answering' = answering
    BY <1>1 DEF vars
  <2> QED BY <2>1 DEF IInv, DataInv, QueueInv, Queued
<1>2. CASE \E r \in Hashes : \/ \E hmac \in BOOLEAN : AhashInit(r, hmac)
                             \/ \E list \in Lists, final \in BOOLEAN : AhashData(r, list, final)
                             \/ AhashFinal(r)
  BY <1>2, HashStep
<1>3. CASE \E r \in Ciphers, mode \in {"enc", "dec", "ctr", "ofb"}, src, dst \in Lists :
             AblkcipherEnqueue(r, mode, src, dst)
  BY <1>3, CipherStep DEF CipherModes
<1>4. CASE \E r \in Reqs : SpuRxCallback(r)
  BY <1>4, CallbackStep
<1>5. CASE \E c \in Chan : Answer(c)
  <2>1. QueueInv'
    BY <1>5, QueueAnswer DEF IInv
  <2>2. rctx' = rctx
    BY <1>5 DEF Answer
  <2> QED BY <2>1, <2>2 DEF IInv, DataInv
<1>6. CASE Return
  <2>1. QueueInv'
    BY <1>6, QueueReturn DEF IInv
  <2>2. rctx' = rctx
    BY <1>6 DEF Return
  <2> QED BY <2>1, <2>2 DEF IInv, DataInv
<1> QED
  BY <1>1, <1>2, <1>3, <1>4, <1>5, <1>6 DEF Next

LEMMA Invariance == Spec => []IInv
<1> QED
  BY InitInv, NextInv, PTL DEF Spec

-----------------------------------------------------------------------------
(* What it means for the properties of the runs.                           *)

\* What is carried over fits into hash_carry, and every field stays in its range.
THEOREM ContextsTyped == Spec => []SpuTypeOK
<1>1. IInv => SpuTypeOK
  <2> SUFFICES ASSUME IInv, NEW r \in Reqs
               PROVE  LET q == rctx[r] IN
                      /\ q \in Context
                      /\ q.carry \in 0 .. (IF BlockSize > CarryMax THEN BlockSize ELSE CarryMax)
    BY DEF SpuTypeOK, Context, Types
  <2>1. rctx[r] \in Context /\ rctx[r].carry \in Nat
    BY DEF IInv, DataInv, Context
  <2>2. rctx[r].carry = 0 \/ CarryFits(rctx[r])
    <3>1. Unused.carry = 0
      BY DEF Unused
    <3> QED BY <3>1 DEF IInv, DataInv, Reqs, HashKept, CipherKept
  <2> QED BY <2>1, <2>2, MaxCarryFacts, SpuAssumption DEF CarryFits
<1> QED
  BY <1>1, Invariance, PTL

\* All of a hash that was not sent is carried over to the next request.
THEOREM CarriedOver == Spec => []NothingLost
<1>1. IInv => NothingLost
  BY ReadyKept DEF IInv, NothingLost, HashReady
<1> QED
  BY <1>1, Invariance, PTL

\* The engine is told the right kind of message and number of blocks.
THEOREM MessageTypes == Spec => []TypesRight
<1>1. IInv => TypesRight
  <2> SUFFICES ASSUME IInv, NEW r \in Hashes, rctx[r].at = "busy" PROVE TypeRight(rctx[r])
    BY DEF TypesRight, TypeRight
  <2>1. rctx[r] # Unused
    BY DEF Unused
  <2> QED BY <2>1 DEF IInv, DataInv, HashKept, HashBusy
<1> QED
  BY <1>1, Invariance, PTL

\* The bytes come in order, each once, under the right IV, unless a request with
\* several entries, or one in OFB or XTS mode, needs a second message.
THEOREM BytesInOrder == Spec => []InOrder
<1>1. IInv => InOrder
  <2> SUFFICES ASSUME IInv, NEW r \in Reqs
               PROVE  rctx[r].good \/ rctx[r].scattered
                      \/ (rctx[r].mode = "ofb" /\ rctx[r].sent > rctx[r].len)
    BY DEF InOrder
  <2>1. Unused.good
    BY DEF Unused
  <2> QED BY <2>1 DEF IInv, DataInv, Reqs, HashKept, CipherKept
<1> QED
  BY <1>1, Invariance, PTL

\* One message of a context is under way exactly while its request is, so the
\* context needs no lock.
THEOREM OneMessage == Spec => []LockStep
<1>1. IInv => LockStep
  <2> SUFFICES ASSUME IInv, NEW r \in Reqs, NEW S,
                      S = UNION {{<<c, i>> : i \in {i \in DOMAIN queue[c] : queue[c][i] = r}} : c \in Chan}
               PROVE  IF rctx[r].at = "busy"
                      THEN (S = {} /\ answering = r) \/ (\E x \in S : S = {x}) ELSE S = {}
    BY DEF LockStep
  <2>1. QueueInv /\ ChanOf[r] \in Chan
    BY SpuAssumption DEF IInv
  <2>2. \A c \in Chan : DOMAIN queue[c] = 1 .. Len(queue[c])
    BY <2>1 DEF QueueInv
  <2>3. \A x : x \in S <=> \E c \in Chan : \E i \in 1 .. Len(queue[c]) : x = <<c, i>> /\ queue[c][i] = r
    BY <2>2
  <2>4. \A x \in S : \E i \in 1 .. Len(queue[ChanOf[r]]) :
          x = <<ChanOf[r], i>> /\ queue[ChanOf[r]][i] = r
    BY <2>1, <2>3 DEF QueueInv
  <2>5. CASE Queued(r)
    <3>1. PICK i \in 1 .. Len(queue[ChanOf[r]]) : queue[ChanOf[r]][i] = r
      BY <2>1, <2>5, QueuedFacts
    <3>2. rctx[r].at = "busy"
      BY <2>1, <3>1 DEF QueueInv
    <3>3. <<ChanOf[r], i>> \in S
      BY <2>1, <2>3, <3>1
    <3>4. \A x \in S : x = <<ChanOf[r], i>>
      BY <2>1, <2>4, <3>1 DEF QueueInv
    <3>5. S = {<<ChanOf[r], i>>}
      BY <3>3, <3>4, Zenon
    <3> QED BY <3>2, <3>3, <3>5, Zenon
  <2>6. CASE ~Queued(r)
    <3>1. S = {}
      BY <2>1, <2>4, <2>6, QueuedFacts
    <3> QED BY <2>1, <2>6, <3>1 DEF QueueInv
  <2> QED BY <2>5, <2>6
<1> QED
  BY <1>1, Invariance, PTL
=============================================================================
