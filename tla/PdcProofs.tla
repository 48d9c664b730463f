----------------------------- MODULE PdcProofs -----------------------------
(***************************************************************************)
(* Proofs about module Pdc, for every number of channels, ring size,       *)
(* budget, queue limit and assignment of descriptor counts to requests.    *)
(*                                                                         *)
(* The argument is about one channel: ChanInv, kept by each of the         *)
(* operations that run under pdc_lock.  Ordered is the strengthening: that *)
(* the runs of ANY two outstanding requests are disjoint, which Layout     *)
(* only says of neighbours.                                                *)
(***************************************************************************)
EXTENDS Pdc, SequenceTheorems, TLAPS

-----------------------------------------------------------------------------
(* Ring arithmetic: what the masks of pdc.h compute on indices in range.   *)

\* Integer facts, stated apart because the provers do better without the terms
\* they are used for.
LEMMA ShiftLeq ==
  ASSUME NEW a \in Nat, NEW b \in Nat, NEW c \in Nat, a <= b
  PROVE  a - c <= b - c
OBVIOUS

LEMMA TwoOfMany ==
  ASSUME NEW k \in Nat, k # 0, k # 1
  PROVE  1 \in 1 .. k-1 /\ 1 \in 1 .. k /\ 2 \in 1 .. k /\ 2 \in 2 .. k /\ 1 + 1 = 2
OBVIOUS

LEMMA IncrdInRing ==
  ASSUME NEW i \in Idx, NEW n \in 0 .. RingEntries-1
  PROVE  /\ Incrd(i, n) \in Idx
         /\ Incrd(i, n) = IF i + n < RingEntries THEN i + n ELSE i + n - RingEntries
BY PdcAssumption DEF Incrd, Idx

LEMMA CountInRing ==
  ASSUME NEW i \in Idx, NEW j \in Idx
  PROVE  /\ DescrCount(i, j) \in Idx
         /\ DescrCount(i, j) = IF i >= j THEN i - j ELSE i - j + RingEntries
BY PdcAssumption DEF DescrCount, Idx

LEMMA SelfCount ==
  ASSUME NEW i \in Idx
  PROVE  DescrCount(i, i) = 0
<1>1. DescrCount(i, i) = IF i >= i THEN i - i ELSE i - i + RingEntries
  BY CountInRing
<1>2. i \in Int
  BY PdcAssumption DEF Idx
<1> QED BY <1>1, <1>2

LEMMA SpaceInRing ==
  ASSUME NEW i \in Idx, NEW j \in Idx
  PROVE  DescrSpace(i, j) = RingEntries - 1 - DescrCount(i, j)
<1> DEFINE x == j - (i + 1)
<1>1. x \in Int /\ 0 - RingEntries <= x /\ x < RingEntries
  BY PdcAssumption DEF Idx
<1>2. x % RingEntries = IF x >= 0 THEN x ELSE x + RingEntries
  <2> HIDE DEF x
  <2> QED BY <1>1, PdcAssumption
<1>3. DescrSpace(i, j) = x % RingEntries
  BY DEF DescrSpace, DescrCount
<1> QED
  <2>1. DescrCount(i, j) = IF i >= j THEN i - j ELSE i - j + RingEntries
    BY CountInRing
  <2> QED BY <1>2, <1>3, <2>1, PdcAssumption DEF Idx

\* Advancing the head of a distance adds to it, as long as it does not wrap.
LEMMA AdvanceHead ==
  ASSUME NEW i \in Idx, NEW j \in Idx, NEW n \in 0 .. RingEntries-1,
         DescrCount(i, j) + n < RingEntries
  PROVE  DescrCount(Incrd(i, n), j) = DescrCount(i, j) + n
<1>1. /\ Incrd(i, n) \in Idx
      /\ Incrd(i, n) = IF i + n < RingEntries THEN i + n ELSE i + n - RingEntries
  BY IncrdInRing
<1>2. DescrCount(i, j) = IF i >= j THEN i - j ELSE i - j + RingEntries
  BY CountInRing
<1>3. DescrCount(Incrd(i, n), j) = IF Incrd(i, n) >= j THEN Incrd(i, n) - j
                                   ELSE Incrd(i, n) - j + RingEntries
  BY <1>1, CountInRing
<1> QED
  BY <1>1, <1>2, <1>3, PdcAssumption DEF Idx

\* Advancing the tail of a distance takes from it, as long as it is not passed.
LEMMA AdvanceTail ==
  ASSUME NEW i \in Idx, NEW j \in Idx, NEW n \in 0 .. RingEntries-1,
         n <= DescrCount(i, j)
  PROVE  DescrCount(i, Incrd(j, n)) = DescrCount(i, j) - n
<1>1. /\ Incrd(j, n) \in Idx
      /\ Incrd(j, n) = IF j + n < RingEntries THEN j + n ELSE j + n - RingEntries
  BY IncrdInRing
<1>2. DescrCount(i, j) = IF i >= j THEN i - j ELSE i - j + RingEntries
  BY CountInRing
<1>3. DescrCount(i, Incrd(j, n)) = IF i >= Incrd(j, n) THEN i - Incrd(j, n)
                                   ELSE i - Incrd(j, n) + RingEntries
  BY <1>1, CountInRing
<1> QED
  BY <1>1, <1>2, <1>3, PdcAssumption DEF Idx

\* Two indices at one distance from a third are the same.
LEMMA SameDistance ==
  ASSUME NEW i \in Idx, NEW j \in Idx, NEW k \in Idx,
         DescrCount(i, k) = DescrCount(j, k)
  PROVE  i = j
<1>1. DescrCount(i, k) = IF i >= k THEN i - k ELSE i - k + RingEntries
  BY CountInRing
<1>2. DescrCount(j, k) = IF j >= k THEN j - k ELSE j - k + RingEntries
  BY CountInRing
<1>3. /\ i \in Int /\ j \in Int /\ k \in Int /\ RingEntries \in Int
      /\ 0 <= i /\ 0 <= j /\ 0 <= k
      /\ i < RingEntries /\ j < RingEntries /\ k < RingEntries
  BY PdcAssumption DEF Idx
<1>4. (IF i >= k THEN i - k ELSE i - k + RingEntries)
        = (IF j >= k THEN j - k ELSE j - k + RingEntries)
  BY <1>1, <1>2
<1> QED
  BY <1>3, <1>4

-----------------------------------------------------------------------------
(* The invariant of one channel.                                           *)

\* The run of an outstanding request ends before that of any later one starts.
Ordered(s) ==
  \A i \in DOMAIN s.posted :
    /\ RxEnd(s, s.posted[i]) <= RxDist(s, s.rxout)
    /\ TxEnd(s, s.posted[i]) <= TxDist(s, s.txout)
    /\ \A j \in DOMAIN s.posted : i < j =>
         /\ RxEnd(s, s.posted[i]) <= RxDist(s, s.posted[j].rx)
         /\ TxEnd(s, s.posted[i]) <= TxDist(s, s.posted[j].tx)

ChanInv(s, h) ==
  /\ s \in ChanState
  /\ h \in Idx
  /\ Layout(s)
  /\ Ordered(s)
  /\ Slots(s)
  /\ Between(s, h)

NotStranded(s) == s.msg_list # << >> => s.posted # << >>

LEMMA InitStateInv == ChanInv(InitState, 0) /\ NotStranded(InitState)
<1>1. 0 \in Idx /\ 0 \in 0 .. RingEntries-1
  BY PdcAssumption DEF Idx
<1>2. InitState \in ChanState
  BY <1>1 DEF InitState, ChanState, Numd
<1>3. DescrCount(0, 0) = 0
  BY <1>1, CountInRing
<1> QED
  BY <1>1, <1>2, <1>3
  DEF ChanInv, NotStranded, InitState, Layout, Ordered, Slots, Between, RxDist

\* pdc_descr_check leaves room for the whole run of the request it accepts.
LEMMA CheckedFits ==
  ASSUME NEW s, s \in ChanState, NEW m \in Msg, DescrCheck(s, m)
  PROVE  /\ Cost[m].rx \in 1 .. RingEntries-1 /\ Cost[m].tx \in 1 .. RingEntries-1
         /\ RxDist(s, s.rxout) + Cost[m].rx < RingEntries
         /\ TxDist(s, s.txout) + Cost[m].tx < RingEntries
<1>1. /\ s.rxin \in Idx /\ s.rxout \in Idx /\ s.txin \in Idx /\ s.txout \in Idx
  BY DEF ChanState
<1>2. Cost[m].rx \in 1 .. RingEntries-1 /\ Cost[m].tx \in 1 .. RingEntries-1
  BY PdcAssumption
<1>3. /\ Cost[m].rx <= RingEntries - 1 - RxDist(s, s.rxout)
      /\ Cost[m].tx <= RingEntries - 1 - TxDist(s, s.txout)
  BY <1>1, SpaceInRing DEF DescrCheck, RxDist, TxDist
<1>4. RxDist(s, s.rxout) \in Idx /\ TxDist(s, s.txout) \in Idx
  BY <1>1, CountInRing DEF RxDist, TxDist
<1> QED
  BY <1>2, <1>3, <1>4, PdcAssumption DEF Idx

\* The distances used in the proofs are natural numbers below RingEntries.
LEMMA DistInRing ==
  ASSUME NEW s \in ChanState, NEW i \in Idx
  PROVE  /\ RxDist(s, i) \in Nat /\ RxDist(s, i) < RingEntries
         /\ TxDist(s, i) \in Nat /\ TxDist(s, i) < RingEntries
<1>1. s.rxin \in Idx /\ s.txin \in Idx
  BY DEF ChanState
<1>2. RxDist(s, i) \in Idx /\ TxDist(s, i) \in Idx
  BY <1>1, CountInRing DEF RxDist, TxDist
<1> QED
  BY <1>2, PdcAssumption DEF Idx

LEMMA EntryOf ==
  ASSUME NEW s \in ChanState, NEW i \in DOMAIN s.posted
  PROVE  /\ s.posted[i] \in Entry
         /\ s.posted[i].rx \in Idx /\ s.posted[i].tx \in Idx /\ s.posted[i].msg \in Msg
         /\ Cost[s.posted[i].msg].rx \in 1 .. RingEntries-1
         /\ Cost[s.posted[i].msg].tx \in 1 .. RingEntries-1
<1>1. s.posted \in Seq(Entry)
  BY DEF ChanState
<1>2. s.posted[i] \in Entry
  BY <1>1
<1> QED
  BY <1>2, PdcAssumption DEF Entry

LEMMA PostFields ==
  ASSUME NEW s \in ChanState, NEW m \in Msg
  PROVE  LET t == Post(s, m)
         IN  /\ t \in ChanState
             /\ t.rxin = s.rxin /\ t.txin = s.txin
             /\ t.last_rx_curr = s.last_rx_curr /\ t.msg_list = s.msg_list
             /\ t.rxout = Incrd(s.rxout, Cost[m].rx)
             /\ t.txout = Incrd(s.txout, Cost[m].tx)
             /\ t.posted = Append(s.posted, [msg |-> m, rx |-> s.rxout, tx |-> s.txout])
             /\ t.rxp_ctx = [s.rxp_ctx EXCEPT ![s.rxout] = m]
             /\ t.numd = [s.numd EXCEPT ![s.rxout] = Cost[m]]
<1>1. /\ s.rxout \in Idx /\ s.txout \in Idx
      /\ Cost[m] \in Numd
      /\ Cost[m].rx \in 0 .. RingEntries-1 /\ Cost[m].tx \in 0 .. RingEntries-1
  BY PdcAssumption, SMTT(30) DEF ChanState, Numd
<1>2. Incrd(s.rxout, Cost[m].rx) \in Idx /\ Incrd(s.txout, Cost[m].tx) \in Idx
  BY <1>1, IncrdInRing
<1>3. SofAfter(s, Cost[m].rx) \in [Idx -> BOOLEAN]
  BY DEF SofAfter, ChanState
<1>4. Append(s.posted, [msg |-> m, rx |-> s.rxout, tx |-> s.txout]) \in Seq(Entry)
  BY <1>1 DEF ChanState, Entry
<1>5. /\ [s.rxp_ctx EXCEPT ![s.rxout] = m] \in [Idx -> Msg \cup {NoMsg}]
      /\ [s.numd EXCEPT ![s.rxout] = Cost[m]] \in [Idx -> Numd]
  BY <1>1 DEF ChanState
<1> QED
  BY <1>2, <1>3, <1>4, <1>5 DEF Post, ChanState

\* Posting a request that pdc_descr_check accepted keeps the invariant: the new
\* run lies between the last one and rxin, txin.
LEMMA PostKeeps ==
  ASSUME NEW s, NEW h, ChanInv(s, h), NEW m \in Msg, DescrCheck(s, m)
  PROVE  ChanInv(Post(s, m), h) /\ Post(s, m).posted # << >>
<1> DEFINE t == Post(s, m)
           e == [msg |-> m, rx |-> s.rxout, tx |-> s.txout]
           p == s.posted
           q == Append(p, e)
<1>1. s \in ChanState /\ h \in Idx
  BY DEF ChanInv
<1>2. /\ s.rxin \in Idx /\ s.rxout \in Idx /\ s.txin \in Idx /\ s.txout \in Idx
      /\ s.last_rx_curr \in Idx /\ p \in Seq(Entry)
      /\ s.rxp_ctx \in [Idx -> Msg \cup {NoMsg}] /\ s.numd \in [Idx -> Numd]
  BY <1>1 DEF ChanState
<1>3. /\ t \in ChanState
      /\ t.rxin = s.rxin /\ t.txin = s.txin /\ t.last_rx_curr = s.last_rx_curr
      /\ t.rxout = Incrd(s.rxout, Cost[m].rx) /\ t.txout = Incrd(s.txout, Cost[m].tx)
      /\ t.posted = q
      /\ t.rxp_ctx = [s.rxp_ctx EXCEPT ![s.rxout] = m]
      /\ t.numd = [s.numd EXCEPT ![s.rxout] = Cost[m]]
  BY <1>1, PostFields
<1> HIDE DEF t
<1>4. \A i : RxDist(t, i) = RxDist(s, i) /\ TxDist(t, i) = TxDist(s, i)
  BY <1>3 DEF RxDist, TxDist
<1>5. \A f : RxEnd(t, f) = RxEnd(s, f) /\ TxEnd(t, f) = TxEnd(s, f)
  BY <1>4 DEF RxEnd, TxEnd
<1>6. /\ Cost[m].rx \in 1 .. RingEntries-1 /\ Cost[m].tx \in 1 .. RingEntries-1
      /\ RxDist(t, t.rxout) = RxDist(s, s.rxout) + Cost[m].rx
      /\ TxDist(t, t.txout) = TxDist(s, s.txout) + Cost[m].tx
  <2>1. /\ Cost[m].rx \in 1 .. RingEntries-1 /\ Cost[m].tx \in 1 .. RingEntries-1
        /\ RxDist(s, s.rxout) + Cost[m].rx < RingEntries
        /\ TxDist(s, s.txout) + Cost[m].tx < RingEntries
    BY <1>1, CheckedFits
  <2>2. Cost[m].rx \in 0 .. RingEntries-1 /\ Cost[m].tx \in 0 .. RingEntries-1
    BY <2>1
  <2>3. /\ RxDist(s, Incrd(s.rxout, Cost[m].rx)) = RxDist(s, s.rxout) + Cost[m].rx
        /\ TxDist(s, Incrd(s.txout, Cost[m].tx)) = TxDist(s, s.txout) + Cost[m].tx
    BY <2>1, <2>2, <1>2, AdvanceHead DEF RxDist, TxDist
  <2> QED BY <2>1, <2>3, <1>3, <1>4
<1>7. /\ Len(p) \in Nat /\ Len(q) = Len(p) + 1
      /\ DOMAIN p = 1 .. Len(p) /\ DOMAIN q = 1 .. Len(p) + 1
      /\ q[Len(p) + 1] = e
      /\ \A i \in 1 .. Len(p) : q[i] = p[i]
  BY <1>2
<1>8. e.msg = m /\ e.rx = s.rxout /\ e.tx = s.txout
  OBVIOUS
<1>9. /\ RxEnd(t, e) = RxDist(t, t.rxout) /\ TxEnd(t, e) = TxDist(t, t.txout)
      /\ RxEnd(s, e) = RxDist(t, t.rxout) /\ TxEnd(s, e) = TxDist(t, t.txout)
  BY <1>5, <1>6, <1>8 DEF RxEnd, TxEnd
<1> HIDE DEF e, q
<1>10. \A i \in 1 .. Len(p) :
         /\ p[i].rx \in Idx /\ p[i].tx \in Idx
         /\ Cost[p[i].msg].rx \in 1 .. RingEntries-1
         /\ RxEnd(s, p[i]) = RxDist(s, p[i].rx) + Cost[p[i].msg].rx
  BY <1>1, <1>7, EntryOf DEF RxEnd
<1>11. Layout(t)
  <2>1. q # << >>
    BY <1>7
  <2>2. q[1].rx = t.rxin /\ q[1].tx = t.txin
    <3>1. CASE p = << >>
      <4>1. s.rxin = s.rxout /\ s.txin = s.txout
        BY <3>1 DEF ChanInv, Layout
      <4> QED BY <3>1, <4>1, <1>3, <1>7, <1>8
    <3>2. CASE p # << >>
      <4>1. p[1].rx = s.rxin /\ p[1].tx = s.txin
        BY <3>2 DEF ChanInv, Layout
      <4>2. 1 \in 1 .. Len(p)
        BY <3>2, <1>2
      <4> QED BY <4>1, <4>2, <1>3, <1>7
    <3> QED BY <3>1, <3>2
  <2>3. ASSUME NEW i \in DOMAIN q
        PROVE  IF i = Len(q)
               THEN RxEnd(t, q[i]) = RxDist(t, t.rxout) /\ TxEnd(t, q[i]) = TxDist(t, t.txout)
               ELSE /\ RxEnd(t, q[i]) = RxDist(t, q[i+1].rx)
                    /\ TxEnd(t, q[i]) = TxDist(t, q[i+1].tx)
    <3>1. CASE i = Len(q)
      BY <3>1, <1>7, <1>9
    <3>2. CASE i # Len(q) /\ i = Len(p)
      <4>1. i \in 1 .. Len(p) /\ q[i] = p[i] /\ q[i+1] = e
        BY <3>2, <1>7
      <4>2. RxEnd(s, p[i]) = RxDist(s, s.rxout) /\ TxEnd(s, p[i]) = TxDist(s, s.txout)
        BY <4>1, <3>2, <1>7 DEF ChanInv, Layout
      <4> QED BY <3>2, <4>1, <4>2, <1>4, <1>5, <1>8
    <3>3. CASE i # Len(q) /\ i # Len(p)
      <4>1. i \in 1 .. Len(p) /\ i+1 \in 1 .. Len(p)
        BY <3>3, <1>7
      <4>2. q[i] = p[i] /\ q[i+1] = p[i+1]
        BY <4>1, <1>7
      <4>3. RxEnd(s, p[i]) = RxDist(s, p[i+1].rx) /\ TxEnd(s, p[i]) = TxDist(s, p[i+1].tx)
        BY <4>1, <3>3, <1>7 DEF ChanInv, Layout
      <4> QED BY <3>3, <4>2, <4>3, <1>4, <1>5
    <3> QED BY <3>1, <3>2, <3>3
  <2> QED BY <2>1, <2>2, <2>3, <1>3 DEF Layout
<1>12. \A i \in 1 .. Len(p) :
         /\ RxEnd(s, p[i]) <= RxDist(s, s.rxout)
         /\ TxEnd(s, p[i]) <= TxDist(s, s.txout)
         /\ \A j \in 1 .. Len(p) : i < j =>
              RxEnd(s, p[i]) <= RxDist(s, p[j].rx) /\ TxEnd(s, p[i]) <= TxDist(s, p[j].tx)
  BY <1>7 DEF ChanInv, Ordered
<1>13. \A i \in 1 .. Len(p) : RxEnd(s, p[i]) \in Nat /\ TxEnd(s, p[i]) \in Nat
  <2> TAKE i \in 1 .. Len(p)
  <2>1. p[i].rx \in Idx /\ p[i].tx \in Idx /\ i \in DOMAIN p
    BY <1>10, <1>7
  <2>2. RxDist(s, p[i].rx) \in Nat /\ TxDist(s, p[i].tx) \in Nat
    BY <1>1, <2>1, DistInRing
  <2>3. /\ Cost[p[i].msg].rx \in 1 .. RingEntries-1
        /\ Cost[p[i].msg].tx \in 1 .. RingEntries-1
    BY <1>1, <2>1, EntryOf
  <2> QED BY <2>2, <2>3, SMTT(30) DEF RxEnd, TxEnd
<1>14. RxDist(s, s.rxout) \in Nat /\ TxDist(s, s.txout) \in Nat
  BY <1>1, <1>2, DistInRing
<1>15. Ordered(t)
  <2>1. ASSUME NEW i \in DOMAIN q
        PROVE  /\ RxEnd(t, q[i]) <= RxDist(t, t.rxout)
               /\ TxEnd(t, q[i]) <= TxDist(t, t.txout)
    <3>1. CASE i = Len(p) + 1
      BY <3>1, <1>6, <1>7, <1>9, <1>14
    <3>2. CASE i \in 1 .. Len(p)
      <4>1. q[i] = p[i]
        BY <3>2, <1>7
      <4> QED BY <3>2, <4>1, <1>5, <1>6, <1>12, <1>13, <1>14, SMTT(30)
    <3> QED BY <3>1, <3>2, <1>7
  <2>2. ASSUME NEW i \in DOMAIN q, NEW j \in DOMAIN q, i < j
        PROVE  /\ RxEnd(t, q[i]) <= RxDist(t, q[j].rx)
               /\ TxEnd(t, q[i]) <= TxDist(t, q[j].tx)
    <3>1. i \in 1 .. Len(p) /\ q[i] = p[i]
      BY <2>2, <1>7
    <3>2. CASE j = Len(p) + 1
      BY <3>1, <3>2, <1>4, <1>5, <1>7, <1>8, <1>12
    <3>3. CASE j \in 1 .. Len(p)
      BY <3>1, <3>3, <2>2, <1>4, <1>5, <1>7, <1>12
    <3> QED BY <3>2, <3>3, <1>7
  <2> QED BY <2>1, <2>2, <1>3 DEF Ordered
<1>16. Slots(t)
  <2> SUFFICES ASSUME NEW i \in DOMAIN q
               PROVE  t.rxp_ctx[q[i].rx] = q[i].msg /\ t.numd[q[i].rx] = Cost[q[i].msg]
    BY <1>3 DEF Slots
  <2>1. CASE i = Len(p) + 1
    BY <2>1, <1>2, <1>3, <1>7, <1>8
  <2>2. CASE i \in 1 .. Len(p)
    <3>1. q[i] = p[i] /\ p[i].rx \in Idx
      BY <2>2, <1>7, <1>10
    <3>2. s.rxp_ctx[p[i].rx] = p[i].msg /\ s.numd[p[i].rx] = Cost[p[i].msg]
      BY <2>2, <1>7 DEF ChanInv, Slots
    <3>3. p[i].rx # s.rxout
      <4>1. /\ RxDist(s, p[i].rx) + Cost[p[i].msg].rx <= RxDist(s, s.rxout)
            /\ Cost[p[i].msg].rx \in 1 .. RingEntries-1
        BY <2>2, <1>10, <1>12
      <4>2. RxDist(s, p[i].rx) \in Nat
        BY <1>1, <3>1, DistInRing
      <4>3. RxDist(s, p[i].rx) # RxDist(s, s.rxout)
        BY <4>1, <4>2, <1>14
      <4> QED BY <4>3
    <3> QED BY <3>1, <3>2, <3>3, <1>2, <1>3
  <2> QED BY <2>1, <2>2, <1>7
<1>17. Between(t, h)
  <2>1. /\ RxDist(s, s.last_rx_curr) <= RxDist(s, h)
        /\ RxDist(s, h) <= RxDist(s, s.rxout)
    BY DEF ChanInv, Between
  <2>2. RxDist(s, h) \in Nat
    BY <1>1, DistInRing
  <2> QED BY <2>1, <2>2, <1>3, <1>4, <1>6, <1>14 DEF Between
<1>18. q # << >>
  BY <1>7
<1> QED
  BY <1>1, <1>3, <1>11, <1>15, <1>16, <1>17, <1>18 DEF ChanInv, t

\* The invariant does not look at msg_list.
LEMMA MsgListKeeps ==
  ASSUME NEW s, NEW h, ChanInv(s, h), NEW l \in Seq(Msg)
  PROVE  ChanInv([s EXCEPT !.msg_list = l], h)
<1> DEFINE t == [s EXCEPT !.msg_list = l]
<1>1. s \in ChanState
  BY DEF ChanInv
<1>2. t \in ChanState
  BY <1>1 DEF ChanState
<1>3. /\ t.rxin = s.rxin /\ t.txin = s.txin /\ t.rxout = s.rxout /\ t.txout = s.txout
      /\ t.posted = s.posted /\ t.rxp_ctx = s.rxp_ctx /\ t.numd = s.numd
      /\ t.last_rx_curr = s.last_rx_curr
  BY <1>1 DEF ChanState
<1> HIDE DEF t
<1>4. \A i : RxDist(t, i) = RxDist(s, i) /\ TxDist(t, i) = TxDist(s, i)
  BY <1>3 DEF RxDist, TxDist
<1>5. \A f : RxEnd(t, f) = RxEnd(s, f) /\ TxEnd(t, f) = TxEnd(s, f)
  BY <1>4 DEF RxEnd, TxEnd
<1>6. Layout(t)
  BY <1>3, <1>4, <1>5 DEF ChanInv, Layout
<1>7. Ordered(t)
  BY <1>3, <1>4, <1>5 DEF ChanInv, Ordered
<1>8. Slots(t) /\ Between(t, h)
  BY <1>3, <1>4 DEF ChanInv, Slots, Between
<1> QED
  BY <1>2, <1>6, <1>7, <1>8 DEF ChanInv, t

\* An idle channel has room for any request.
LEMMA EmptyFits ==
  ASSUME NEW s, NEW h, ChanInv(s, h), s.posted = << >>, NEW m \in Msg
  PROVE  DescrCheck(s, m)
<1>1. s.rxin = s.rxout /\ s.txin = s.txout
  BY DEF ChanInv, Layout
<1>2. s.rxin \in Idx /\ s.txin \in Idx
  BY DEF ChanInv, ChanState
<1>3. DescrCount(s.rxin, s.rxin) = 0 /\ DescrCount(s.txin, s.txin) = 0
  BY <1>2, SelfCount
<1>4. /\ DescrSpace(s.rxout, s.rxin) = RingEntries - 1
      /\ DescrSpace(s.txout, s.txin) = RingEntries - 1
  BY <1>1, <1>2, <1>3, SpaceInRing, PdcAssumption
<1> QED
  BY <1>4, PdcAssumption DEF DescrCheck

\* pdc_send_queued_data keeps the invariant and never leaves a request behind
\* on an idle channel, whatever it found.
LEMMA SendQueuedKeeps ==
  ASSUME NEW s, NEW h, ChanInv(s, h)
  PROVE  ChanInv(SendQueuedData(s), h) /\ NotStranded(SendQueuedData(s))
<1>1. s \in ChanState /\ s.msg_list \in Seq(Msg)
  BY DEF ChanInv, ChanState
<1>2. CASE s.msg_list = << >>
  BY <1>2 DEF SendQueuedData, NotStranded
<1>3. CASE s.msg_list # << >> /\ ~DescrCheck(s, Head(s.msg_list))
  <2>1. Head(s.msg_list) \in Msg
    BY <1>1, <1>3
  <2>2. s.posted # << >>
    BY <1>3, <2>1, EmptyFits
  <2> QED BY <1>3, <2>2 DEF SendQueuedData, NotStranded
<1>4. CASE s.msg_list # << >> /\ DescrCheck(s, Head(s.msg_list))
  <2> DEFINE t == [s EXCEPT !.msg_list = Tail(s.msg_list)]
  <2>1. Head(s.msg_list) \in Msg /\ Tail(s.msg_list) \in Seq(Msg)
    BY <1>1, <1>4
  <2>2. ChanInv(t, h)
    BY <2>1, MsgListKeeps
  <2>3. DescrCheck(t, Head(s.msg_list))
    BY <1>1, <1>4 DEF DescrCheck, ChanState
  <2>4. SendQueuedData(s) = Post(t, Head(s.msg_list))
    BY <1>4 DEF SendQueuedData
  <2> HIDE DEF t
  <2>5. ChanInv(Post(t, Head(s.msg_list)), h) /\ Post(t, Head(s.msg_list)).posted # << >>
    BY <2>1, <2>2, <2>3, PostKeeps
  <2> QED BY <2>4, <2>5 DEF NotStranded
<1> QED
  BY <1>2, <1>3, <1>4

\* The poll finds something only when a request is outstanding, and what it
\* reads at rxin is the oldest one.
LEMMA ReadyIsHead ==
  ASSUME NEW s, NEW h, ChanInv(s, h), Ready(s)
  PROVE  /\ s.posted # << >>
         /\ s.posted[1].rx = s.rxin /\ s.posted[1].tx = s.txin
         /\ s.rxp_ctx[s.rxin] = s.posted[1].msg
         /\ s.numd[s.rxin] = Cost[s.posted[1].msg]
         /\ Cost[s.posted[1].msg].rx <= RxDist(s, s.last_rx_curr)
<1>1. /\ s \in ChanState /\ h \in Idx
      /\ s.rxin \in Idx /\ s.last_rx_curr \in Idx /\ s.rxout \in Idx
      /\ s.posted \in Seq(Entry)
  BY DEF ChanInv, ChanState
<1>2. s.posted # << >>
  <2> SUFFICES ASSUME s.posted = << >> PROVE FALSE
    OBVIOUS
  <2>1. s.rxin = s.rxout
    BY DEF ChanInv, Layout
  <2>2. RxDist(s, s.rxout) = 0
    BY <2>1, <1>1, SelfCount DEF RxDist
  <2>3. /\ RxDist(s, s.last_rx_curr) <= RxDist(s, h)
        /\ RxDist(s, h) <= RxDist(s, s.rxout)
    BY DEF ChanInv, Between
  <2>4. RxDist(s, s.last_rx_curr) \in Nat /\ RxDist(s, h) \in Nat
    BY <1>1, DistInRing
  <2>5. RxDist(s, s.last_rx_curr) # 0
    BY DEF Ready, RxDist
  <2> QED BY <2>2, <2>3, <2>4, <2>5
<1>3. s.posted[1].rx = s.rxin /\ s.posted[1].tx = s.txin
  BY <1>2 DEF ChanInv, Layout
<1>4. 1 \in DOMAIN s.posted
  BY <1>1, <1>2
<1>5. s.rxp_ctx[s.rxin] = s.posted[1].msg /\ s.numd[s.rxin] = Cost[s.posted[1].msg]
  BY <1>3, <1>4 DEF ChanInv, Slots
<1>6. s.numd[s.rxin].rx <= RxDist(s, s.last_rx_curr)
  <2>1. RxDist(s, s.last_rx_curr) >= s.numd[s.rxin].rx
    BY DEF Ready, RxDist
  <2>2. s.numd[s.rxin].rx \in Int
    BY <1>1, PdcAssumption DEF ChanState, Numd
  <2> QED BY <2>1, <2>2, <1>1, DistInRing
<1> QED
  BY <1>2, <1>3, <1>5, <1>6

LEMMA ReclaimFields ==
  ASSUME NEW s \in ChanState, s.posted # << >>, NEW n \in Numd, s.numd[s.rxin] = n
  PROVE  LET t == Reclaim(s)
         IN  /\ t \in ChanState
             /\ t.rxin = Incrd(s.rxin, n.rx) /\ t.txin = Incrd(s.txin, n.tx)
             /\ t.rxout = s.rxout /\ t.txout = s.txout
             /\ t.last_rx_curr = s.last_rx_curr /\ t.msg_list = s.msg_list
             /\ t.rxp_ctx = s.rxp_ctx /\ t.numd = s.numd
             /\ t.posted = Tail(s.posted)
<1>1. /\ s.rxin \in Idx /\ s.txin \in Idx
      /\ n.rx \in 0 .. RingEntries-1 /\ n.tx \in 0 .. RingEntries-1
  BY DEF ChanState, Numd
<1>2. Incrd(s.rxin, n.rx) \in Idx /\ Incrd(s.txin, n.tx) \in Idx
  BY <1>1, IncrdInRing
<1>3. Tail(s.posted) \in Seq(Entry)
  BY DEF ChanState
<1> QED
  BY <1>2, <1>3 DEF Reclaim, ChanState

\* Taking a finished request back keeps the invariant: every remaining index
\* lies at or past the end of its run, so all distances shrink by its length.
LEMMA ReclaimKeeps ==
  ASSUME NEW s, NEW h, ChanInv(s, h), Ready(s)
  PROVE  ChanInv(Reclaim(s), h)
<1> DEFINE t == Reclaim(s)
           p == s.posted
           q == Tail(p)
           n == Cost[p[1].msg]
<1>1. s \in ChanState /\ h \in Idx
  BY DEF ChanInv
<1>2. /\ s.rxin \in Idx /\ s.rxout \in Idx /\ s.txin \in Idx /\ s.txout \in Idx
      /\ s.last_rx_curr \in Idx /\ p \in Seq(Entry)
  BY <1>1 DEF ChanState
<1>3. /\ p # << >>
      /\ p[1].rx = s.rxin /\ p[1].tx = s.txin
      /\ s.numd[s.rxin] = n
      /\ n.rx <= RxDist(s, s.last_rx_curr)
  BY ReadyIsHead
<1>4. 1 \in DOMAIN p
  BY <1>2, <1>3
<1>5. n \in Numd /\ n.rx \in 1 .. RingEntries-1 /\ n.tx \in 1 .. RingEntries-1
  BY <1>1, <1>4, EntryOf, PdcAssumption DEF Numd
<1>6. /\ t \in ChanState
      /\ t.rxin = Incrd(s.rxin, n.rx) /\ t.txin = Incrd(s.txin, n.tx)
      /\ t.rxout = s.rxout /\ t.txout = s.txout /\ t.last_rx_curr = s.last_rx_curr
      /\ t.rxp_ctx = s.rxp_ctx /\ t.numd = s.numd
      /\ t.posted = q
  BY <1>1, <1>3, <1>5, ReclaimFields
<1>7. /\ Len(p) \in Nat \ {0} /\ Len(q) = Len(p) - 1
      /\ DOMAIN p = 1 .. Len(p) /\ DOMAIN q = 1 .. Len(p) - 1
      /\ \A i \in 1 .. Len(p) - 1 : q[i] = p[i+1]
  BY <1>2, <1>3
<1> HIDE DEF t, q, n
<1>8. \A i \in Idx : /\ n.rx <= RxDist(s, i) => RxDist(t, i) = RxDist(s, i) - n.rx
                     /\ n.tx <= TxDist(s, i) => TxDist(t, i) = TxDist(s, i) - n.tx
  <2> TAKE i \in Idx
  <2>1. n.rx \in 0 .. RingEntries-1 /\ n.tx \in 0 .. RingEntries-1
    BY <1>5
  <2> QED BY <2>1, <1>2, <1>6, AdvanceTail DEF RxDist, TxDist
<1>9. RxEnd(s, p[1]) = n.rx /\ TxEnd(s, p[1]) = n.tx
  <2>1. RxDist(s, s.rxin) = 0 /\ TxDist(s, s.txin) = 0
    BY <1>2, SelfCount DEF RxDist, TxDist
  <2> QED BY <2>1, <1>3, <1>5 DEF RxEnd, TxEnd, n
<1>10. /\ n.rx <= RxDist(s, s.rxout) /\ n.tx <= TxDist(s, s.txout)
       /\ \A i \in 2 .. Len(p) : n.rx <= RxDist(s, p[i].rx) /\ n.tx <= TxDist(s, p[i].tx)
  <2>1. /\ RxEnd(s, p[1]) <= RxDist(s, s.rxout) /\ TxEnd(s, p[1]) <= TxDist(s, s.txout)
        /\ \A j \in DOMAIN p : 1 < j => /\ RxEnd(s, p[1]) <= RxDist(s, p[j].rx)
                                       /\ TxEnd(s, p[1]) <= TxDist(s, p[j].tx)
    BY <1>4 DEF ChanInv, Ordered
  <2>2. \A i \in 2 .. Len(p) : i \in DOMAIN p /\ 1 < i
    BY <1>7
  <2> QED BY <2>1, <2>2, <1>9
<1>11. /\ RxDist(t, t.rxout) = RxDist(s, s.rxout) - n.rx
       /\ TxDist(t, t.txout) = TxDist(s, s.txout) - n.tx
  BY <1>2, <1>6, <1>8, <1>10
<1>12. /\ RxDist(s, s.rxout) \in Nat /\ TxDist(s, s.txout) \in Nat
       /\ n.rx \in Nat /\ n.tx \in Nat
  <2>1. RxDist(s, s.rxout) \in Nat /\ TxDist(s, s.txout) \in Nat
    BY <1>1, <1>2, DistInRing
  <2>2. n.rx \in Nat /\ n.tx \in Nat
    BY <1>5, PdcAssumption
  <2> QED BY <2>1, <2>2
<1>18. ASSUME NEW i \in 2 .. Len(p)
       PROVE  /\ RxDist(t, p[i].rx) = RxDist(s, p[i].rx) - n.rx
              /\ TxDist(t, p[i].tx) = TxDist(s, p[i].tx) - n.tx
              /\ RxEnd(t, p[i]) = RxEnd(s, p[i]) - n.rx
              /\ TxEnd(t, p[i]) = TxEnd(s, p[i]) - n.tx
              /\ RxEnd(s, p[i]) \in Nat /\ TxEnd(s, p[i]) \in Nat
              /\ RxDist(s, p[i].rx) \in Nat /\ TxDist(s, p[i].tx) \in Nat
  <3>1. i \in DOMAIN p
    BY <1>7
  <3>2. /\ p[i].rx \in Idx /\ p[i].tx \in Idx
        /\ Cost[p[i].msg].rx \in 1 .. RingEntries-1
        /\ Cost[p[i].msg].tx \in 1 .. RingEntries-1
    BY <3>1, <1>1, EntryOf
  <3>3. /\ RxDist(t, p[i].rx) = RxDist(s, p[i].rx) - n.rx
        /\ TxDist(t, p[i].tx) = TxDist(s, p[i].tx) - n.tx
    BY <3>2, <1>8, <1>10
  <3>4. RxDist(s, p[i].rx) \in Nat /\ TxDist(s, p[i].tx) \in Nat
    BY <3>2, <1>1, DistInRing
  <3>5. Cost[p[i].msg].rx \in Nat /\ Cost[p[i].msg].tx \in Nat
    BY <3>2, PdcAssumption
  <3>7. RxEnd(s, p[i]) \in Nat /\ TxEnd(s, p[i]) \in Nat
    BY <3>4, <3>5, SMTT(30) DEF RxEnd, TxEnd
  <3>8. RxEnd(t, p[i]) = RxEnd(s, p[i]) - n.rx /\ TxEnd(t, p[i]) = TxEnd(s, p[i]) - n.tx
    <4>1. RxDist(t, p[i].rx) + Cost[p[i].msg].rx
            = (RxDist(s, p[i].rx) + Cost[p[i].msg].rx) - n.rx
      BY <3>3, <3>4, <3>5, <1>12, SMTT(30)
    <4>2. TxDist(t, p[i].tx) + Cost[p[i].msg].tx
            = (TxDist(s, p[i].tx) + Cost[p[i].msg].tx) - n.tx
      BY <3>3, <3>4, <3>5, <1>12, SMTT(30)
    <4> QED BY <4>1, <4>2 DEF RxEnd, TxEnd
  <3> QED BY <3>3, <3>4, <3>7, <3>8
<1>13. \A i \in DOMAIN q : i + 1 \in 2 .. Len(p) /\ q[i] = p[i+1]
  BY <1>7
<1>14. Layout(t)
  <2>1. CASE Len(p) = 1
    <3>1. RxEnd(s, p[1]) = RxDist(s, s.rxout) /\ TxEnd(s, p[1]) = TxDist(s, s.txout)
      BY <2>1, <1>4 DEF ChanInv, Layout
    <3>2. RxDist(t, t.rxout) = 0 /\ TxDist(t, t.txout) = 0
      <4>1. RxDist(s, s.rxout) = n.rx /\ TxDist(s, s.txout) = n.tx
        BY <3>1, <1>9
      <4> QED BY <4>1, <1>11, <1>12
    <3>3. RxDist(t, t.rxin) = 0 /\ TxDist(t, t.txin) = 0 /\ t.rxin \in Idx /\ t.txin \in Idx
      BY <1>6, SelfCount DEF RxDist, TxDist, ChanState
    <3>4. t.rxin = t.rxout /\ t.txin = t.txout
      BY <3>2, <3>3, <1>2, <1>6, SameDistance DEF RxDist, TxDist
    <3>5. DOMAIN q = {} /\ q = << >>
      BY <2>1, <1>2, <1>3, <1>7 DEF q
    <3> QED BY <3>4, <3>5, <1>6 DEF Layout
  <2>2. CASE Len(p) # 1
    <3>1. 1 \in DOMAIN q /\ q[1] = p[2] /\ 2 \in 2 .. Len(p) /\ 2 \in DOMAIN p
      <4>1. 1 \in 1 .. Len(p) - 1 /\ 2 \in 1 .. Len(p) /\ 2 \in 2 .. Len(p) /\ 1 + 1 = 2
        <5>1. Len(p) \in Nat /\ Len(p) # 0
          BY <1>7
        <5> QED BY <5>1, <2>2, TwoOfMany, Zenon
      <4>2. q[1] = p[1+1]
        BY <4>1, <1>7
      <4> QED BY <4>1, <4>2, <1>7, Zenon
    <3>2. RxEnd(s, p[1]) = RxDist(s, p[2].rx) /\ TxEnd(s, p[1]) = TxDist(s, p[2].tx)
      <4>1. RxEnd(s, p[1]) = RxDist(s, p[1+1].rx) /\ TxEnd(s, p[1]) = TxDist(s, p[1+1].tx)
        BY <2>2, <1>4 DEF ChanInv, Layout
      <4>2. 1 + 1 = 2
        OBVIOUS
      <4> QED BY <4>1, <4>2, Zenon
    <3>3. RxDist(t, p[2].rx) = 0 /\ TxDist(t, p[2].tx) = 0
      <4>1. RxDist(s, p[2].rx) = n.rx /\ TxDist(s, p[2].tx) = n.tx
        BY <3>2, <1>9
      <4>2. /\ RxDist(t, p[2].rx) = RxDist(s, p[2].rx) - n.rx
            /\ TxDist(t, p[2].tx) = TxDist(s, p[2].tx) - n.tx
        BY <3>1, <1>18
      <4> QED BY <4>1, <4>2, <1>12
    <3>4. RxDist(t, t.rxin) = 0 /\ TxDist(t, t.txin) = 0 /\ t.rxin \in Idx /\ t.txin \in Idx
      BY <1>6, SelfCount DEF RxDist, TxDist, ChanState
    <3>5. q[1].rx = t.rxin /\ q[1].tx = t.txin
      BY <3>1, <3>3, <3>4, <1>1, EntryOf, SameDistance DEF RxDist, TxDist
    <3>6. ASSUME NEW i \in DOMAIN q
          PROVE  IF i = Len(q)
                 THEN RxEnd(t, q[i]) = RxDist(t, t.rxout) /\ TxEnd(t, q[i]) = TxDist(t, t.txout)
                 ELSE /\ RxEnd(t, q[i]) = RxDist(t, q[i+1].rx)
                      /\ TxEnd(t, q[i]) = TxDist(t, q[i+1].tx)
      <4>1. i + 1 \in 2 .. Len(p) /\ q[i] = p[i+1] /\ i + 1 \in DOMAIN p
        BY <1>7, <1>13
      <4>2. CASE i = Len(q)
        <5>1. i + 1 = Len(p)
          BY <4>2, <1>7
        <5>2. /\ RxEnd(s, p[i+1]) = RxDist(s, s.rxout)
              /\ TxEnd(s, p[i+1]) = TxDist(s, s.txout)
          BY <5>1, <4>1 DEF ChanInv, Layout
        <5> QED BY <4>1, <4>2, <5>2, <1>11, <1>18
      <4>3. CASE i # Len(q)
        <5>1. /\ i + 1 # Len(p) /\ (i + 1) + 1 \in 2 .. Len(p)
              /\ q[i+1] = p[(i+1)+1]
          BY <4>1, <4>3, <1>7
        <5>2. /\ RxEnd(s, p[i+1]) = RxDist(s, p[(i+1)+1].rx)
              /\ TxEnd(s, p[i+1]) = TxDist(s, p[(i+1)+1].tx)
          BY <5>1, <4>1 DEF ChanInv, Layout
        <5> QED BY <4>1, <4>3, <5>1, <5>2, <1>18
      <4> QED BY <4>2, <4>3
    <3>7. q # << >>
      BY <3>1
    <3> QED BY <3>5, <3>6, <3>7, <1>6 DEF Layout
  <2> QED BY <2>1, <2>2
<1>15. Ordered(t)
  <2>1. ASSUME NEW i \in DOMAIN q
        PROVE  /\ RxEnd(t, q[i]) <= RxDist(t, t.rxout)
               /\ TxEnd(t, q[i]) <= TxDist(t, t.txout)
    <3>1. i + 1 \in 2 .. Len(p) /\ q[i] = p[i+1] /\ i + 1 \in DOMAIN p
      BY <1>7, <1>13
    <3>2. /\ RxEnd(s, p[i+1]) <= RxDist(s, s.rxout)
          /\ TxEnd(s, p[i+1]) <= TxDist(s, s.txout)
      BY <3>1 DEF ChanInv, Ordered
    <3> QED BY <3>1, <3>2, <1>11, <1>12, <1>18, ShiftLeq, ZenonT(30)
  <2>2. ASSUME NEW i \in DOMAIN q, NEW j \in DOMAIN q, i < j
        PROVE  /\ RxEnd(t, q[i]) <= RxDist(t, q[j].rx)
               /\ TxEnd(t, q[i]) <= TxDist(t, q[j].tx)
    <3>1. /\ i + 1 \in 2 .. Len(p) /\ q[i] = p[i+1] /\ i + 1 \in DOMAIN p
          /\ j + 1 \in 2 .. Len(p) /\ q[j] = p[j+1] /\ j + 1 \in DOMAIN p
          /\ i + 1 < j + 1
      BY <2>2, <1>7, <1>13
    <3>2. /\ RxEnd(s, p[i+1]) <= RxDist(s, p[j+1].rx)
          /\ TxEnd(s, p[i+1]) <= TxDist(s, p[j+1].tx)
      BY <3>1 DEF ChanInv, Ordered
    <3>3. /\ RxEnd(s, p[i+1]) - n.rx <= RxDist(s, p[j+1].rx) - n.rx
          /\ TxEnd(s, p[i+1]) - n.tx <= TxDist(s, p[j+1].tx) - n.tx
      BY <3>1, <3>2, <1>12, <1>18, ShiftLeq
    <3>4. RxEnd(t, p[i+1]) = RxEnd(s, p[i+1]) - n.rx /\ TxEnd(t, p[i+1]) = TxEnd(s, p[i+1]) - n.tx
      BY <3>1, <1>18
    <3>5. /\ RxDist(t, p[j+1].rx) = RxDist(s, p[j+1].rx) - n.rx
          /\ TxDist(t, p[j+1].tx) = TxDist(s, p[j+1].tx) - n.tx
      BY <3>1, <1>18
    <3> QED BY <3>1, <3>3, <3>4, <3>5, Zenon
  <2> QED BY <2>1, <2>2, <1>6 DEF Ordered
<1>16. Slots(t)
  <2> SUFFICES ASSUME NEW i \in DOMAIN q
               PROVE  t.rxp_ctx[q[i].rx] = q[i].msg /\ t.numd[q[i].rx] = Cost[q[i].msg]
    BY <1>6 DEF Slots
  <2>1. q[i] = p[i+1] /\ i + 1 \in DOMAIN p
    BY <1>7, <1>13
  <2> QED BY <2>1, <1>6 DEF ChanInv, Slots
<1>17. Between(t, h)
  <2>1. /\ RxDist(s, s.last_rx_curr) <= RxDist(s, h)
        /\ RxDist(s, h) <= RxDist(s, s.rxout)
    BY DEF ChanInv, Between
  <2>2. RxDist(s, h) \in Nat /\ RxDist(s, s.last_rx_curr) \in Nat
    BY <1>1, <1>2, DistInRing
  <2>3. /\ RxDist(t, s.last_rx_curr) = RxDist(s, s.last_rx_curr) - n.rx
        /\ RxDist(t, h) = RxDist(s, h) - n.rx
    BY <1>1, <1>2, <1>3, <1>8, <1>12, <2>1, <2>2
  <2> QED BY <2>1, <2>2, <2>3, <1>6, <1>11, <1>12 DEF Between
<1> QED
  BY <1>1, <1>6, <1>14, <1>15, <1>16, <1>17 DEF ChanInv, t

\* Reading the engine's position again keeps the invariant.
LEMMA RefreshKeeps ==
  ASSUME NEW s, NEW h, ChanInv(s, h)
  PROVE  /\ ChanInv(Refresh(s, h), h)
         /\ NotStranded(s) => NotStranded(Refresh(s, h))
<1>1. CASE Ready(s)
  BY <1>1 DEF Refresh
<1>2. CASE ~Ready(s)
  <2> DEFINE t == [s EXCEPT !.last_rx_curr = h]
  <2>1. s \in ChanState /\ h \in Idx
    BY DEF ChanInv
  <2>2. t \in ChanState
    BY <2>1 DEF ChanState
  <2>3. /\ t.rxin = s.rxin /\ t.txin = s.txin /\ t.rxout = s.rxout /\ t.txout = s.txout
        /\ t.posted = s.posted /\ t.rxp_ctx = s.rxp_ctx /\ t.numd = s.numd
        /\ t.msg_list = s.msg_list /\ t.last_rx_curr = h
    BY <2>1 DEF ChanState
  <2>4. Refresh(s, h) = t
    BY <1>2 DEF Refresh
  <2> HIDE DEF t
  <2>5. \A i : RxDist(t, i) = RxDist(s, i) /\ TxDist(t, i) = TxDist(s, i)
    BY <2>3 DEF RxDist, TxDist
  <2>6. \A f : RxEnd(t, f) = RxEnd(s, f) /\ TxEnd(t, f) = TxEnd(s, f)
    BY <2>5 DEF RxEnd, TxEnd
  <2>7. Layout(t)
    BY <2>3, <2>5, <2>6 DEF ChanInv, Layout
  <2>8. Ordered(t)
    BY <2>3, <2>5, <2>6 DEF ChanInv, Ordered
  <2>9. Slots(t)
    BY <2>3 DEF ChanInv, Slots
  <2>10. Between(t, h)
    <3>1. RxDist(s, h) <= RxDist(s, s.rxout) /\ RxDist(s, h) \in Nat
      BY <2>1, DistInRing DEF ChanInv, Between
    <3>2. RxDist(s, h) <= RxDist(s, h)
      BY <3>1
    <3> QED BY <3>1, <3>2, <2>3, <2>5 DEF Between
  <2> QED BY <2>1, <2>2, <2>3, <2>4, <2>7, <2>8, <2>9, <2>10 DEF ChanInv, NotStranded
<1> QED BY <1>1, <1>2

\* The engine may fill one more posted descriptor.
LEMMA AdvanceKeeps ==
  ASSUME NEW s, NEW h, ChanInv(s, h), h # s.rxout
  PROVE  ChanInv(s, Nextd(h))
<1>1. s \in ChanState /\ h \in Idx /\ s.rxin \in Idx /\ s.rxout \in Idx /\ s.last_rx_curr \in Idx
  BY DEF ChanInv, ChanState
<1>2. 1 \in 0 .. RingEntries-1
  BY PdcAssumption
<1>3. Nextd(h) \in Idx
  BY <1>1, <1>2, IncrdInRing DEF Nextd
<1>4. /\ RxDist(s, s.last_rx_curr) \in Nat /\ RxDist(s, h) \in Nat
      /\ RxDist(s, s.rxout) \in Nat /\ RxDist(s, s.rxout) < RingEntries
  BY <1>1, DistInRing
<1>5. /\ RxDist(s, s.last_rx_curr) <= RxDist(s, h)
      /\ RxDist(s, h) <= RxDist(s, s.rxout)
  BY DEF ChanInv, Between
<1>6. RxDist(s, h) # RxDist(s, s.rxout)
  BY <1>1, SameDistance DEF RxDist
<1>7. RxDist(s, h) + 1 <= RxDist(s, s.rxout) /\ RxDist(s, h) + 1 < RingEntries
  BY <1>4, <1>5, <1>6, PdcAssumption
<1>8. RxDist(s, Nextd(h)) = RxDist(s, h) + 1
  BY <1>1, <1>2, <1>7, AdvanceHead DEF RxDist, Nextd
<1>9. Between(s, Nextd(h))
  BY <1>4, <1>5, <1>7, <1>8 DEF Between
<1> QED
  BY <1>3, <1>9 DEF ChanInv

-----------------------------------------------------------------------------
(* The invariant of the driver.                                            *)

\* The interrupts are enabled only while nobody has work: see OneAcknowledger.
MaskInv ==
  /\ irq.at # "idle" => worker.at = "wait" /\ ~work_avail
  /\ intmask => irq.at = "idle" /\ worker.at = "wait" /\ ~work_avail
  /\ worker.at = "unmask" => ~work_avail

\* The thread holds a message exactly while it runs its callback.
CallbackInv == worker.at = "callback" <=> worker.msg # NoMsg

RingsInv == \A c \in Chan : ChanInv(pdc[c], hwrx[c]) /\ NotStranded(pdc[c])

IInv ==
  /\ TypeOK
  /\ RingsInv
  /\ worker.at = "callback" => worker.ch < NumChan
  /\ MaskInv
  /\ CallbackInv

LEMMA InitIInv == Init => IInv
<1> SUFFICES ASSUME Init PROVE IInv
  OBVIOUS
<1>1. ChanInv(InitState, 0) /\ NotStranded(InitState)
  BY InitStateInv
<1>2. InitState \in ChanState /\ 0 \in Idx /\ 0 \in 0 .. NumChan
  BY <1>1, PdcAssumption DEF ChanInv
<1>3. TypeOK
  BY <1>2 DEF Init, TypeOK, WorkerState
<1>4. RingsInv
  BY <1>1 DEF Init, RingsInv
<1>5. MaskInv
  BY DEF Init, MaskInv
<1> QED
  BY <1>3, <1>4, <1>5 DEF IInv, CallbackInv, Init

\* One channel changes and the others do not.
LEMMA OneChanKeeps ==
  ASSUME NEW c \in Chan, NEW s, NEW h, IInv,
         pdc' = [pdc EXCEPT ![c] = s], hwrx' = [hwrx EXCEPT ![c] = h],
         ChanInv(s, h), NotStranded(s)
  PROVE  RingsInv' /\ pdc' \in [Chan -> ChanState] /\ hwrx' \in [Chan -> Idx]
<1>1. pdc \in [Chan -> ChanState] /\ hwrx \in [Chan -> Idx]
  BY DEF IInv, TypeOK
<1>2. s \in ChanState /\ h \in Idx
  BY DEF ChanInv
<1>3. \A d \in Chan : ChanInv(pdc'[d], hwrx'[d]) /\ NotStranded(pdc'[d])
  BY <1>1 DEF IInv, RingsInv
<1> QED
  BY <1>1, <1>2, <1>3 DEF RingsInv

LEMMA StepIInv == IInv /\ [Next]_vars => IInv'
<1> SUFFICES ASSUME IInv, [Next]_vars PROVE IInv'
  OBVIOUS
<1>a. /\ pdc \in [Chan -> ChanState] /\ hwrx \in [Chan -> Idx]
      /\ intstatus \in SUBSET Chan /\ intmask \in BOOLEAN /\ work_avail \in BOOLEAN
      /\ worker \in WorkerState
      /\ irq \in [at : {"idle", "read", "ack", "wake"}, status : SUBSET Chan]
  BY DEF IInv, TypeOK
<1>b. worker.ch \in 0 .. NumChan /\ NumChan \in Nat \ {0}
  BY <1>a, PdcAssumption DEF WorkerState
<1>c. ASSUME NEW c \in Chan
      PROVE  ChanInv(pdc[c], hwrx[c]) /\ NotStranded(pdc[c])
  BY DEF IInv, RingsInv
<1>d. \A c \in Chan : pdc = [pdc EXCEPT ![c] = pdc[c]] /\ hwrx = [hwrx EXCEPT ![c] = hwrx[c]]
  BY <1>a
<1>1. ASSUME NEW c \in Chan, NEW m \in Msg, SendData(c, m)
      PROVE  IInv'
  <2> DEFINE s == [pdc[c] EXCEPT !.msg_list = Append(pdc[c].msg_list, m)]
  <2>1. Append(pdc[c].msg_list, m) \in Seq(Msg)
    BY <1>a DEF ChanState
  <2>2. ChanInv(s, hwrx[c])
    BY <1>c, <2>1, MsgListKeeps
  <2>3. ChanInv(SendQueuedData(s), hwrx[c]) /\ NotStranded(SendQueuedData(s))
    BY <2>2, SendQueuedKeeps
  <2>4. pdc' = [pdc EXCEPT ![c] = SendQueuedData(s)] /\ hwrx' = [hwrx EXCEPT ![c] = hwrx[c]]
    <3>1. pdc' = [pdc EXCEPT ![c] = SendQueuedData(s)]
      BY <1>1 DEF SendData, Enqueue
    <3>2. hwrx' = hwrx
      BY <1>1 DEF SendData
    <3> QED BY <3>1, <3>2, <1>d
  <2> HIDE DEF s
  <2>5. RingsInv' /\ pdc' \in [Chan -> ChanState] /\ hwrx' \in [Chan -> Idx]
    BY <2>3, <2>4, OneChanKeeps
  <2>6. UNCHANGED <<intstatus, intmask, work_avail, worker, irq>>
    BY <1>1 DEF SendData
  <2> QED BY <1>a, <2>5, <2>6 DEF IInv, TypeOK, MaskInv, CallbackInv
<1>2. ASSUME NEW c \in Chan, HwAdvance(c)
      PROVE  IInv'
  <2>1. ChanInv(pdc[c], Nextd(hwrx[c]))
    BY <1>2, <1>c, AdvanceKeeps DEF HwAdvance
  <2>2. pdc' = [pdc EXCEPT ![c] = pdc[c]] /\ hwrx' = [hwrx EXCEPT ![c] = Nextd(hwrx[c])]
    <3>1. pdc' = pdc /\ hwrx' = [hwrx EXCEPT ![c] = Nextd(hwrx[c])]
      BY <1>2 DEF HwAdvance
    <3> QED BY <3>1, <1>d
  <2>3. RingsInv' /\ pdc' \in [Chan -> ChanState] /\ hwrx' \in [Chan -> Idx]
    BY <1>c, <2>1, <2>2, OneChanKeeps
  <2>4. intstatus' \in SUBSET Chan /\ UNCHANGED <<intmask, work_avail, worker, irq>>
    BY <1>2, <1>a DEF HwAdvance
  <2> QED BY <1>a, <2>3, <2>4 DEF IInv, TypeOK, MaskInv, CallbackInv
<1>3. CASE Irq
  <2>1. RingsInv' /\ UNCHANGED <<pdc, hwrx, worker>>
    BY <1>3 DEF Irq, IrqMask, IrqRead, IrqAck, IrqWake, IInv, RingsInv
  <2>2. TypeOK'
    <3>1. CASE IrqMask
      BY <3>1, <1>a DEF IrqMask, TypeOK
    <3>2. CASE IrqRead
      BY <3>2, <1>a DEF IrqRead, TypeOK
    <3>3. CASE IrqAck
      BY <3>3, <1>a DEF IrqAck, TypeOK
    <3>4. CASE IrqWake
      BY <3>4, <1>a DEF IrqWake, TypeOK
    <3> QED BY <1>3, <3>1, <3>2, <3>3, <3>4 DEF Irq
  <2>3. MaskInv'
    BY <1>3, <1>a DEF Irq, IrqMask, IrqRead, IrqAck, IrqWake, IInv, MaskInv
  <2> QED BY <2>1, <2>2, <2>3 DEF IInv, CallbackInv
<1>4. CASE PollReady
  <2> DEFINE c == worker.ch
             s == Refresh(pdc[c], hwrx[c])
  <2>1. c \in Chan
    BY <1>4, <1>b DEF PollReady, Chan
  <2>2. ChanInv(s, hwrx[c]) /\ Ready(s)
    BY <1>4, <1>c, <2>1, RefreshKeeps DEF PollReady
  <2>3. pdc' = [pdc EXCEPT ![c] = SendQueuedData(Reclaim(s))] /\ hwrx' = [hwrx EXCEPT ![c] = hwrx[c]]
    BY <1>4, <1>d, <2>1 DEF PollReady
  <2>4. /\ worker' = [worker EXCEPT !.at = "callback", !.msg = s.rxp_ctx[s.rxin]]
        /\ UNCHANGED <<intstatus, intmask, work_avail, irq>>
        /\ worker.at = "poll" /\ c < NumChan
    BY <1>4 DEF PollReady
  <2>5. s.rxp_ctx[s.rxin] \in Msg
    <3>1. s.posted # << >> /\ s.rxp_ctx[s.rxin] = s.posted[1].msg
      BY <2>2, ReadyIsHead
    <3>2. s \in ChanState /\ 1 \in DOMAIN s.posted
      BY <2>2, <3>1 DEF ChanInv, ChanState
    <3> QED BY <3>1, <3>2, EntryOf
  <2> HIDE DEF s
  <2>6. ChanInv(SendQueuedData(Reclaim(s)), hwrx[c]) /\ NotStranded(SendQueuedData(Reclaim(s)))
    BY <2>2, ReclaimKeeps, SendQueuedKeeps
  <2>7. RingsInv' /\ pdc' \in [Chan -> ChanState] /\ hwrx' \in [Chan -> Idx]
    BY <2>1, <2>3, <2>6, OneChanKeeps
  <2>8. worker' \in WorkerState /\ worker'.at = "callback" /\ worker'.ch = c
    BY <1>a, <2>4, <2>5 DEF WorkerState
  <2>9. worker'.msg # NoMsg
    BY <1>a, <2>4, <2>5, PdcAssumption DEF WorkerState
  <2>10. CallbackInv'
    BY <2>8, <2>9 DEF CallbackInv
  <2> QED BY <2>10, <1>a, <2>4, <2>7, <2>8 DEF IInv, TypeOK, MaskInv
<1>5. CASE PollEmpty
  <2> DEFINE c == worker.ch
             s == Refresh(pdc[c], hwrx[c])
  <2>1. c \in Chan
    BY <1>5, <1>b DEF PollEmpty, Chan
  <2>2. ChanInv(s, hwrx[c]) /\ NotStranded(s)
    BY <1>c, <2>1, RefreshKeeps
  <2>3. pdc' = [pdc EXCEPT ![c] = s] /\ hwrx' = [hwrx EXCEPT ![c] = hwrx[c]]
    BY <1>5, <1>d, <2>1 DEF PollEmpty
  <2>4. /\ worker' = [worker EXCEPT !.ch = worker.ch + 1]
        /\ UNCHANGED <<intstatus, intmask, work_avail, irq>>
        /\ worker.at = "poll" /\ worker.ch < NumChan
    BY <1>5 DEF PollEmpty
  <2> HIDE DEF s
  <2>5. RingsInv' /\ pdc' \in [Chan -> ChanState] /\ hwrx' \in [Chan -> Idx]
    BY <2>1, <2>2, <2>3, OneChanKeeps
  <2>6. worker.ch + 1 \in 0 .. NumChan
    BY <1>b, <2>4
  <2>7. worker' \in WorkerState /\ worker'.at = "poll" /\ worker'.msg = worker.msg
    BY <1>a, <2>4, <2>6 DEF WorkerState
  <2> QED BY <1>a, <2>4, <2>5, <2>7 DEF IInv, TypeOK, MaskInv, CallbackInv
<1>6. CASE Callback
  <2>1. worker.ch + 1 \in 0 .. NumChan /\ worker.msg_rcvd + 1 \in Nat
    BY <1>6, <1>a, <1>b DEF Callback, IInv, WorkerState
  <2>2. worker' \in WorkerState /\ worker'.at = "poll" /\ worker'.msg = NoMsg
    BY <1>6, <1>a, <2>1 DEF Callback, WorkerState
  <2>3. worker.at = "callback" /\ UNCHANGED <<pdc, hwrx, intstatus, intmask, work_avail, irq>>
    BY <1>6 DEF Callback
  <2> QED BY <1>a, <2>2, <2>3 DEF IInv, TypeOK, RingsInv, MaskInv, CallbackInv
<1>7. CASE PollRound
  <2> DEFINE total == worker.count + worker.msg_rcvd
  <2>1. worker.at = "poll" /\ UNCHANGED <<pdc, hwrx, intstatus, intmask, work_avail, irq>>
    BY <1>7 DEF PollRound
  <2>2. total \in Nat /\ 0 \in 0 .. NumChan
    BY <1>a, <1>b DEF WorkerState
  <2>3. PICK a \in {"poll", "wait", "read"}, k \in Nat :
          worker' = [worker EXCEPT !.at = a, !.ch = 0, !.msg_rcvd = 0, !.count = k]
    <3>1. CASE worker.msg_rcvd # 0 /\ total < RxBudget
      BY <1>7, <2>2, <3>1 DEF PollRound
    <3>2. CASE ~(worker.msg_rcvd # 0 /\ total < RxBudget)
      BY <1>7, <2>2, <3>2 DEF PollRound, AfterPolling
    <3> QED BY <3>1, <3>2
  <2>4. worker' \in WorkerState /\ worker'.at \in {"poll", "wait", "read"}
    BY <1>a, <2>2, <2>3 DEF WorkerState
  <2>6. CallbackInv'
    BY <1>a, <2>1, <2>3, <2>4 DEF IInv, CallbackInv, WorkerState
  <2>5. ~intmask /\ irq.at = "idle"
    BY <1>a, <2>1 DEF IInv, MaskInv
  <2> QED BY <1>a, <2>1, <2>4, <2>5, <2>6 DEF IInv, TypeOK, RingsInv, MaskInv
<1>8. CASE WorkerWake
  <2>1. worker' \in WorkerState /\ worker'.at # "callback"
    <3>1. 0 \in 0 .. NumChan /\ 0 \in Nat
      BY <1>b
    <3> QED BY <3>1, <1>8, <1>a DEF WorkerWake, WorkerState
  <2>2. UNCHANGED <<pdc, hwrx>>
    BY <1>8 DEF WorkerWake
  <2>3. TypeOK'
    BY <1>8, <1>a, <2>1, <2>2 DEF WorkerWake, TypeOK
  <2>4. MaskInv'
    BY <1>8, <1>a DEF WorkerWake, WorkerState, IInv, MaskInv
  <2>5. CallbackInv'
    BY <1>8, <1>a DEF WorkerWake, WorkerState, IInv, CallbackInv
  <2> QED BY <2>1, <2>2, <2>3, <2>4, <2>5 DEF IInv, RingsInv
<1>9. CASE WorkerReadStatus
  <2>1. worker' \in WorkerState /\ worker'.at # "callback"
    BY <1>9, <1>a, <1>b DEF WorkerReadStatus, WorkerState
  <2>2. UNCHANGED <<pdc, hwrx>>
    BY <1>9 DEF WorkerReadStatus
  <2>3. TypeOK'
    BY <1>9, <1>a, <2>1, <2>2 DEF WorkerReadStatus, TypeOK
  <2>4. MaskInv'
    BY <1>9, <1>a DEF WorkerReadStatus, WorkerState, IInv, MaskInv
  <2>5. CallbackInv'
    BY <1>9, <1>a DEF WorkerReadStatus, WorkerState, IInv, CallbackInv
  <2> QED BY <2>1, <2>2, <2>3, <2>4, <2>5 DEF IInv, RingsInv
<1>10. CASE WorkerAckStatus
  <2>1. worker' \in WorkerState /\ worker'.at # "callback"
    BY <1>10, <1>a, <1>b DEF WorkerAckStatus, WorkerState
  <2>2. UNCHANGED <<pdc, hwrx>>
    BY <1>10 DEF WorkerAckStatus
  <2>3. TypeOK'
    BY <1>10, <1>a, <2>1, <2>2 DEF WorkerAckStatus, TypeOK
  <2>4. MaskInv'
    BY <1>10, <1>a DEF WorkerAckStatus, WorkerState, IInv, MaskInv
  <2>5. CallbackInv'
    BY <1>10, <1>a DEF WorkerAckStatus, WorkerState, IInv, CallbackInv
  <2> QED BY <2>1, <2>2, <2>3, <2>4, <2>5 DEF IInv, RingsInv
<1>11. CASE WorkerClear
  <2>1. worker' \in WorkerState /\ worker'.at # "callback"
    BY <1>11, <1>a, <1>b DEF WorkerClear, WorkerState
  <2>2. UNCHANGED <<pdc, hwrx>>
    BY <1>11 DEF WorkerClear
  <2>3. TypeOK'
    BY <1>11, <1>a, <2>1, <2>2 DEF WorkerClear, TypeOK
  <2>4. MaskInv'
    BY <1>11, <1>a DEF WorkerClear, WorkerState, IInv, MaskInv
  <2>5. CallbackInv'
    BY <1>11, <1>a DEF WorkerClear, WorkerState, IInv, CallbackInv
  <2> QED BY <2>1, <2>2, <2>3, <2>4, <2>5 DEF IInv, RingsInv
<1>12. CASE WorkerUnmask
  <2>1. worker' \in WorkerState /\ worker'.at # "callback"
    BY <1>12, <1>a, <1>b DEF WorkerUnmask, WorkerState
  <2>2. UNCHANGED <<pdc, hwrx>>
    BY <1>12 DEF WorkerUnmask
  <2>3. TypeOK'
    BY <1>12, <1>a, <2>1, <2>2 DEF WorkerUnmask, TypeOK
  <2>4. MaskInv'
    BY <1>12, <1>a DEF WorkerUnmask, WorkerState, IInv, MaskInv
  <2>5. CallbackInv'
    BY <1>12, <1>a DEF WorkerUnmask, WorkerState, IInv, CallbackInv
  <2> QED BY <2>1, <2>2, <2>3, <2>4, <2>5 DEF IInv, RingsInv
<1>13. CASE UNCHANGED vars
  BY <1>13, <1>a DEF vars, IInv, TypeOK, RingsInv, MaskInv, CallbackInv
<1> QED
  BY <1>1, <1>2, <1>3, <1>4, <1>5, <1>6, <1>7, <1>8, <1>9, <1>10, <1>11,
     <1>12, <1>13 DEF Next, Worker

LEMMA SpecIInv == Spec => []IInv
BY InitIInv, StepIInv, PTL DEF Spec

\* Every variable keeps its type; in particular no ring index leaves the ring.
THEOREM TypeCorrect == Spec => []TypeOK
<1>1. IInv => TypeOK
  BY DEF IInv
<1> QED BY <1>1, SpecIInv, PTL

\* Outstanding requests own disjoint, consecutive runs of both rings.
THEOREM RingsStayLaidOut == Spec => []RingLayout
<1>1. IInv => RingLayout
  BY DEF IInv, RingsInv, ChanInv, RingLayout
<1> QED BY <1>1, SpecIInv, PTL

\* The slots the poll reads still hold what was posted in them.
THEOREM SlotsStayIntact == Spec => []SlotsIntact
<1>1. IInv => SlotsIntact
  BY DEF IInv, RingsInv, ChanInv, SlotsIntact
<1> QED BY <1>1, SpecIInv, PTL

\* The poll never takes back what the engine has not finished.
THEOREM EngineStaysBetween == Spec => []EngineBetween
<1>1. IInv => EngineBetween
  BY DEF IInv, RingsInv, ChanInv, EngineBetween
<1> QED BY <1>1, SpecIInv, PTL

\* A queued request is never left on a channel with nothing outstanding.
THEOREM NeverStranded == Spec => []NoStrandedQueue
<1>1. IInv => NoStrandedQueue
  BY DEF IInv, RingsInv, NotStranded, NoStrandedQueue
<1> QED BY <1>1, SpecIInv, PTL

\* The handler and the thread never both acknowledge the interrupt status.
THEOREM AcknowledgersTakeTurns == Spec => []OneAcknowledger
<1>1. IInv => OneAcknowledger
  BY DEF IInv, TypeOK, MaskInv, OneAcknowledger
<1> QED BY <1>1, SpecIInv, PTL

-----------------------------------------------------------------------------
(* No answer is slept on.  One channel first: when its oldest request is   *)
(* finished, and that finishing it raises the interrupt.                   *)

Finished(s, h) ==
  s.posted # << >> /\ RxDist(s, h) >= Cost[Head(s.posted).msg].rx

\* The first descriptor of every outstanding request is flagged as one.
Flagged(s) == \A i \in DOMAIN s.posted : s.sof[s.posted[i].rx]

LEMMA CompleteIsFinished ==
  ASSUME NEW c \in Chan
  PROVE  Complete(c) <=> Finished(pdc[c], hwrx[c])
BY DEF Complete, Finished, RxDist

LEMMA PostFlags ==
  ASSUME NEW s, NEW h, ChanInv(s, h), Flagged(s), NEW m \in Msg, DescrCheck(s, m)
  PROVE  Flagged(Post(s, m))
<1> DEFINE t == Post(s, m)
           e == [msg |-> m, rx |-> s.rxout, tx |-> s.txout]
<1>1. /\ s \in ChanState /\ s.rxin \in Idx /\ s.rxout \in Idx /\ s.posted \in Seq(Entry)
      /\ s.sof \in [Idx -> BOOLEAN]
  BY DEF ChanInv, ChanState
<1>2. t.posted = Append(s.posted, e)
  BY <1>1, PostFields
<1>3. t.sof = SofAfter(s, Cost[m].rx)
  BY <1>1 DEF Post, ChanState
<1>4. /\ Cost[m].rx \in 1 .. RingEntries-1
      /\ RxDist(s, s.rxout) + Cost[m].rx < RingEntries
  BY <1>1, CheckedFits
<1> HIDE DEF t
<1>5. t.sof[s.rxout]
  BY <1>1, <1>3 DEF SofAfter
<1>6. ASSUME NEW i \in DOMAIN s.posted
      PROVE  t.sof[s.posted[i].rx]
  <2> DEFINE x == s.posted[i].rx
             n == Cost[s.posted[i].msg].rx
  <2>1. x \in Idx /\ n \in 1 .. RingEntries-1
    BY <1>1, EntryOf
  <2>2. RxDist(s, x) + n <= RxDist(s, s.rxout)
    BY DEF ChanInv, Ordered, RxEnd
  <2>3. s.sof[x]
    BY DEF Flagged
  <2> HIDE DEF x, n
  <2>4. RxDist(s, x) = IF x >= s.rxin THEN x - s.rxin ELSE x - s.rxin + RingEntries
    BY <1>1, <2>1, CountInRing DEF RxDist
  <2>5. RxDist(s, s.rxout) = IF s.rxout >= s.rxin THEN s.rxout - s.rxin
                             ELSE s.rxout - s.rxin + RingEntries
    BY <1>1, CountInRing DEF RxDist
  <2>6. DescrCount(x, s.rxout) = IF x >= s.rxout THEN x - s.rxout
                                 ELSE x - s.rxout + RingEntries
    BY <1>1, <2>1, CountInRing
  <2>7. ~(DescrCount(x, s.rxout) < Cost[m].rx)
    <3> DEFINE d == RxDist(s, x)
               l == RxDist(s, s.rxout)
               g == DescrCount(x, s.rxout)
               k == Cost[m].rx
    <3>1. /\ d + n <= l /\ l + k < RingEntries
          /\ d = IF x >= s.rxin THEN x - s.rxin ELSE x - s.rxin + RingEntries
          /\ l = IF s.rxout >= s.rxin THEN s.rxout - s.rxin ELSE s.rxout - s.rxin + RingEntries
          /\ g = IF x >= s.rxout THEN x - s.rxout ELSE x - s.rxout + RingEntries
          /\ k \in Nat
      BY <1>4, <2>2, <2>4, <2>5, <2>6
    <3>2. /\ x \in Nat /\ x < RingEntries /\ s.rxin \in Nat /\ s.rxin < RingEntries
          /\ s.rxout \in Nat /\ s.rxout < RingEntries /\ n \in Nat /\ n > 0 /\ RingEntries \in Nat
      BY <1>1, <2>1, PdcAssumption DEF Idx
    <3> HIDE DEF d, l, g, k
    <3>3. ~(g < k)
      BY <3>1, <3>2
    <3> QED BY <3>3 DEF g, k
  <2>8. t.sof[x] = IF x = s.rxout THEN TRUE ELSE s.sof[x]
    BY <1>3, <2>1, <2>7 DEF SofAfter
  <2>9. t.sof[x]
    BY <2>3, <2>8
  <2> QED BY <2>9 DEF x
<1>7. ASSUME NEW i \in DOMAIN t.posted
      PROVE  t.sof[t.posted[i].rx]
  <2>1. Len(t.posted) = Len(s.posted) + 1 /\ i \in 1 .. Len(s.posted) + 1
    BY <1>1, <1>2
  <2>2. CASE i = Len(s.posted) + 1
    <3>1. t.posted[i].rx = s.rxout
      BY <1>1, <1>2, <2>2
    <3> QED BY <3>1, <1>5
  <2>3. CASE i # Len(s.posted) + 1
    <3>1. i \in DOMAIN s.posted /\ t.posted[i] = s.posted[i]
      BY <1>1, <1>2, <2>1, <2>3
    <3> QED BY <3>1, <1>6
  <2> QED BY <2>2, <2>3
<1> QED
  BY <1>7 DEF Flagged, t

\* A request that is queued or posted behind others does not finish the oldest.
LEMMA PostPending ==
  ASSUME NEW s, NEW h, ChanInv(s, h), NEW m \in Msg, DescrCheck(s, m), ~Finished(s, h)
  PROVE  ~Finished(Post(s, m), h)
<1> DEFINE t == Post(s, m)
           e == [msg |-> m, rx |-> s.rxout, tx |-> s.txout]
<1>1. s \in ChanState /\ s.posted \in Seq(Entry) /\ h \in Idx /\ s.rxin \in Idx /\ s.rxout \in Idx
  BY DEF ChanInv, ChanState
<1>2. t.posted = Append(s.posted, e) /\ t.rxin = s.rxin
  BY <1>1, PostFields
<1> HIDE DEF t
<1>3. RxDist(t, h) = RxDist(s, h)
  BY <1>2 DEF RxDist
<1>4. CASE s.posted = << >>
  <2>1. Head(t.posted).msg = m
    BY <1>2, <1>4
  <2>2. RxDist(s, s.rxout) = 0
    BY <1>1, <1>4, SelfCount DEF ChanInv, Layout, RxDist
  <2>3. RxDist(s, h) <= RxDist(s, s.rxout) /\ RxDist(s, h) \in Nat
    BY <1>1, DistInRing DEF ChanInv, Between
  <2>4. Cost[m].rx \in 1 .. RingEntries-1
    BY PdcAssumption
  <2>5. ~(RxDist(t, h) >= Cost[m].rx)
    BY <1>3, <2>2, <2>3, <2>4, PdcAssumption
  <2> QED BY <2>1, <2>5 DEF Finished, t
<1>5. CASE s.posted # << >>
  <2>1. Head(t.posted) = Head(s.posted)
    BY <1>1, <1>2, <1>5
  <2> QED BY <1>3, <1>5, <2>1 DEF Finished, t
<1> QED BY <1>4, <1>5

\* pdc_send_queued_data neither loses a flag nor finishes the oldest request.
LEMMA SendQueuedPending ==
  ASSUME NEW s, NEW h, ChanInv(s, h), Flagged(s)
  PROVE  /\ Flagged(SendQueuedData(s))
         /\ ~Finished(s, h) => ~Finished(SendQueuedData(s), h)
<1>1. CASE ~(s.msg_list # << >> /\ DescrCheck(s, Head(s.msg_list)))
  BY <1>1 DEF SendQueuedData
<1>2. CASE s.msg_list # << >> /\ DescrCheck(s, Head(s.msg_list))
  <2> DEFINE t == [s EXCEPT !.msg_list = Tail(s.msg_list)]
             m == Head(s.msg_list)
  <2>1. s \in ChanState /\ s.msg_list \in Seq(Msg)
    BY DEF ChanInv, ChanState
  <2>2. m \in Msg /\ Tail(s.msg_list) \in Seq(Msg)
    BY <1>2, <2>1
  <2>3. ChanInv(t, h)
    BY <2>2, MsgListKeeps
  <2>4. DescrCheck(t, m)
    BY <1>2, <2>1 DEF DescrCheck, ChanState
  <2>5. t.posted = s.posted /\ t.sof = s.sof /\ t.rxin = s.rxin
    BY <2>1 DEF ChanState
  <2>6. SendQueuedData(s) = Post(t, m)
    BY <1>2 DEF SendQueuedData
  <2> HIDE DEF t, m
  <2>7. Flagged(t) /\ (~Finished(s, h) => ~Finished(t, h))
    BY <2>5 DEF Flagged, Finished, RxDist
  <2> QED BY <2>2, <2>3, <2>4, <2>6, <2>7, PostFlags, PostPending
<1> QED BY <1>1, <1>2

\* The descriptor that finishes the oldest request ends a frame.
LEMMA FinishingRaises ==
  ASSUME NEW s, NEW h, ChanInv(s, h), Flagged(s), h # s.rxout,
         ~Finished(s, h), Finished(s, Nextd(h))
  PROVE  Nextd(h) = s.rxout \/ s.sof[Nextd(h)]
<1> DEFINE k == Nextd(h)
           n == Cost[Head(s.posted).msg].rx
<1>1. /\ s \in ChanState /\ s.posted \in Seq(Entry) /\ h \in Idx /\ s.rxin \in Idx
      /\ s.rxout \in Idx /\ s.posted # << >>
  BY DEF ChanInv, ChanState, Finished
<1>2. /\ Len(s.posted) \in Nat \ {0} /\ DOMAIN s.posted = 1 .. Len(s.posted)
      /\ 1 \in DOMAIN s.posted /\ Head(s.posted) = s.posted[1]
  BY <1>1
<1>3. n \in 1 .. RingEntries-1 /\ s.posted[1].rx = s.rxin
  BY <1>1, <1>2, EntryOf DEF ChanInv, Layout
<1>4. k \in Idx
  BY <1>1, AdvanceKeeps DEF ChanInv
<1>5. RxDist(s, k) = RxDist(s, h) + 1
  <2>1. 1 \in 0 .. RingEntries-1
    BY PdcAssumption
  <2>2. RxDist(s, h) <= RxDist(s, s.rxout) /\ RxDist(s, h) # RxDist(s, s.rxout)
    BY <1>1, SameDistance DEF ChanInv, Between, RxDist
  <2>3. RxDist(s, h) + 1 < RingEntries
    BY <1>1, <2>2, DistInRing, PdcAssumption
  <2> QED BY <1>1, <2>1, <2>3, AdvanceHead DEF RxDist, Nextd
<1>6. RxDist(s, k) = n
  <2>1. RxDist(s, h) \in Nat
    BY <1>1, DistInRing
  <2>2. ~(RxDist(s, h) >= n) /\ RxDist(s, k) >= n
    BY <1>1 DEF Finished
  <2> HIDE DEF n, k
  <2> QED BY <1>3, <1>5, <2>1, <2>2, PdcAssumption
<1>7. RxEnd(s, s.posted[1]) = n
  <2>1. RxDist(s, s.rxin) = 0
    BY <1>1, SelfCount DEF RxDist
  <2> QED BY <1>2, <1>3, <2>1, PdcAssumption DEF RxEnd
<1> HIDE DEF k, n
<1>8. CASE Len(s.posted) = 1
  <2>1. RxDist(s, s.rxout) = RxDist(s, k)
    BY <1>2, <1>6, <1>7, <1>8 DEF ChanInv, Layout
  <2> QED BY <2>1, <1>1, <1>4, SameDistance DEF RxDist, k
<1>9. CASE Len(s.posted) # 1
  <2>1. RxEnd(s, s.posted[1]) = RxDist(s, s.posted[1 + 1].rx)
    BY <1>2, <1>9 DEF ChanInv, Layout
  <2>2. 1 + 1 = 2 /\ 2 \in 1 .. Len(s.posted)
    BY <1>2, <1>9, TwoOfMany
  <2>3. 2 \in DOMAIN s.posted /\ RxDist(s, s.posted[2].rx) = RxDist(s, k)
    BY <1>2, <1>6, <1>7, <2>1, <2>2
  <2>4. s.posted[2].rx \in Idx
    BY <1>1, <2>3, EntryOf
  <2>5. s.posted[2].rx = k
    BY <2>3, <2>4, <1>1, <1>4, SameDistance DEF RxDist
  <2> QED BY <2>3, <2>5 DEF Flagged, k
<1> QED BY <1>8, <1>9

\* The poll finds the oldest request exactly when it is finished.
LEMMA PollFindsFinished ==
  ASSUME NEW s, NEW h, ChanInv(s, h)
  PROVE  /\ Ready(Refresh(s, h)) <=> Finished(s, h)
         /\ Finished(Refresh(s, h), h) <=> Finished(s, h)
         /\ Flagged(s) => Flagged(Refresh(s, h))
<1> DEFINE t == Refresh(s, h)
<1>1. s \in ChanState /\ h \in Idx /\ s.rxin \in Idx /\ s.last_rx_curr \in Idx /\ s.posted \in Seq(Entry)
  BY DEF ChanInv, ChanState
<1>2. /\ t.posted = s.posted /\ t.rxin = s.rxin /\ t.sof = s.sof /\ t.numd = s.numd
      /\ ~Ready(s) => t.last_rx_curr = h
      /\ Ready(s) => t = s
  BY <1>1 DEF Refresh, ChanState
<1>3. ChanInv(t, h)
  BY RefreshKeeps
<1>4. RxDist(t, h) = RxDist(s, h) /\ RxDist(s, h) \in Nat
  BY <1>1, <1>2, DistInRing DEF RxDist
<1> HIDE DEF t
<1>5. ASSUME Ready(t)
      PROVE  Finished(s, h)
  <2>1. /\ t.posted # << >> /\ Cost[t.posted[1].msg].rx <= RxDist(t, t.last_rx_curr)
    BY <1>3, <1>5, ReadyIsHead
  <2>2. RxDist(t, t.last_rx_curr) <= RxDist(t, h)
    BY <1>3 DEF ChanInv, Between
  <2>3. RxDist(t, t.last_rx_curr) \in Nat
    BY <1>3, DistInRing DEF ChanInv, ChanState
  <2>4. 1 \in DOMAIN s.posted /\ Head(s.posted) = s.posted[1]
    BY <1>1, <1>2, <2>1
  <2>5. Cost[s.posted[1].msg].rx \in Nat
    BY <1>1, <2>4, EntryOf, PdcAssumption
  <2> QED BY <1>2, <1>4, <2>1, <2>2, <2>3, <2>4, <2>5 DEF Finished
<1>6. ASSUME Finished(s, h), ~Ready(s)
      PROVE  Ready(t)
  <2>1. 1 \in DOMAIN s.posted /\ Head(s.posted) = s.posted[1]
    BY <1>1, <1>6 DEF Finished
  <2>2. /\ s.posted[1].rx = s.rxin
        /\ s.numd[s.posted[1].rx] = Cost[s.posted[1].msg]
    BY <2>1 DEF ChanInv, Layout, Slots
  <2>3. Cost[s.posted[1].msg].rx \in Nat /\ Cost[s.posted[1].msg].rx > 0
    BY <1>1, <2>1, EntryOf, PdcAssumption
  <2>4. DescrCount(t.last_rx_curr, t.rxin) = RxDist(s, h)
    BY <1>2, <1>6 DEF RxDist
  <2> QED BY <1>2, <1>4, <1>6, <2>1, <2>2, <2>3, <2>4 DEF Finished, Ready
<1>7. Finished(t, h) <=> Finished(s, h)
  BY <1>2, <1>4 DEF Finished
<1>8. Flagged(s) => Flagged(t)
  BY <1>2 DEF Flagged
<1> QED
  BY <1>2, <1>5, <1>6, <1>7, <1>8 DEF t

LEMMA ReclaimFlags ==
  ASSUME NEW s, NEW h, ChanInv(s, h), Ready(s), Flagged(s)
  PROVE  Flagged(Reclaim(s))
<1>1. s \in ChanState /\ s.posted # << >> /\ s.posted \in Seq(Entry)
  BY ReadyIsHead DEF ChanInv, ChanState
<1>2. Reclaim(s).posted = Tail(s.posted) /\ Reclaim(s).sof = s.sof
  BY <1>1 DEF Reclaim, ChanState
<1>3. ASSUME NEW i \in DOMAIN Tail(s.posted)
      PROVE  i + 1 \in DOMAIN s.posted /\ Tail(s.posted)[i] = s.posted[i + 1]
  BY <1>1
<1> QED
  BY <1>2, <1>3 DEF Flagged

-----------------------------------------------------------------------------
(* The polling session, from the thread's waking up to its enabling the    *)
(* interrupts again.  What it polls in vain stays unfinished until the     *)
(* engine raises the interrupt, and nobody else acknowledges that.         *)

FlagsInv == \A c \in Chan : Flagged(pdc[c])

Pending(c) == ~Finished(pdc[c], hwrx[c])
NonePending == intstatus = {} => \A c \in Chan : Pending(c)

\* Within a round: which channels can have nothing to give, as long as no
\* interrupt was raised.  The last part is about a count that shows that an
\* earlier round found a channel empty.
Round ==
  /\ worker.msg_rcvd = 0 => \A c \in Chan : c < worker.ch => Pending(c)
  /\ worker.msg_rcvd < worker.ch => \E c \in Chan : c < worker.ch /\ Pending(c)
  /\ worker.count % NumChan # 0 /\ worker.msg_rcvd = worker.ch =>
        \E c \in Chan : /\ c >= worker.ch /\ Pending(c)
                        /\ worker.at = "callback" => c # worker.ch

Session ==
  /\ worker.at \in {"poll", "callback", "read", "ack", "done"} => work_avail
  /\ worker.at \in {"poll", "callback"} =>
       /\ worker.count < RxBudget /\ worker.msg_rcvd <= worker.ch
       /\ intstatus = {} => Round
  /\ \/ worker.at \in {"read", "done", "unmask"}
     \/ worker.at = "ack" /\ worker.status = {}
     \/ worker.at = "wait" /\ ~work_avail /\ irq.at = "idle"
     => NonePending

\* A round cannot step over the budget: it ends a multiple of NumChan.
BudgetMet == NumChan <= 2 /\ RxBudget % NumChan = 0

LEMMA InitSession == Init => FlagsInv /\ Session
<1> SUFFICES ASSUME Init PROVE FlagsInv /\ Session
  OBVIOUS
<1>1. \A c \in Chan : pdc[c] = InitState
  BY DEF Init
<1>2. \A c \in Chan : Flagged(pdc[c]) /\ Pending(c)
  BY <1>1 DEF Flagged, Pending, Finished, InitState
<1> QED
  BY <1>2 DEF Init, FlagsInv, Session, NonePending

\* While no channel's answers are taken back and no interrupt is raised, what
\* is pending stays so.
LEMMA FlagsAndPending ==
  ASSUME IInv, FlagsInv, [Next]_vars
  PROVE  /\ FlagsInv'
         /\ \A c \in Chan : /\ Pending(c) /\ intstatus' = {}
                              /\ ~(PollReady /\ c = worker.ch)
                              => Pending(c)'
<1>a. pdc \in [Chan -> ChanState] /\ hwrx \in [Chan -> Idx]
  BY DEF IInv, TypeOK
<1>b. \A c \in Chan : ChanInv(pdc[c], hwrx[c]) /\ Flagged(pdc[c])
  BY DEF IInv, RingsInv, FlagsInv
<1>c. worker.ch \in 0 .. NumChan
  BY DEF IInv, TypeOK, WorkerState
<1> DEFINE Keeps(c) == Flagged(pdc'[c]) /\ (Pending(c) => ~Finished(pdc'[c], hwrx'[c]))
<1>0. ASSUME \A c \in Chan : Keeps(c)
      PROVE  FlagsInv' /\ \A c \in Chan : Pending(c) => Pending(c)'
  BY <1>0 DEF FlagsInv, Pending
<1>1. ASSUME NEW d \in Chan, NEW m \in Msg, SendData(d, m)
      PROVE  \A c \in Chan : Keeps(c)
  <2> DEFINE s == [pdc[d] EXCEPT !.msg_list = Append(pdc[d].msg_list, m)]
  <2>1. pdc' = [pdc EXCEPT ![d] = SendQueuedData(s)] /\ hwrx' = hwrx
    BY <1>1 DEF SendData, Enqueue
  <2>2. Append(pdc[d].msg_list, m) \in Seq(Msg)
    BY <1>a DEF ChanState
  <2>3. ChanInv(s, hwrx[d])
    BY <1>b, <2>2, MsgListKeeps
  <2>4. s.posted = pdc[d].posted /\ s.sof = pdc[d].sof /\ s.rxin = pdc[d].rxin
    BY <1>a DEF ChanState
  <2> HIDE DEF s
  <2>5. Flagged(s) /\ (Pending(d) => ~Finished(s, hwrx[d]))
    BY <1>b, <2>4 DEF Flagged, Pending, Finished, RxDist
  <2>6. Keeps(d)
    BY <1>a, <2>1, <2>3, <2>5, SendQueuedPending
  <2>7. \A c \in Chan : c # d => Keeps(c)
    BY <1>a, <1>b, <2>1 DEF Pending
  <2> QED BY <2>6, <2>7
<1>2. ASSUME NEW d \in Chan, HwAdvance(d)
      PROVE  \A c \in Chan : Flagged(pdc'[c]) /\ (intstatus' = {} => Keeps(c))
  <2>1. pdc' = pdc /\ hwrx' = [hwrx EXCEPT ![d] = Nextd(hwrx[d])] /\ hwrx[d] # pdc[d].rxout
    BY <1>2 DEF HwAdvance
  <2>2. Nextd(hwrx[d]) = pdc[d].rxout \/ pdc[d].sof[Nextd(hwrx[d])] => d \in intstatus'
    BY <1>2 DEF HwAdvance
  <2>3. intstatus' = {} => Keeps(d)
    BY <1>a, <1>b, <2>1, <2>2, FinishingRaises DEF Pending
  <2>4. \A c \in Chan : c # d => Keeps(c)
    BY <1>a, <1>b, <2>1 DEF Pending
  <2> QED BY <1>b, <2>1, <2>3, <2>4
<1>3. CASE PollReady
  <2> DEFINE d == worker.ch
             s == Refresh(pdc[d], hwrx[d])
  <2>1. d \in Chan /\ Ready(s) /\ hwrx' = hwrx
        /\ pdc' = [pdc EXCEPT ![d] = SendQueuedData(Reclaim(s))]
    BY <1>3, <1>c, PdcAssumption DEF PollReady, Chan
  <2>2. ChanInv(s, hwrx[d]) /\ Flagged(s)
    BY <1>b, <2>1, RefreshKeeps, PollFindsFinished
  <2> HIDE DEF s
  <2>3. ChanInv(Reclaim(s), hwrx[d]) /\ Flagged(Reclaim(s))
    BY <2>1, <2>2, ReclaimKeeps, ReclaimFlags
  <2>4. Flagged(pdc'[d])
    BY <1>a, <2>1, <2>3, SendQueuedPending
  <2>5. \A c \in Chan : c # d => Keeps(c)
    BY <1>a, <1>b, <2>1 DEF Pending
  <2>6. FlagsInv'
    BY <2>4, <2>5 DEF FlagsInv
  <2> QED BY <1>3, <2>5, <2>6 DEF Pending
<1>4. CASE PollEmpty
  <2> DEFINE d == worker.ch
             s == Refresh(pdc[d], hwrx[d])
  <2>1. d \in Chan /\ hwrx' = hwrx /\ pdc' = [pdc EXCEPT ![d] = s]
    BY <1>4, <1>c, PdcAssumption DEF PollEmpty, Chan
  <2>2. Flagged(s) /\ (Pending(d) => ~Finished(s, hwrx[d]))
    BY <1>b, <2>1, PollFindsFinished DEF Pending
  <2> HIDE DEF s
  <2>3. Keeps(d)
    BY <1>a, <2>1, <2>2
  <2>4. \A c \in Chan : c # d => Keeps(c)
    BY <1>a, <1>b, <2>1 DEF Pending
  <2> QED BY <1>0, <2>3, <2>4
<1>5. CASE UNCHANGED <<pdc, hwrx>>
  <2>1. \A c \in Chan : Keeps(c)
    BY <1>b, <1>5 DEF Pending
  <2> QED BY <1>0, <2>1
<1>6. CASE \E d \in Chan : HwAdvance(d)
  <2>1. PICK d \in Chan : HwAdvance(d)
    BY <1>6
  <2>2. FlagsInv'
    BY <1>2, <2>1 DEF FlagsInv
  <2>3. intstatus' = {} => \A c \in Chan : Keeps(c)
    BY <1>2, <2>1
  <2> QED BY <1>0, <2>2, <2>3
<1>7. CASE \E d \in Chan, m \in Msg : SendData(d, m)
  BY <1>0, <1>1, <1>7
<1>8. (WorkerWake \/ Callback \/ PollRound \/ WorkerReadStatus \/ WorkerAckStatus
         \/ WorkerClear \/ WorkerUnmask \/ Irq) => UNCHANGED <<pdc, hwrx>>
  BY DEF WorkerWake, Callback, PollRound, WorkerReadStatus, WorkerAckStatus, WorkerClear,
    WorkerUnmask, Irq, IrqMask, IrqRead, IrqAck, IrqWake
<1>9. UNCHANGED vars => UNCHANGED <<pdc, hwrx>>
  BY DEF vars
<1> QED
  BY <1>3, <1>4, <1>5, <1>6, <1>7, <1>8, <1>9 DEF Next, Worker

LEMMA StepSession ==
  ASSUME BudgetMet, IInv, FlagsInv, Session, [Next]_vars
  PROVE  Session'
<1>a. /\ worker \in WorkerState /\ worker.ch \in 0 .. NumChan /\ NumChan \in Nat \ {0}
      /\ worker.msg_rcvd \in Nat /\ worker.count \in Nat /\ RxBudget \in Nat \ {0}
      /\ intstatus \in SUBSET Chan /\ irq.at \in {"idle", "read", "ack", "wake"}
  BY PdcAssumption DEF IInv, TypeOK, WorkerState
<1>b. /\ irq.at # "idle" => worker.at = "wait" /\ ~work_avail
      /\ intmask => irq.at = "idle" /\ worker.at = "wait" /\ ~work_avail
      /\ worker.at = "unmask" => ~work_avail
  BY DEF IInv, MaskInv
<1>c. \A c \in Chan : /\ Pending(c) /\ intstatus' = {} /\ ~(PollReady /\ c = worker.ch)
                       => Pending(c)'
  BY FlagsAndPending
<1>d. ASSUME intstatus \subseteq intstatus', ~PollReady, NonePending
      PROVE  NonePending'
  BY <1>c, <1>d DEF NonePending
<1>e. ASSUME intstatus \subseteq intstatus', ~PollReady, UNCHANGED worker,
             intstatus = {} => Round, intstatus' = {}
      PROVE  Round'
  BY <1>c, <1>e DEF Round
<1>1. CASE \/ \E c \in Chan, m \in Msg : SendData(c, m)
           \/ \E c \in Chan : HwAdvance(c)
           \/ UNCHANGED vars
  <2>1. UNCHANGED <<worker, work_avail, irq>> /\ intstatus \subseteq intstatus'
    BY <1>1 DEF SendData, HwAdvance, vars
  <2>2. CASE PollReady
    BY <2>1, <2>2, <1>a DEF PollReady, WorkerState
  <2>3. CASE ~PollReady
    BY <2>1, <2>3, <1>d, <1>e DEF Session
  <2> QED BY <2>2, <2>3
<1>2. CASE IrqMask
  BY <1>2, <1>b DEF IrqMask, Session
<1>3. CASE IrqRead \/ IrqAck
  BY <1>3, <1>b DEF IrqRead, IrqAck, Session
<1>4. CASE IrqWake
  BY <1>4, <1>b DEF IrqWake, Session
<1>5. CASE WorkerWake
  <2>1. /\ worker'.at = "poll" /\ worker'.ch = 0 /\ worker'.msg_rcvd = 0 /\ worker'.count = 0
        /\ work_avail' = TRUE /\ work_avail
    BY <1>5, <1>a, <1>b DEF WorkerWake, WorkerState
  <2>2. 0 % NumChan = 0 /\ \A c \in Chan : ~(c < 0)
    BY <1>a DEF Chan
  <2>3. Round'
    BY <2>1, <2>2 DEF Round
  <2> QED BY <2>1, <2>3, <1>a DEF Session
<1>6. CASE PollReady
  <2> DEFINE d == worker.ch
  <2>1. /\ worker.at = "poll" /\ d \in Chan /\ Ready(Refresh(pdc[d], hwrx[d]))
        /\ worker'.at = "callback" /\ worker'.ch = d /\ worker'.msg_rcvd = worker.msg_rcvd
        /\ worker'.count = worker.count /\ UNCHANGED <<intstatus, work_avail>>
    BY <1>6, <1>a DEF PollReady, WorkerState, Chan
  <2>2. ~Pending(d)
    BY <2>1, PollFindsFinished DEF IInv, RingsInv, Pending
  <2>3. \A c \in Chan : c # d /\ Pending(c) /\ intstatus' = {} => Pending(c)'
    BY <1>c
  <2>4. ASSUME intstatus' = {}
        PROVE  Round'
    <3>1. Round
      BY <2>1, <2>4 DEF Session
    <3>2. \A c \in Chan : c < d => c # d
      BY <1>a
    <3>3. (worker.msg_rcvd = 0 => \A c \in Chan : c < worker.ch => Pending(c))'
      BY <2>1, <2>3, <2>4, <3>1, <3>2 DEF Round
    <3>4. (worker.msg_rcvd < worker.ch => \E c \in Chan : c < worker.ch /\ Pending(c))'
      BY <2>1, <2>3, <2>4, <3>1, <3>2 DEF Round
    <3>5. (worker.count % NumChan # 0 /\ worker.msg_rcvd = worker.ch =>
             \E c \in Chan : /\ c >= worker.ch /\ Pending(c)
                             /\ worker.at = "callback" => c # worker.ch)'
      BY <2>1, <2>2, <2>3, <2>4, <3>1 DEF Round
    <3> QED BY <3>3, <3>4, <3>5 DEF Round
  <2> QED BY <2>1, <2>4 DEF Session
<1>7. CASE PollEmpty
  <2> DEFINE d == worker.ch
  <2>1. /\ worker.at = "poll" /\ d \in Chan /\ ~Ready(Refresh(pdc[d], hwrx[d]))
        /\ worker'.at = "poll" /\ worker'.ch = d + 1 /\ worker'.msg_rcvd = worker.msg_rcvd
        /\ worker'.count = worker.count /\ UNCHANGED <<intstatus, work_avail>>
    BY <1>7, <1>a DEF PollEmpty, WorkerState, Chan
  <2>2. Pending(d)
    BY <2>1, PollFindsFinished DEF IInv, RingsInv, Pending
  <2>3. \A c \in Chan : Pending(c) /\ intstatus' = {} => Pending(c)'
    BY <1>c, <2>1 DEF PollReady
  <2>4. ASSUME intstatus' = {}
        PROVE  Round'
    <3>1. Round /\ worker.msg_rcvd <= d
      BY <2>1, <2>4 DEF Session
    <3>2. \A c \in Chan : c < d + 1 <=> c < d \/ c = d
      BY <1>a DEF Chan
    <3>3. (worker.msg_rcvd = 0 => \A c \in Chan : c < worker.ch => Pending(c))'
      BY <2>1, <2>2, <2>3, <2>4, <3>1, <3>2 DEF Round
    <3>4. (\E c \in Chan : c < worker.ch /\ Pending(c))'
      BY <2>1, <2>2, <2>3, <2>4, <3>2
    <3>5. ~(worker'.msg_rcvd = worker'.ch)
      BY <2>1, <3>1, <1>a
    <3> QED BY <3>3, <3>4, <3>5 DEF Round
  <2>5. worker.msg_rcvd <= d + 1 /\ worker.count < RxBudget
    BY <2>1, <1>a DEF Session
  <2> QED BY <2>1, <2>4, <2>5 DEF Session
<1>8. CASE Callback
  <2> DEFINE d == worker.ch
  <2>1. /\ worker.at = "callback" /\ d \in Chan
        /\ worker'.at = "poll" /\ worker'.ch = d + 1 /\ worker'.msg_rcvd = worker.msg_rcvd + 1
        /\ worker'.count = worker.count /\ UNCHANGED <<pdc, hwrx, intstatus, work_avail>>
    BY <1>8, <1>a DEF Callback, WorkerState, Chan, IInv
  <2>2. ASSUME intstatus' = {}
        PROVE  Round'
    <3>1. Round
      BY <2>1, <2>2 DEF Session
    <3>2. /\ worker'.msg_rcvd # 0
          /\ worker'.msg_rcvd < worker'.ch <=> worker.msg_rcvd < worker.ch
          /\ worker'.msg_rcvd = worker'.ch <=> worker.msg_rcvd = worker.ch
      BY <2>1, <1>a
    <3>3. ASSUME worker'.msg_rcvd < worker'.ch
          PROVE  \E c \in Chan : c < worker'.ch /\ Pending(c)'
      <4>1. PICK c \in Chan : c < d /\ Pending(c)
        BY <3>1, <3>2, <3>3 DEF Round
      <4>2. c < worker'.ch
        BY <4>1, <2>1, <1>a DEF Chan
      <4>3. Pending(c)'
        BY <4>1, <2>1 DEF Pending
      <4> QED BY <4>2, <4>3
    <3>4. ASSUME worker'.count % NumChan # 0, worker'.msg_rcvd = worker'.ch
          PROVE  \E c \in Chan : /\ c >= worker'.ch /\ Pending(c)'
                                 /\ worker'.at = "callback" => c # worker'.ch
      <4>1. worker.count % NumChan # 0 /\ worker.msg_rcvd = d
        BY <2>1, <3>2, <3>4
      <4>2. PICK c \in Chan : c >= d /\ Pending(c) /\ c # d
        BY <2>1, <3>1, <4>1 DEF Round
      <4>3. c >= worker'.ch /\ worker'.at # "callback"
        BY <4>2, <2>1, <1>a DEF Chan
      <4>4. Pending(c)'
        BY <4>2, <2>1 DEF Pending
      <4> QED BY <4>3, <4>4
    <3> QED BY <3>2, <3>3, <3>4 DEF Round
  <2>3. worker.msg_rcvd + 1 <= d + 1 /\ worker.count < RxBudget
    BY <2>1, <1>a DEF Session
  <2> QED BY <2>1, <2>2, <2>3 DEF Session
<1>9. CASE PollRound
  <2> DEFINE total == worker.count + worker.msg_rcvd
  <2>1. /\ worker.at = "poll" /\ worker.ch = NumChan
        /\ UNCHANGED <<pdc, hwrx, intstatus, work_avail>> /\ worker'.ch = 0 /\ worker'.msg_rcvd = 0
        /\ irq.at = "idle" /\ work_avail
    BY <1>9, <1>a, <1>b DEF PollRound, WorkerState, Session
  <2>2. \A c \in Chan : (Pending(c)' <=> Pending(c)) /\ c < NumChan /\ ~(c < 0) /\ c >= 0
    BY <2>1, <1>a DEF Pending, Chan
  <2>3. worker.count < RxBudget /\ worker.msg_rcvd <= NumChan
    BY <2>1 DEF Session
  <2>4. ASSUME intstatus = {}, worker.count % NumChan # 0
        PROVE  worker.msg_rcvd < NumChan
    <3>1. worker.msg_rcvd # worker.ch
      <4>1. SUFFICES ASSUME worker.msg_rcvd = worker.ch PROVE FALSE
        OBVIOUS
      <4>2. Round
        BY <2>1, <2>4 DEF Session
      <4>3. PICK c \in Chan : c >= worker.ch
        BY <2>4, <4>1, <4>2 DEF Round
      <4> QED BY <4>3, <2>1, <2>2, <1>a DEF Chan
    <3> QED BY <3>1, <2>1, <2>3, <1>a
  <2>5. ASSUME intstatus = {}
        PROVE  total <= RxBudget
    <3>1. CASE NumChan = 1
      BY <3>1, <2>3, <1>a
    <3>2. CASE NumChan = 2
      BY <3>2, <2>3, <2>4, <2>5, <1>a DEF BudgetMet
    <3> QED BY <3>1, <3>2, <1>a DEF BudgetMet
  <2>6. CASE worker.msg_rcvd # 0 /\ total < RxBudget
    <3>1. worker'.at = "poll" /\ worker'.count = total
      BY <1>9, <1>a, <2>6 DEF PollRound, WorkerState
    <3>2. ASSUME intstatus = {}, total % NumChan # 0
          PROVE  \E c \in Chan : Pending(c)
      <4>1. worker.msg_rcvd < NumChan
        <5>1. CASE NumChan = 1
          BY <5>1, <3>2, <1>a
        <5>2. CASE NumChan = 2
          BY <5>2, <3>2, <2>3, <2>4, <1>a
        <5> QED BY <5>1, <5>2, <1>a DEF BudgetMet
      <4> QED BY <4>1, <3>2, <2>1 DEF Session, Round
    <3>3. intstatus' = {} => Round'
      BY <2>1, <2>2, <3>1, <3>2 DEF Round
    <3>4. total < RxBudget /\ 0 <= 0
      BY <2>6
    <3> QED BY <2>1, <3>1, <3>3, <3>4 DEF Session
  <2>7. CASE ~(worker.msg_rcvd # 0 /\ total < RxBudget)
    <3>1. worker'.at = IF total = RxBudget THEN "wait" ELSE "read"
      BY <1>9, <1>a, <2>7 DEF PollRound, WorkerState, AfterPolling
    <3>2. CASE total = RxBudget
      BY <3>1, <3>2, <2>1 DEF Session
    <3>3. CASE total # RxBudget
      <4>1. ASSUME intstatus = {}
            PROVE  \A c \in Chan : Pending(c)
        <5>1. worker.msg_rcvd = 0
          BY <4>1, <2>5, <2>7, <3>3, <1>a
        <5> QED BY <5>1, <4>1, <2>1, <2>2 DEF Session, Round
      <4>2. NonePending'
        BY <4>1, <2>1, <2>2 DEF NonePending
      <4> QED BY <4>2, <3>1, <3>3, <2>1 DEF Session
    <3> QED BY <3>2, <3>3
  <2> QED BY <2>6, <2>7
<1>10. CASE WorkerReadStatus
  <2>1. /\ worker.at = "read" /\ worker'.at = "ack" /\ UNCHANGED <<pdc, hwrx, intstatus, work_avail>>
    BY <1>10, <1>a DEF WorkerReadStatus, WorkerState
  <2>2. NonePending'
    BY <2>1 DEF Session, NonePending, Pending
  <2> QED BY <2>1, <2>2 DEF Session
<1>11. CASE WorkerAckStatus
  <2>1. /\ worker.at = "ack" /\ UNCHANGED <<pdc, hwrx, work_avail>> /\ work_avail
        /\ intstatus' = intstatus \ worker.status
        /\ worker'.at = IF worker.status = {} THEN "done" ELSE "wait"
    BY <1>11, <1>a DEF WorkerAckStatus, WorkerState, Session
  <2>2. CASE worker.status = {}
    <3>1. NonePending'
      BY <2>1, <2>2 DEF Session, NonePending, Pending
    <3> QED BY <2>1, <2>2, <3>1 DEF Session
  <2>3. CASE worker.status # {}
    BY <2>1, <2>3 DEF Session
  <2> QED BY <2>2, <2>3
<1>12. CASE WorkerClear
  <2>1. /\ worker.at = "done" /\ worker'.at = "unmask" /\ UNCHANGED <<pdc, hwrx, intstatus>>
    BY <1>12, <1>a DEF WorkerClear, WorkerState
  <2>2. NonePending'
    BY <2>1 DEF Session, NonePending, Pending
  <2> QED BY <2>1, <2>2 DEF Session
<1>13. CASE WorkerUnmask
  <2>1. /\ worker.at = "unmask" /\ worker'.at = "wait" /\ UNCHANGED <<pdc, hwrx, intstatus>>
    BY <1>13, <1>a DEF WorkerUnmask, WorkerState
  <2>2. NonePending'
    BY <2>1 DEF Session, NonePending, Pending
  <2> QED BY <2>1, <2>2 DEF Session
<1> QED
  BY <1>1, <1>2, <1>3, <1>4, <1>5, <1>6, <1>7, <1>8, <1>9, <1>10, <1>11, <1>12, <1>13
  DEF Next, Irq, Worker

\* The thread does not go to sleep on an answer, when a round of its polling
\* loop cannot step over the budget.
THEOREM NoWorkIsLost == BudgetMet => (Spec => []NoLostWork)
<1> SUFFICES ASSUME BudgetMet PROVE Spec => []NoLostWork
  OBVIOUS
<1>1. IInv /\ FlagsInv /\ Session /\ [Next]_vars => (FlagsInv /\ Session)'
  BY FlagsAndPending, StepSession
<1>2. Session => NoLostWork
  BY CompleteIsFinished DEF Session, NonePending, Pending, NoLostWork
<1> QED
  BY InitSession, SpecIInv, <1>1, <1>2, PTL DEF Spec

-----------------------------------------------------------------------------
(* The driver implements PdcService: a request is in its channel's queue   *)
(* from pdc_send_data until the poll takes it back, in the rings or not.   *)

LEMMA OutstandingSeq ==
  ASSUME NEW s \in ChanState
  PROVE  /\ s.posted \in Seq(Entry) /\ s.msg_list \in Seq(Msg)
         /\ Len(s.posted) \in Nat /\ Len(s.msg_list) \in Nat
         /\ Outstanding(s) \in Seq(Msg)
         /\ Len(Outstanding(s)) = Len(s.posted) + Len(s.msg_list)
         /\ \A i \in 1 .. Len(s.posted) + Len(s.msg_list) :
              Outstanding(s)[i] = IF i <= Len(s.posted) THEN s.posted[i].msg
                                  ELSE s.msg_list[i - Len(s.posted)]
<1> DEFINE ms == [i \in DOMAIN s.posted |-> s.posted[i].msg]
<1>1. s.posted \in Seq(Entry) /\ s.msg_list \in Seq(Msg)
  BY DEF ChanState
<1>2. Len(s.posted) \in Nat /\ Len(s.msg_list) \in Nat /\ DOMAIN s.posted = 1 .. Len(s.posted)
  BY <1>1
<1>3. \A i \in 1 .. Len(s.posted) : s.posted[i].msg \in Msg
  BY <1>1, <1>2, EntryOf
<1>4. ms \in Seq(Msg) /\ Len(ms) = Len(s.posted)
  BY <1>2, <1>3
<1>5. \A i \in 1 .. Len(s.posted) : ms[i] = s.posted[i].msg
  BY <1>2
<1> HIDE DEF ms
<1>6. Outstanding(s) = ms \o s.msg_list
  BY DEF Outstanding, ms
<1>7. /\ ms \o s.msg_list \in Seq(Msg)
      /\ Len(ms \o s.msg_list) = Len(ms) + Len(s.msg_list)
      /\ \A i \in 1 .. Len(ms) + Len(s.msg_list) :
           (ms \o s.msg_list)[i] = IF i <= Len(ms) THEN ms[i] ELSE s.msg_list[i - Len(ms)]
  BY <1>1, <1>4, ConcatProperties
<1>8. ASSUME NEW i \in 1 .. Len(s.posted) + Len(s.msg_list)
      PROVE  Outstanding(s)[i] = IF i <= Len(s.posted) THEN s.posted[i].msg
                                 ELSE s.msg_list[i - Len(s.posted)]
  <2>1. CASE i <= Len(s.posted)
    BY <2>1, <1>2, <1>4, <1>5, <1>6, <1>7
  <2>2. CASE ~(i <= Len(s.posted))
    BY <2>2, <1>4, <1>6, <1>7
  <2> QED BY <2>1, <2>2
<1> QED
  BY <1>1, <1>2, <1>4, <1>6, <1>7, <1>8

\* A request accepted goes to the end of the queue.
LEMMA EnqueueOutstanding ==
  ASSUME NEW s \in ChanState, NEW m \in Msg
  PROVE  Enqueue(s, m) \in ChanState /\ Outstanding(Enqueue(s, m)) = Append(Outstanding(s), m)
<1> DEFINE t == Enqueue(s, m)
           a == Len(s.posted)
           b == Len(s.msg_list)
<1>1. /\ s.posted \in Seq(Entry) /\ s.msg_list \in Seq(Msg)
      /\ a \in Nat /\ b \in Nat
      /\ Outstanding(s) \in Seq(Msg) /\ Len(Outstanding(s)) = a + b
      /\ \A i \in 1 .. a + b :
           Outstanding(s)[i] = IF i <= a THEN s.posted[i].msg ELSE s.msg_list[i - a]
  BY OutstandingSeq
<1>2. t \in ChanState /\ t.posted = s.posted /\ t.msg_list = Append(s.msg_list, m)
  <2>1. Append(s.msg_list, m) \in Seq(Msg)
    BY <1>1
  <2> QED BY <2>1 DEF Enqueue, ChanState
<1>3. /\ Len(t.msg_list) = b + 1 /\ t.msg_list[b+1] = m
      /\ \A i \in 1 .. b : t.msg_list[i] = s.msg_list[i]
  BY <1>1, <1>2
<1> HIDE DEF t, a, b
<1>4. /\ Outstanding(t) \in Seq(Msg) /\ Len(Outstanding(t)) = a + (b + 1)
      /\ \A i \in 1 .. a + (b + 1) :
           Outstanding(t)[i] = IF i <= a THEN s.posted[i].msg ELSE t.msg_list[i - a]
  BY <1>2, <1>3, OutstandingSeq DEF a
<1> DEFINE o == Append(Outstanding(s), m)
<1>5. /\ o \in Seq(Msg) /\ Len(o) = a + b + 1 /\ o[a+b+1] = m
      /\ \A i \in 1 .. a + b : o[i] = Outstanding(s)[i]
  BY <1>1
<1> HIDE DEF o
<1>6. ASSUME NEW i \in 1 .. a + (b + 1) PROVE Outstanding(t)[i] = o[i]
  <2>1. CASE i = a + b + 1
    <3>1. ~(i <= a) /\ i - a = b + 1
      BY <2>1, <1>1
    <3> QED BY <3>1, <2>1, <1>3, <1>4, <1>5
  <2>2. CASE i # a + b + 1 /\ i <= a
    <3>1. i \in 1 .. a + b
      BY <2>2, <1>1
    <3> QED BY <3>1, <2>2, <1>1, <1>4, <1>5
  <2>3. CASE i # a + b + 1 /\ ~(i <= a)
    <3>1. i \in 1 .. a + b /\ i - a \in 1 .. b
      BY <2>3, <1>1
    <3> QED BY <3>1, <2>3, <1>1, <1>3, <1>4, <1>5
  <2> QED BY <2>1, <2>2, <2>3
<1>7. Len(o) = a + (b + 1)
  BY <1>1, <1>5
<1>8. Outstanding(t) = o
  BY <1>4, <1>5, <1>6, <1>7, SeqEqual
<1> QED
  BY <1>2, <1>8 DEF t, o

\* Moving the head of msg_list into the rings does not change the queue.
LEMMA PostOutstanding ==
  ASSUME NEW s \in ChanState, s.msg_list # << >>
  PROVE  LET t == Post([s EXCEPT !.msg_list = Tail(@)], Head(s.msg_list))
         IN  t \in ChanState /\ Outstanding(t) = Outstanding(s)
<1> DEFINE m == Head(s.msg_list)
           r == [s EXCEPT !.msg_list = Tail(s.msg_list)]
           t == Post(r, m)
           e == [msg |-> m, rx |-> s.rxout, tx |-> s.txout]
           a == Len(s.posted)
           b == Len(s.msg_list)
<1>1. /\ s.posted \in Seq(Entry) /\ s.msg_list \in Seq(Msg)
      /\ a \in Nat /\ b \in Nat
      /\ Outstanding(s) \in Seq(Msg) /\ Len(Outstanding(s)) = a + b
      /\ \A i \in 1 .. a + b :
           Outstanding(s)[i] = IF i <= a THEN s.posted[i].msg ELSE s.msg_list[i - a]
  BY OutstandingSeq
<1>2. /\ m \in Msg /\ m = s.msg_list[1] /\ Tail(s.msg_list) \in Seq(Msg)
      /\ b # 0 /\ Len(Tail(s.msg_list)) = b - 1
      /\ \A i \in 1 .. b - 1 : Tail(s.msg_list)[i] = s.msg_list[i+1]
  BY <1>1
<1>3. /\ r \in ChanState /\ r.posted = s.posted /\ r.rxout = s.rxout /\ r.txout = s.txout
      /\ r.msg_list = Tail(s.msg_list)
  BY <1>2 DEF ChanState
<1> HIDE DEF r
<1>4. /\ t \in ChanState /\ t.msg_list = Tail(s.msg_list)
      /\ t.posted = Append(s.posted, e)
  BY <1>2, <1>3, PostFields, ZenonT(40)
<1>5. /\ Len(t.posted) = a + 1 /\ t.posted[a+1] = e
      /\ \A i \in 1 .. a : t.posted[i] = s.posted[i]
  <2>1. e \in Entry
    BY <1>2 DEF Entry, ChanState
  <2> QED BY <2>1, <1>1, <1>4
<1>6. e.msg = m
  OBVIOUS
<1> HIDE DEF t, m, e, a, b
<1>7. /\ Outstanding(t) \in Seq(Msg) /\ Len(Outstanding(t)) = (a + 1) + (b - 1)
      /\ \A i \in 1 .. (a + 1) + (b - 1) :
           Outstanding(t)[i] = IF i <= a + 1 THEN t.posted[i].msg ELSE t.msg_list[i - (a + 1)]
  BY <1>2, <1>4, <1>5, OutstandingSeq
<1>8. (a + 1) + (b - 1) = a + b
  BY <1>1
<1>9. ASSUME NEW i \in 1 .. a + b PROVE Outstanding(t)[i] = Outstanding(s)[i]
  <2>1. CASE i <= a
    <3>1. i \in 1 .. a /\ i <= a + 1
      BY <2>1, <1>1
    <3> QED BY <3>1, <2>1, <1>1, <1>5, <1>7, <1>8
  <2>2. CASE i = a + 1
    <3>1. i - a = 1 /\ ~(i <= a) /\ i <= a + 1
      BY <2>2, <1>1
    <3>2. Outstanding(t)[i] = m
      BY <3>1, <2>2, <1>5, <1>6, <1>7, <1>8
    <3>3. Outstanding(s)[i] = s.msg_list[1]
      BY <3>1, <1>1
    <3> QED BY <3>2, <3>3, <1>2
  <2>3. CASE i > a + 1
    <3>1. /\ i - (a + 1) \in 1 .. b - 1 /\ ~(i <= a) /\ ~(i <= a + 1)
          /\ (i - (a + 1)) + 1 = i - a
      BY <2>3, <1>1
    <3>2. Outstanding(t)[i] = s.msg_list[(i - (a + 1)) + 1]
      BY <3>1, <1>2, <1>4, <1>7, <1>8
    <3>3. Outstanding(s)[i] = s.msg_list[i - a]
      BY <3>1, <1>1
    <3> QED BY <3>1, <3>2, <3>3
  <2> QED BY <2>1, <2>2, <2>3, <1>1
<1>10. Outstanding(t) = Outstanding(s)
  BY <1>1, <1>7, <1>8, <1>9, SeqEqual
<1> QED
  BY <1>4, <1>10 DEF t, r, m

LEMMA SendQueuedOutstanding ==
  ASSUME NEW s \in ChanState
  PROVE  SendQueuedData(s) \in ChanState /\ Outstanding(SendQueuedData(s)) = Outstanding(s)
<1>1. CASE s.msg_list # << >> /\ DescrCheck(s, Head(s.msg_list))
  <2>1. SendQueuedData(s) = Post([s EXCEPT !.msg_list = Tail(@)], Head(s.msg_list))
    BY <1>1 DEF SendQueuedData
  <2> QED BY <1>1, <2>1, PostOutstanding
<1>2. CASE ~(s.msg_list # << >> /\ DescrCheck(s, Head(s.msg_list)))
  BY <1>2 DEF SendQueuedData
<1> QED BY <1>1, <1>2

\* Taking back the request at rxin takes the head of the queue.
LEMMA ReclaimOutstanding ==
  ASSUME NEW s, NEW h, ChanInv(s, h), Ready(s)
  PROVE  /\ Reclaim(s) \in ChanState
         /\ Outstanding(s) # << >>
         /\ Head(Outstanding(s)) = s.rxp_ctx[s.rxin]
         /\ Outstanding(Reclaim(s)) = Tail(Outstanding(s))
<1> DEFINE t == Reclaim(s)
           a == Len(s.posted)
           b == Len(s.msg_list)
<1>1. s \in ChanState /\ s.posted # << >> /\ s.rxp_ctx[s.rxin] = s.posted[1].msg
  BY ReadyIsHead DEF ChanInv
<1>2. /\ s.posted \in Seq(Entry) /\ s.msg_list \in Seq(Msg)
      /\ a \in Nat /\ b \in Nat
      /\ Outstanding(s) \in Seq(Msg) /\ Len(Outstanding(s)) = a + b
      /\ \A i \in 1 .. a + b :
           Outstanding(s)[i] = IF i <= a THEN s.posted[i].msg ELSE s.msg_list[i - a]
  BY <1>1, OutstandingSeq
<1>3. /\ a # 0 /\ Len(Tail(s.posted)) = a - 1
      /\ \A i \in 1 .. a - 1 : Tail(s.posted)[i] = s.posted[i+1]
  BY <1>1, <1>2
<1>4. t \in ChanState /\ t.posted = Tail(s.posted) /\ t.msg_list = s.msg_list
  <2>1. ChanInv(t, h)
    BY ReclaimKeeps
  <2>2. t.posted = Tail(s.posted) /\ t.msg_list = s.msg_list
    BY <1>1 DEF Reclaim, ChanState
  <2> QED BY <2>1, <2>2 DEF ChanInv
<1> HIDE DEF t, a, b
<1>5. /\ Outstanding(t) \in Seq(Msg) /\ Len(Outstanding(t)) = (a - 1) + b
      /\ \A i \in 1 .. (a - 1) + b :
           Outstanding(t)[i] = IF i <= a - 1 THEN t.posted[i].msg ELSE t.msg_list[i - (a - 1)]
  BY <1>3, <1>4, OutstandingSeq DEF b
<1>6. 1 \in 1 .. a + b /\ 1 <= a /\ a + b # 0
  BY <1>2, <1>3
<1>7. Outstanding(s) # << >> /\ Head(Outstanding(s)) = s.posted[1].msg
  BY <1>2, <1>6
<1> DEFINE o == Tail(Outstanding(s))
<1>8. /\ o \in Seq(Msg) /\ Len(o) = (a + b) - 1
      /\ \A i \in 1 .. (a + b) - 1 : o[i] = Outstanding(s)[i+1]
  BY <1>2, <1>7
<1> HIDE DEF o
<1>9. (a - 1) + b = (a + b) - 1
  BY <1>2
<1>10. ASSUME NEW i \in 1 .. (a + b) - 1 PROVE Outstanding(t)[i] = o[i]
  <2>1. i + 1 \in 1 .. a + b
    BY <1>2
  <2>2. CASE i <= a - 1
    <3>1. i \in 1 .. a - 1 /\ i + 1 <= a
      BY <2>2, <1>2
    <3> QED BY <3>1, <2>1, <2>2, <1>2, <1>3, <1>4, <1>5, <1>8, <1>9, ZenonT(40)
  <2>3. CASE ~(i <= a - 1)
    <3>1. ~(i + 1 <= a) /\ (i + 1) - a = i - (a - 1)
      BY <2>3, <1>2
    <3>2. o[i] = s.msg_list[(i + 1) - a]
      BY <3>1, <2>1, <1>2, <1>8
    <3>3. Outstanding(t)[i] = s.msg_list[i - (a - 1)]
      BY <2>3, <1>4, <1>5, <1>9
    <3> QED BY <3>1, <3>2, <3>3
  <2> QED BY <2>2, <2>3
<1>11. Outstanding(t) = o
  BY <1>5, <1>8, <1>9, <1>10, SeqEqual
<1> QED
  BY <1>1, <1>4, <1>7, <1>11 DEF t, o

QueueMap == [c \in Chan |-> Outstanding(pdc[c])]

LEMMA InitImplements == Init => Service!Init
<1> SUFFICES ASSUME Init PROVE Service!Init
  OBVIOUS
<1>1. InitState \in ChanState /\ InitState.posted = << >> /\ InitState.msg_list = << >>
  BY InitStateInv DEF ChanInv, InitState
<1> DEFINE i == InitState
<1>a. Len(i.posted) = 0 /\ Len(i.msg_list) = 0
  BY <1>1
<1> HIDE DEF i
<1>2. Len(Outstanding(i)) = 0 + 0 /\ Outstanding(i) \in Seq(Msg)
  BY <1>1, <1>a, OutstandingSeq DEF i
<1>3. Outstanding(InitState) = << >>
  BY <1>2 DEF i
<1> QED
  BY <1>3 DEF Init, Service!Init

\* A step that leaves every queue and the running callback alone is a stutter.
LEMMA QuietStep ==
  ASSUME pdc \in [Chan -> ChanState], NEW c \in Chan, NEW s,
         pdc' = [pdc EXCEPT ![c] = s], Outstanding(s) = Outstanding(pdc[c]),
         worker'.msg = worker.msg
  PROVE  UNCHANGED Service!vars
<1>1. \A d \in Chan : Outstanding(pdc'[d]) = Outstanding(pdc[d])
  OBVIOUS
<1> QED
  BY <1>1 DEF Service!vars

LEMMA StepImplements == IInv /\ [Next]_vars => [Service!Next]_(Service!vars)
<1> SUFFICES ASSUME IInv, [Next]_vars PROVE [Service!Next]_(Service!vars)
  OBVIOUS
<1>a. /\ pdc \in [Chan -> ChanState] /\ hwrx \in [Chan -> Idx] /\ worker \in WorkerState
      /\ worker.ch \in 0 .. NumChan
  BY DEF IInv, TypeOK, WorkerState
<1>b. ASSUME NEW c \in Chan PROVE pdc[c] \in ChanState /\ ChanInv(pdc[c], hwrx[c])
  BY <1>a DEF IInv, RingsInv
<1>1. ASSUME NEW c \in Chan, NEW m \in Msg, SendData(c, m)
      PROVE  Service!Accept(c, m)
  <2> DEFINE s == SendQueuedData(Enqueue(pdc[c], m))
  <2>1. Outstanding(s) = Append(Outstanding(pdc[c]), m)
    BY <1>b, EnqueueOutstanding, SendQueuedOutstanding
  <2>2. /\ pdc' = [pdc EXCEPT ![c] = s] /\ UNCHANGED worker
        /\ \A d \in Chan : m \notin Queued(d) \cup Posted(d)
    BY <1>1 DEF SendData, Idle
  <2> HIDE DEF s
  <2>3. QueueMap' = [QueueMap EXCEPT ![c] = Append(QueueMap[c], m)]
    BY <1>a, <2>1, <2>2 DEF QueueMap
  <2>4. ASSUME NEW d \in Chan, NEW i \in DOMAIN Outstanding(pdc[d])
        PROVE  Outstanding(pdc[d])[i] # m
    <3> DEFINE p == pdc[d].posted
               l == pdc[d].msg_list
    <3>1. /\ p \in Seq(Entry) /\ l \in Seq(Msg) /\ Len(p) \in Nat /\ Len(l) \in Nat
          /\ Outstanding(pdc[d]) \in Seq(Msg)
          /\ Len(Outstanding(pdc[d])) = Len(p) + Len(l)
          /\ \A j \in 1 .. Len(p) + Len(l) :
               Outstanding(pdc[d])[j] = IF j <= Len(p) THEN p[j].msg ELSE l[j - Len(p)]
      BY <1>b, OutstandingSeq
    <3>a. /\ DOMAIN p = 1 .. Len(p) /\ DOMAIN l = 1 .. Len(l)
      BY <3>1
    <3>b. DOMAIN Outstanding(pdc[d]) = 1 .. Len(Outstanding(pdc[d]))
      <4> DEFINE o == Outstanding(pdc[d])
      <4>1. o \in Seq(Msg)
        BY <3>1
      <4> HIDE DEF o
      <4>2. DOMAIN o = 1 .. Len(o)
        BY <4>1
      <4> QED BY <4>2 DEF o
    <3> HIDE DEF p, l
    <3>2. i \in 1 .. Len(p) + Len(l)
      BY <3>1, <3>b
    <3>3. CASE i <= Len(p)
      <4>1. i \in DOMAIN p /\ Outstanding(pdc[d])[i] = p[i].msg
        BY <3>1, <3>2, <3>3, <3>a
      <4>2. p[i].msg \in Posted(d)
        BY <4>1 DEF Posted, p
      <4> QED BY <4>1, <4>2, <2>2
    <3>4. CASE ~(i <= Len(p))
      <4>1. i - Len(p) \in DOMAIN l /\ Outstanding(pdc[d])[i] = l[i - Len(p)]
        BY <3>1, <3>2, <3>4, <3>a
      <4>2. l[i - Len(p)] \in Queued(d)
        BY <4>1 DEF Queued, l
      <4> QED BY <4>1, <4>2, <2>2
    <3> QED BY <3>3, <3>4
  <2> QED BY <2>2, <2>3, <2>4 DEF Service!Accept, Service!Busy, QueueMap
<1>2. CASE PollReady
  <2> DEFINE c == worker.ch
             s == Refresh(pdc[c], hwrx[c])
             r == SendQueuedData(Reclaim(s))
  <2>1. c \in Chan
    BY <1>2, <1>a, PdcAssumption DEF PollReady, Chan
  <2>2. ChanInv(s, hwrx[c]) /\ Ready(s)
    BY <1>2, <1>b, <2>1, RefreshKeeps DEF PollReady
  <2>3. pdc' = [pdc EXCEPT ![c] = r] /\ worker'.msg = s.rxp_ctx[s.rxin] /\ worker.msg = NoMsg
    BY <1>2, <1>a DEF PollReady, IInv, CallbackInv, WorkerState
  <2>4. Outstanding(s) = Outstanding(pdc[c])
    BY <1>b, <2>1 DEF Refresh, Outstanding, ChanState
  <2> HIDE DEF s
  <2>5. /\ Outstanding(s) # << >> /\ Head(Outstanding(s)) = s.rxp_ctx[s.rxin]
        /\ Outstanding(r) = Tail(Outstanding(s))
    BY <2>2, ReclaimOutstanding, SendQueuedOutstanding
  <2> HIDE DEF r, c
  <2>6. QueueMap' = [QueueMap EXCEPT ![c] = Tail(QueueMap[c])]
    BY <1>a, <2>1, <2>3, <2>4, <2>5 DEF QueueMap
  <2>7. Service!Answer(c)
    BY <2>1, <2>3, <2>4, <2>5, <2>6 DEF Service!Answer, QueueMap
  <2> QED BY <2>1, <2>7 DEF Service!Next
<1>3. CASE Callback
  <2>1. worker.msg # NoMsg /\ worker'.msg = NoMsg /\ UNCHANGED pdc
    BY <1>3, <1>a DEF Callback, IInv, CallbackInv, WorkerState
  <2> QED BY <2>1 DEF Service!Next, Service!Return
<1>4. CASE PollEmpty
  <2> DEFINE c == worker.ch
             s == Refresh(pdc[c], hwrx[c])
  <2>1. c \in Chan
    BY <1>4, <1>a, PdcAssumption DEF PollEmpty, Chan
  <2>2. pdc' = [pdc EXCEPT ![c] = s] /\ worker'.msg = worker.msg
    BY <1>4, <1>a DEF PollEmpty, WorkerState
  <2>3. Outstanding(s) = Outstanding(pdc[c])
    BY <1>b, <2>1 DEF Refresh, Outstanding, ChanState
  <2> HIDE DEF s, c
  <2> QED BY <1>a, <2>1, <2>2, <2>3, QuietStep
<1>5. ASSUME UNCHANGED pdc, worker'.msg = worker.msg
      PROVE  UNCHANGED Service!vars
  BY <1>5 DEF Service!vars
<1>6. CASE \E c \in Chan : HwAdvance(c)
  BY <1>5, <1>6 DEF HwAdvance
<1>7. CASE Irq
  BY <1>5, <1>7 DEF Irq, IrqMask, IrqRead, IrqAck, IrqWake
<1>8. CASE WorkerWake \/ PollRound \/ WorkerReadStatus \/ WorkerAckStatus \/ WorkerClear
           \/ WorkerUnmask
  <2>1. UNCHANGED pdc
    BY <1>8 DEF WorkerWake, PollRound, WorkerReadStatus, WorkerAckStatus, WorkerClear, WorkerUnmask
  <2>2. worker'.msg = worker.msg
    BY <1>8, <1>a DEF WorkerWake, PollRound, WorkerReadStatus, WorkerAckStatus, WorkerClear,
                      WorkerUnmask, WorkerState
  <2> QED BY <1>5, <2>1, <2>2
<1>9. CASE UNCHANGED vars
  BY <1>5, <1>9 DEF vars
<1> QED
  BY <1>1, <1>2, <1>3, <1>4, <1>6, <1>7, <1>8, <1>9 DEF Next, Worker, Service!Next

\* The driver is one FIFO queue per channel: every accepted request comes back
\* once, in order, one callback at a time.
THEOREM ImplementsService == Spec => ServiceSpec
<1>1. Spec => Service!Spec
  BY InitImplements, StepImplements, SpecIInv, PTL DEF Spec, Service!Spec
<1> QED BY <1>1 DEF ServiceSpec
=============================================================================
