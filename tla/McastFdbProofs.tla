--------------------------- MODULE McastFdbProofs ---------------------------
(***************************************************************************)
(* Proofs about module McastFdb: its safety properties hold for any number *)
(* of streams, ports, reporters, rules and flows.                          *)
(*                                                                         *)
(* A call works on a record t through loops, and a loop is a recursive     *)
(* function of the number of turns.  A lemma "...Does" says what one       *)
(* function of the driver makes of t.  For a loop, LoopComputes gives the  *)
(* function that LET defines, and EveryTurn carries its invariant from one *)
(* turn to the next; it rests on the least number that would be a          *)
(* counterexample, so that no step needs induction over an operator.       *)
(*                                                                         *)
(* Three predicates go through all calls, from the weakest on:             *)
(*   Sound    types, and the flow cache has room for the flows entries     *)
(*            have; every call keeps it, whatever fails;                   *)
(*   Exact    no flow was lost; it needs entries without flows when        *)
(*            acceleration is switched on, which Off states and which      *)
(*            Overlap would break;                                         *)
(*   Orderly  one tag on each root device, copies beside their root entry; *)
(*            it needs NeverShort, because bcm_mcast_blog_vlan_process     *)
(*            deletes the wrong entry when blog_get fails for a copy, and  *)
(*            goes on to the copies of an entry that was refused a flow.   *)
(* Orderly(f, R) excuses the root entries in R, which an operation has     *)
(* deprived of their flows and not processed yet.                          *)
(***************************************************************************)
EXTENDS McastFdb, FiniteSetTheorems, FunctionTheorems, WellFoundedInduction, TLAPS

-----------------------------------------------------------------------------
(* Loops                                                                   *)

\* A nonempty set of natural numbers has a least one.
LEMMA LeastNat ==
  ASSUME NEW T \in SUBSET Nat, T # {}
  PROVE  \E x \in T : \A y \in T : x <= y
<1>1. PICK x \in T : \A y \in T : ~(<<y, x>> \in OpToRel(<, Nat))
  BY NatLessThanWellFounded, WFMin, Zenon
<1>2. \A y \in T : ~(y < x)
  BY <1>1, Zenon DEF OpToRel
<1> QED
  BY <1>2

\* What holds before a loop and goes on from one turn to the next holds
\* throughout: K is the set of turns after which it does.
LEMMA EveryTurn ==
  ASSUME NEW n \in Nat, NEW K, 0 \in K, \A i \in 1..n : i - 1 \in K => i \in K
  PROVE  \A i \in 0..n : i \in K
<1> SUFFICES ASSUME {i \in 0..n : i \notin K} # {}
             PROVE  FALSE
  OBVIOUS
<1> DEFINE T == {i \in 0..n : i \notin K}
<1>1. PICK x \in T : \A y \in T : x <= y
  <2>1. T \in SUBSET Nat /\ T # {}
    OBVIOUS
  <2> HIDE DEF T
  <2> QED
    BY <2>1, LeastNat
<1>2. x \in 1..n /\ x - 1 \in 0..n
  BY <1>1
<1>3. x - 1 \notin T
  BY <1>1, <1>2
<1> QED
  BY <1>1, <1>2, <1>3

\* f[i] is what a loop has computed after i of its n turns: turn i makes it
\* from f[i - 1], and G[i] has the values it may have then.
Computes(f, n, start, turn, G) ==
  /\ f = [i \in 0..n |-> IF i = 0 THEN start ELSE turn[i][f[i - 1]]]
  /\ \A i \in 0..n : f[i] \in G[i]

\* A loop computes such values if each turn makes one from one.
LEMMA LoopComputes ==
  ASSUME NEW n \in Nat, NEW G, NEW start \in G[0], NEW turn,
         \A i \in 1..n : \A u \in G[i - 1] : turn[i][u] \in G[i]
  PROVE  \E f : Computes(f, n, start, turn, G)
<1> DEFINE K == {k \in 0..n : \E f : Computes(f, k, start, turn, G)}
<1>1. 0 \in K
  <2> DEFINE f == [i \in 0..0 |-> start]
  <2>1. f = [i \in 0..0 |-> IF i = 0 THEN start ELSE turn[i][f[i - 1]]]
    OBVIOUS
  <2>2. \A i \in 0..0 : f[i] \in G[i]
    OBVIOUS
  <2> HIDE DEF f
  <2>3. Computes(f, 0, start, turn, G)
    BY <2>1, <2>2 DEF Computes
  <2> QED
    BY <2>3
<1>2. ASSUME NEW k \in 1..n, k - 1 \in K
      PROVE  k \in K
  <2>1. PICK f : Computes(f, k - 1, start, turn, G)
    BY <1>2
  <2> DEFINE g == [i \in 0..k |-> IF i = k THEN turn[k][f[k - 1]] ELSE f[i]]
  <2>2. f[k - 1] \in G[k - 1]
    BY <2>1, <1>2 DEF Computes
  <2>3. \A i \in 0..k - 1 : g[i] = f[i]
    BY <1>2
  <2>4. g[k] = turn[k][f[k - 1]]
    BY <1>2
  <2>5. DOMAIN g = 0..k /\ g = [i \in 0..k |-> g[i]]
    OBVIOUS
  <2> HIDE DEF g
  <2>6. \A i \in 0..k : g[i] \in G[i]
    <3>1. \A i \in 0..k - 1 : g[i] \in G[i]
      BY <2>1, <2>3 DEF Computes
    <3>2. g[k] \in G[k]
      BY <1>2, <2>2, <2>4
    <3> QED
      BY <3>1, <3>2, <1>2
  <2>7. ASSUME NEW i \in 0..k
        PROVE  g[i] = IF i = 0 THEN start ELSE turn[i][g[i - 1]]
    <3>1. CASE i = k
      <4>1. i # 0 /\ k - 1 \in 0..k - 1
        BY <3>1, <1>2
      <4> QED
        BY <4>1, <3>1, <2>3, <2>4
    <3>2. CASE i # k
      <4>1. i \in 0..k - 1 /\ (i # 0 => i - 1 \in 0..k - 1)
        BY <3>2, <1>2
      <4>2. f[i] = IF i = 0 THEN start ELSE turn[i][f[i - 1]]
        BY <4>1, <2>1 DEF Computes
      <4> QED
        BY <4>1, <4>2, <2>3
    <3> QED
      BY <3>1, <3>2
  <2>8. Computes(g, k, start, turn, G)
    BY <2>5, <2>6, <2>7 DEF Computes
  <2> QED
    BY <2>8, <1>2
<1> HIDE DEF K
<1>3. n \in K
  BY <1>1, <1>2, EveryTurn
<1> QED
  BY <1>3 DEF K
-----------------------------------------------------------------------------
(* Addresses and places                                                    *)

\* Bucket puts each entry in one place.
LEMMA BucketPlaces ==
  ASSUME NEW f, NEW n \in Nat, DOMAIN f \subseteq 1..n
  PROVE  /\ Cardinality(DOMAIN f) \in Nat
         /\ \E pos \in Bijection(1..Cardinality(DOMAIN f), DOMAIN f) :
              Bucket(f) = [i \in 1..Cardinality(DOMAIN f) |-> f[pos[i]]]
<1> DEFINE D == DOMAIN f
           c == Cardinality(D)
           Below(id) == {x \in D : x <= id}
           place == [id \in D |-> Place(f, id)]
           pos == [i \in 1..c |-> CHOOSE id \in D : Place(f, id) = i]
<1>1. IsFiniteSet(D) /\ c \in Nat /\ IsFiniteSet(1..c) /\ Cardinality(1..c) = c
  <2>1. IsFiniteSet(1..n)
    BY FS_Interval
  <2>2. IsFiniteSet(D)
    BY <2>1, FS_Subset
  <2>3. c \in Nat
    BY <2>2, FS_CardinalityType
  <2> HIDE DEF c
  <2>4. IsFiniteSet(1..c) /\ Cardinality(1..c) = c
    BY <2>3, FS_Interval
  <2> QED
    BY <2>2, <2>3, <2>4
<1>2. ASSUME NEW id \in D
      PROVE  /\ IsFiniteSet(Below(id)) /\ id \in Below(id)
             /\ Place(f, id) = Cardinality(Below(id))
             /\ Place(f, id) \in 1..c
  <2>1. Below(id) \in SUBSET D /\ id \in Below(id)
    OBVIOUS
  <2>2. IsFiniteSet(Below(id)) /\ Cardinality(Below(id)) <= c
    BY <2>1, <1>1, FS_Subset
  <2>3. Cardinality(Below(id)) \in Nat /\ Cardinality(Below(id)) # 0
    BY <2>1, <2>2, FS_CardinalityType, FS_EmptySet
  <2>4. Place(f, id) = Cardinality(Below(id))
    BY DEF Place
  <2> HIDE DEF c, D, Below
  <2> QED
    BY <2>1, <2>2, <2>3, <2>4, <1>1
<1>3. ASSUME NEW x \in D, NEW y \in D, x < y
      PROVE  Place(f, x) # Place(f, y)
  <2>1. Below(x) \in SUBSET Below(y) /\ y \notin Below(x) /\ y \in Below(y)
    BY <1>3
  <2>2. Cardinality(Below(x)) # Cardinality(Below(y))
    BY <2>1, <1>2, FS_Subset
  <2> QED
    BY <2>2, <1>2
<1>4. place \in Injection(D, 1..c)
  <2>1. place \in [D -> 1..c]
    BY <1>2
  <2>2. \A x, y \in D : place[x] = place[y] => x = y
    BY <1>3
  <2> QED
    BY <2>1, <2>2 DEF Injection, IsInjective
<1>5. place \in Surjection(D, 1..c)
  <2> HIDE DEF place, c, D
  <2> QED
    BY <1>1, <1>4, FS_Injection DEF c
<1>6. ASSUME NEW i \in 1..c
      PROVE  pos[i] \in D /\ Place(f, pos[i]) = i
  <2>1. \E id \in D : Place(f, id) = i
    BY <1>5 DEF Surjection
  <2> QED
    BY <2>1
<1>7. pos \in Bijection(1..c, D)
  <2>1. pos \in [1..c -> D]
    BY <1>6
  <2>2. \A i, j \in 1..c : pos[i] = pos[j] => i = j
    BY <1>6
  <2>3. \A id \in D : \E i \in 1..c : pos[i] = id
    <3> TAKE id \in D
    <3>1. Place(f, id) \in 1..c
      BY <1>2
    <3> WITNESS Place(f, id) \in 1..c
    <3> QED
      BY <3>1, <1>3, <1>6
  <2> HIDE DEF pos
  <2> QED
    BY <2>1, <2>2, <2>3 DEF Bijection, Injection, Surjection, IsInjective
<1>8. Bucket(f) = [i \in 1..c |-> f[pos[i]]]
  BY DEF Bucket
<1> QED
  BY <1>1, <1>7, <1>8
-----------------------------------------------------------------------------
(* Calls                                                                   *)

GoodEntry == {e \in EntryType : e.reps # <<>>}
Tables == UNION {[D -> GoodEntry] : D \in SUBSET (Nat \ {0})}
GrantType == [mem : Nat \cup {Plenty}, accept : SUBSET Nat]
CallState ==
  [fdb : Tables, next : Nat \ {0}, live : Int, down : BOOLEAN, grant : GrantType,
   ret : {0, -1, -2}, activates : Nat, stop : BOOLEAN]

\* No allocation fails, and the flow cache refuses no entry before one at a
\* later address; the copies of an entry are at later addresses.
InTurn(A) == \A i \in A : \A j \in 1..i : j \in A
Ample(g) == g.mem = Plenty /\ InTurn(g.accept)

Flows(f) == {id \in DOMAIN f : f[id].flow}

\* The state of a call at any time.  The flow cache can hold more flows than
\* the entries have: those that were lost.
Sound(t) ==
  /\ t \in CallState /\ DOMAIN t.fdb \subseteq 1..t.next - 1
  /\ Cardinality(Flows(t.fdb)) <= t.live /\ t.live <= Capacity

\* No flow was lost.
Exact(t) == t.live = Cardinality(Flows(t.fdb))

\* u comes from t without new entries and without losing flows.
Keeps(t, u) ==
  /\ Sound(u) /\ (Exact(t) => Exact(u))
  /\ u.next = t.next /\ u.down = t.down

\* ... and the rest of the call goes on as it would have.
Quiet(t, u) ==
  /\ Keeps(t, u) /\ u.grant = t.grant
  /\ u.ret = t.ret /\ u.activates = t.activates /\ u.stop = t.stop

LEMMA TableIs ==
  ASSUME NEW f \in Tables
  PROVE  f \in [DOMAIN f -> GoodEntry] /\ DOMAIN f \in SUBSET (Nat \ {0})
BY DEF Tables

LEMMA TableOf ==
  ASSUME NEW D \in SUBSET (Nat \ {0}), NEW f \in [D -> GoodEntry]
  PROVE  f \in Tables
BY DEF Tables

LEMMA EntryIs ==
  ASSUME NEW t, Sound(t), NEW id \in DOMAIN t.fdb
  PROVE  /\ t.fdb[id] \in EntryType /\ t.fdb[id].reps # <<>>
         /\ id \in Nat \ {0} /\ id < t.next
  <1>1. t.fdb \in Tables /\ t.next \in Nat
    BY DEF Sound, CallState
  <1> QED
    BY <1>1, TableIs DEF GoodEntry, Sound

LEMMA FlowsFinite ==
  ASSUME NEW t, Sound(t)
  PROVE  /\ IsFiniteSet(DOMAIN t.fdb) /\ IsFiniteSet(Flows(t.fdb))
         /\ Cardinality(Flows(t.fdb)) \in Nat
<1>1. t.next - 1 \in Int
  BY DEF Sound, CallState
<1>2. IsFiniteSet(DOMAIN t.fdb)
  BY <1>1, FS_Interval, FS_Subset DEF Sound
<1>3. Flows(t.fdb) \in SUBSET DOMAIN t.fdb
  BY DEF Flows
<1> QED
  BY <1>2, <1>3, FS_Subset, FS_CardinalityType

\* One entry is replaced by one of its kind and the count of flows keeps pace.
LEMMA PutSound ==
  ASSUME NEW t, Sound(t), NEW id \in DOMAIN t.fdb, NEW e \in GoodEntry, NEW u,
         u \in CallState, u.next = t.next, u.down = t.down,
         u.fdb = [t.fdb EXCEPT ![id] = e], u.live <= Capacity,
         u.live >= t.live + (IF e.flow THEN 1 ELSE 0) - (IF t.fdb[id].flow THEN 1 ELSE 0)
  PROVE  /\ Sound(u)
         /\ u.live = t.live + (IF e.flow THEN 1 ELSE 0) - (IF t.fdb[id].flow THEN 1 ELSE 0)
            => Keeps(t, u)
<1> DEFINE F == Flows(t.fdb)
           rest == F \ {id}
<1>1. IsFiniteSet(F) /\ Cardinality(F) \in Nat /\ t.fdb \in Tables /\ t.live \in Int
      /\ t.fdb \in [DOMAIN t.fdb -> GoodEntry]
  BY FlowsFinite, TableIs DEF Sound, CallState
<1>2. IsFiniteSet(rest) /\ Cardinality(rest) \in Nat
      /\ Cardinality(F) = Cardinality(rest) + (IF t.fdb[id].flow THEN 1 ELSE 0)
  <2>1. IsFiniteSet(rest)
        /\ Cardinality(rest) = IF id \in F THEN Cardinality(F) - 1 ELSE Cardinality(F)
    BY <1>1, FS_RemoveElement
  <2>2. id \in F <=> t.fdb[id].flow
    BY DEF Flows
  <2>3. Cardinality(rest) \in Nat
    BY <2>1, FS_CardinalityType
  <2> HIDE DEF F, rest
  <2> QED
    BY <2>1, <2>2, <2>3, <1>1
<1>3. Cardinality(Flows(u.fdb)) = Cardinality(rest) + (IF e.flow THEN 1 ELSE 0)
  <2>1. DOMAIN u.fdb = DOMAIN t.fdb /\ u.fdb[id] = e
        /\ \A x \in DOMAIN t.fdb \ {id} : u.fdb[x] = t.fdb[x]
    BY <1>1
  <2>2. CASE e.flow
    <3>1. Flows(u.fdb) = rest \cup {id}
      BY <2>1, <2>2 DEF Flows
    <3>2. id \notin rest
      OBVIOUS
    <3> HIDE DEF rest
    <3> QED
      BY <3>1, <3>2, <2>2, <1>2, FS_AddElement
  <2>3. CASE ~e.flow
    <3>1. Flows(u.fdb) = rest
      BY <2>1, <2>3 DEF Flows
    <3> HIDE DEF rest
    <3> QED
      BY <3>1, <2>3, <1>2
  <2> QED
    BY <2>2, <2>3
<1>4. u.live \in Int /\ DOMAIN u.fdb \subseteq 1..u.next - 1
  BY DEF Sound, CallState
<1>5. Cardinality(Flows(u.fdb)) <= u.live /\ Cardinality(F) <= t.live
  <2>1. Cardinality(F) <= t.live
    BY DEF Sound
  <2> HIDE DEF F, rest
  <2> QED
    BY <2>1, <1>1, <1>2, <1>3, <1>4
<1>6. Sound(u)
  BY <1>4, <1>5 DEF Sound
<1>7. ASSUME u.live = t.live + (IF e.flow THEN 1 ELSE 0) - (IF t.fdb[id].flow THEN 1 ELSE 0),
             Exact(t)
      PROVE  Exact(u)
  <2>1. t.live = Cardinality(F)
    BY <1>7 DEF Exact
  <2> HIDE DEF F, rest
  <2> QED
    BY <2>1, <1>1, <1>2, <1>3, <1>7 DEF Exact
<1> QED
  BY <1>6, <1>7 DEF Keeps

\* bcm_mcast_blog_release
LEMMA ReleaseDoes ==
  ASSUME NEW t, Sound(t), NEW id \in DOMAIN t.fdb
  PROVE  LET u == Release(t, id)
         IN  /\ Quiet(t, u)
             /\ u.fdb = [t.fdb EXCEPT ![id].flow = FALSE]
<1> DEFINE e == [t.fdb[id] EXCEPT !.flow = FALSE]
           u == Release(t, id)
<1>1. t.fdb[id] \in GoodEntry /\ t \in CallState /\ t.fdb \in [DOMAIN t.fdb -> GoodEntry]
      /\ DOMAIN t.fdb \in SUBSET (Nat \ {0}) /\ t.live \in Int /\ t.live <= Capacity
      /\ Capacity \in Nat
  BY EntryIs, TableIs, McastFdbAssumption DEF GoodEntry, Sound, CallState
<1>2. e \in GoodEntry /\ ~e.flow /\ e.flow = FALSE
  BY <1>1 DEF GoodEntry, EntryType
<1>3. u.fdb = [t.fdb EXCEPT ![id] = e] /\ u.next = t.next /\ u.down = t.down /\ u.grant = t.grant
      /\ u.ret = t.ret /\ u.activates = t.activates /\ u.stop = t.stop
      /\ u.live = IF t.fdb[id].flow THEN t.live - 1 ELSE t.live
  <2>1. CASE t.fdb[id].flow
    BY <2>1, <1>1 DEF Release, CallState
  <2>2. CASE ~t.fdb[id].flow
    <3>1. e = t.fdb[id]
      BY <2>2, <1>1 DEF GoodEntry, EntryType
    <3> QED
      BY <2>2, <1>1, <3>1 DEF Release, CallState
  <2> QED
    BY <2>1, <2>2
<1>4. u \in CallState
  <2>1. u.fdb \in Tables
    <3> HIDE DEF u, e
    <3>1. u.fdb \in [DOMAIN t.fdb -> GoodEntry]
      BY <1>1, <1>2, <1>3
    <3> QED
      BY <3>1, <1>1, TableOf
  <2>2. u.live \in Int
    BY <1>1, <1>3
  <2> QED
    BY <2>1, <2>2, <1>1 DEF Release, CallState
<1> HIDE DEF u, e
<1>5. Quiet(t, u)
  BY <1>1, <1>2, <1>3, <1>4, PutSound DEF Quiet
<1> QED
  BY <1>3, <1>5 DEF u, e

\* The entry loses its place in the bucket.
LEMMA UnlinkDoes ==
  ASSUME NEW t, Sound(t), NEW id \in DOMAIN t.fdb, ~t.fdb[id].flow
  PROVE  LET u == Unlink(t, id)
         IN  /\ Quiet(t, u)
             /\ DOMAIN u.fdb = DOMAIN t.fdb \ {id}
             /\ \A x \in DOMAIN u.fdb : u.fdb[x] = t.fdb[x]
<1> DEFINE u == Unlink(t, id)
<1>1. t \in CallState /\ t.fdb \in [DOMAIN t.fdb -> GoodEntry]
      /\ DOMAIN t.fdb \in SUBSET (Nat \ {0})
  BY TableIs DEF Sound, CallState
<1>2. u = [t EXCEPT !.fdb = [x \in DOMAIN t.fdb \ {id} |-> t.fdb[x]]]
  BY DEF Unlink, Restrict
<1>3. u.fdb = [x \in DOMAIN t.fdb \ {id} |-> t.fdb[x]] /\ u.next = t.next /\ u.down = t.down
      /\ u.grant = t.grant /\ u.live = t.live
      /\ u.ret = t.ret /\ u.activates = t.activates /\ u.stop = t.stop
  BY <1>1, <1>2 DEF CallState
<1>4. u \in CallState
  <2>1. u.fdb \in [DOMAIN t.fdb \ {id} -> GoodEntry]
    BY <1>1, <1>3
  <2> HIDE DEF u
  <2>2. u.fdb \in Tables
    BY <2>1, <1>1, TableOf
  <2> QED
    BY <1>1, <1>2, <2>2 DEF CallState
<1> HIDE DEF u
<1>5. DOMAIN u.fdb = DOMAIN t.fdb \ {id} /\ \A x \in DOMAIN u.fdb : u.fdb[x] = t.fdb[x]
  BY <1>3
<1>6. Flows(u.fdb) = Flows(t.fdb)
  BY <1>5 DEF Flows
<1>7. Quiet(t, u)
  BY <1>3, <1>4, <1>5, <1>6 DEF Quiet, Keeps, Sound, Exact
<1> QED
  BY <1>3, <1>5, <1>7 DEF u

\* bcm_mcast_igmp_del_entry of an entry that is there
LEMMA DelEntryDoes ==
  ASSUME NEW t, Sound(t), NEW id \in DOMAIN t.fdb
  PROVE  LET u == DelEntry(t, id)
         IN  /\ Quiet(t, u)
             /\ DOMAIN u.fdb = DOMAIN t.fdb \ {id}
             /\ \A x \in DOMAIN u.fdb : u.fdb[x] = t.fdb[x]
<1> DEFINE v == Release(t, id)
           u == Unlink(v, id)
<1>1. Quiet(t, v) /\ v.fdb = [t.fdb EXCEPT ![id].flow = FALSE]
  BY ReleaseDoes
<1>2. DOMAIN v.fdb = DOMAIN t.fdb /\ ~v.fdb[id].flow
      /\ \A x \in DOMAIN t.fdb \ {id} : v.fdb[x] = t.fdb[x]
  BY <1>1, EntryIs DEF EntryType
<1> HIDE DEF v
<1>3. Quiet(v, u) /\ DOMAIN u.fdb = DOMAIN v.fdb \ {id}
      /\ \A x \in DOMAIN u.fdb : u.fdb[x] = v.fdb[x]
  BY <1>1, <1>2, UnlinkDoes DEF Quiet, Keeps
<1>4. u = DelEntry(t, id)
  BY DEF DelEntry, v
<1> HIDE DEF u
<1>5. Quiet(t, u)
  BY <1>1, <1>3 DEF Quiet, Keeps
<1> QED
  BY <1>1, <1>2, <1>3, <1>4, <1>5

LEMMA SameSound ==
  ASSUME NEW t, Sound(t), NEW u, u \in CallState, u.fdb = t.fdb, u.next = t.next,
         u.live = t.live, u.down = t.down
  PROVE  Keeps(t, u)
BY DEF Keeps, Sound, Exact

LEMMA TakeDoes ==
  ASSUME NEW t, Sound(t), NEW n \in Nat, ~Short(t, n)
  PROVE  LET u == Take(t, n)
         IN  /\ Keeps(t, u) /\ u.fdb = t.fdb /\ u.live = t.live
             /\ u.ret = t.ret /\ u.activates = t.activates /\ u.stop = t.stop
             /\ Ample(u.grant) <=> Ample(t.grant)
             /\ u.grant.accept = t.grant.accept
<1> DEFINE u == Take(t, n)
           m == IF t.grant.mem = Plenty THEN Plenty ELSE t.grant.mem - n
           g == [t.grant EXCEPT !.mem = m]
<1>1. t \in CallState /\ t.grant \in GrantType /\ u = [t EXCEPT !.grant = g]
  BY DEF Sound, Take, CallState
<1>2. m \in Nat \cup {Plenty} /\ (m = Plenty <=> t.grant.mem = Plenty)
  <2>1. CASE t.grant.mem = Plenty
    BY <2>1
  <2>2. CASE t.grant.mem # Plenty
    <3>1. t.grant.mem \in Nat /\ ~(t.grant.mem < n)
      BY <2>2, <1>1 DEF GrantType, Short
    <3>2. m \in Nat
      BY <3>1, <2>2
    <3> QED
      BY <3>2, <2>2, McastFdbAssumption
  <2> QED
    BY <2>1, <2>2
<1> HIDE DEF m
<1>3. g \in GrantType /\ g.accept = t.grant.accept /\ (Ample(g) <=> Ample(t.grant))
  BY <1>1, <1>2 DEF GrantType, Ample
<1> HIDE DEF g
<1>4. u \in CallState /\ u.fdb = t.fdb /\ u.next = t.next /\ u.live = t.live /\ u.down = t.down
      /\ u.ret = t.ret /\ u.activates = t.activates /\ u.stop = t.stop /\ u.grant = g
  BY <1>1, <1>3 DEF CallState
<1> HIDE DEF u
<1>5. Keeps(t, u)
  BY <1>4, SameSound
<1> QED
  BY <1>3, <1>4, <1>5 DEF u

\* A new entry at the head of the bucket
LEMMA AddHeadDoes ==
  ASSUME NEW t, Sound(t), NEW e \in GoodEntry, ~e.flow
  PROVE  LET u == AddHead(t, e)
         IN  /\ Sound(u) /\ (Exact(t) => Exact(u))
             /\ u.next = t.next + 1 /\ u.down = t.down /\ u.live = t.live /\ u.grant = t.grant
             /\ u.ret = t.ret /\ u.activates = t.activates /\ u.stop = t.stop
             /\ t.next \notin DOMAIN t.fdb /\ DOMAIN u.fdb = DOMAIN t.fdb \cup {t.next}
             /\ u.fdb[t.next] = e /\ \A x \in DOMAIN t.fdb : u.fdb[x] = t.fdb[x]
<1> DEFINE u == AddHead(t, e)
           f == [x \in DOMAIN t.fdb \cup {t.next} |-> IF x = t.next THEN e ELSE t.fdb[x]]
<1>1. /\ t \in CallState /\ t.fdb \in [DOMAIN t.fdb -> GoodEntry]
      /\ DOMAIN t.fdb \in SUBSET (Nat \ {0}) /\ t.next \in Nat \ {0}
      /\ DOMAIN t.fdb \subseteq 1..t.next - 1 /\ Cardinality(Flows(t.fdb)) <= t.live
      /\ t.live <= Capacity
  BY TableIs DEF Sound, CallState
<1>2. u = [t EXCEPT !.fdb = f, !.next = t.next + 1]
  BY DEF AddHead
<1>3. t.next \notin DOMAIN t.fdb
  BY <1>1
<1>4. DOMAIN f = DOMAIN t.fdb \cup {t.next} /\ f[t.next] = e
      /\ \A x \in DOMAIN t.fdb : f[x] = t.fdb[x]
  BY <1>3
<1>5. f \in Tables
  <2>1. f \in [DOMAIN t.fdb \cup {t.next} -> GoodEntry]
    BY <1>1
  <2> HIDE DEF f
  <2> QED
    BY <2>1, <1>1, TableOf
<1> HIDE DEF f
<1>6. u \in CallState /\ u.fdb = f /\ u.next = t.next + 1 /\ u.down = t.down /\ u.live = t.live
      /\ u.grant = t.grant /\ u.ret = t.ret /\ u.activates = t.activates /\ u.stop = t.stop
  <2>1. t.next + 1 \in Nat \ {0}
    BY <1>1
  <2> QED
    BY <2>1, <1>1, <1>2, <1>5 DEF CallState
<1> HIDE DEF u
<1>7. Flows(u.fdb) = Flows(t.fdb)
  BY <1>3, <1>4, <1>6 DEF Flows
<1>8. DOMAIN u.fdb \subseteq 1..u.next - 1
  BY <1>1, <1>4, <1>6
<1>9. Sound(u) /\ (Exact(t) => Exact(u))
  BY <1>1, <1>6, <1>7, <1>8 DEF Sound, Exact
<1> QED
  BY <1>3, <1>4, <1>6, <1>9 DEF u

\* A blog is activated while the flow cache has room and accepts it.
LEMMA ActivateRoom ==
  ASSUME NEW t, Sound(t), NEW id \in DOMAIN t.fdb, t.live < Capacity,
         id \in t.grant.accept
  PROVE  LET u == Activate(t, id)
         IN  /\ Sound(u) /\ (Exact(t) /\ ~t.fdb[id].flow => Exact(u))
             /\ u.next = t.next /\ u.down = t.down /\ u.grant = t.grant /\ u.ret = t.ret
             /\ u.activates = t.activates + 1 /\ u.stop = t.stop
             /\ u.fdb = [t.fdb EXCEPT ![id].flow = TRUE]
<1> DEFINE e == [t.fdb[id] EXCEPT !.flow = TRUE]
           u == Activate(t, id)
<1>1. t.fdb[id] \in GoodEntry /\ t \in CallState /\ t.fdb \in [DOMAIN t.fdb -> GoodEntry]
      /\ DOMAIN t.fdb \in SUBSET (Nat \ {0}) /\ t.live \in Int /\ Capacity \in Nat
  BY EntryIs, TableIs, McastFdbAssumption DEF GoodEntry, Sound, CallState
<1>2. e \in GoodEntry /\ e.flow
  BY <1>1 DEF GoodEntry, EntryType
<1>3. /\ u.fdb = [t.fdb EXCEPT ![id] = e] /\ u.next = t.next /\ u.down = t.down
      /\ u.grant = t.grant /\ u.ret = t.ret /\ u.activates = t.activates + 1 /\ u.stop = t.stop
      /\ u.live = t.live + 1
  BY <1>1 DEF Activate, CallState
<1>4. u \in CallState
  <2>1. u.fdb \in Tables
    <3> HIDE DEF u, e
    <3>1. u.fdb \in [DOMAIN t.fdb -> GoodEntry]
      BY <1>1, <1>2, <1>3
    <3> QED
      BY <3>1, <1>1, TableOf
  <2>2. t.activates + 1 \in Nat /\ t.live + 1 \in Int
    BY <1>1 DEF CallState
  <2> QED
    BY <2>1, <2>2, <1>1 DEF Activate, CallState
<1> HIDE DEF u, e
<1>5. u.live <= Capacity
      /\ u.live >= t.live + (IF e.flow THEN 1 ELSE 0) - (IF t.fdb[id].flow THEN 1 ELSE 0)
  BY <1>1, <1>2, <1>3
<1>6. Sound(u)
  BY <1>2, <1>3, <1>4, <1>5, PutSound
<1>7. ASSUME ~t.fdb[id].flow
      PROVE  Keeps(t, u)
  <2>1. u.live = t.live + (IF e.flow THEN 1 ELSE 0) - (IF t.fdb[id].flow THEN 1 ELSE 0)
    BY <1>1, <1>2, <1>3, <1>7
  <2> QED
    BY <2>1, <1>2, <1>3, <1>4, <1>5, PutSound
<1> QED
  BY <1>3, <1>6, <1>7 DEF u, e, Keeps

\* bcm_mcast_igmp_fdb_copy
LEMMA FdbCopyDoes ==
  ASSUME NEW t, Sound(t), NEW id \in DOMAIN t.fdb, ~Short(t, CopyCost(t, id))
  PROVE  LET u == FdbCopy(t, id)
         IN  /\ Sound(u) /\ (Exact(t) => Exact(u))
             /\ u.next = t.next + 1 /\ u.down = t.down /\ u.live = t.live
             /\ u.ret = t.ret /\ u.activates = t.activates /\ u.stop = t.stop
             /\ Ample(u.grant) <=> Ample(t.grant)
             /\ u.grant.accept = t.grant.accept
             /\ t.next \notin DOMAIN t.fdb /\ DOMAIN u.fdb = DOMAIN t.fdb \cup {t.next}
             /\ u.fdb[t.next] = [t.fdb[id] EXCEPT !.root = FALSE, !.flow = FALSE]
             /\ \A x \in DOMAIN t.fdb : u.fdb[x] = t.fdb[x]
<1> DEFINE n == CopyCost(t, id)
           v == Take(t, n)
           e == [t.fdb[id] EXCEPT !.root = FALSE, !.flow = FALSE]
<1>1. t.fdb[id] \in EntryType /\ t.fdb[id].reps # <<>>
  BY EntryIs
<1>2. n \in Nat
  BY <1>1 DEF EntryType, CopyCost
<1>3. e \in GoodEntry /\ ~e.flow
  BY <1>1 DEF EntryType, GoodEntry
<1> HIDE DEF n, e
<1>4. Keeps(t, v) /\ v.fdb = t.fdb /\ v.live = t.live /\ v.ret = t.ret
      /\ v.activates = t.activates /\ v.stop = t.stop /\ (Ample(v.grant) <=> Ample(t.grant))
      /\ v.grant.accept = t.grant.accept
  BY <1>2, TakeDoes DEF n
<1> HIDE DEF v
<1> DEFINE u == AddHead(v, e)
<1>5. FdbCopy(t, id) = u
  BY DEF FdbCopy, v, e, n
<1>6. /\ Sound(u) /\ (Exact(v) => Exact(u))
      /\ u.next = v.next + 1 /\ u.down = v.down /\ u.live = v.live /\ u.grant = v.grant
      /\ u.ret = v.ret /\ u.activates = v.activates /\ u.stop = v.stop
      /\ v.next \notin DOMAIN v.fdb /\ DOMAIN u.fdb = DOMAIN v.fdb \cup {v.next}
      /\ u.fdb[v.next] = e /\ \A x \in DOMAIN v.fdb : u.fdb[x] = v.fdb[x]
  BY <1>3, <1>4, AddHeadDoes DEF Keeps
<1> HIDE DEF u
<1> QED
  BY <1>4, <1>5, <1>6 DEF Keeps, e
-----------------------------------------------------------------------------
(* bcm_mcast_blog_vlan_process                                             *)

\* Two entries that differ in no more than root and flow
Alike(e, f) ==
  e.stream = f.stream /\ e.port = f.port /\ e.reps = f.reps /\ e.lan_tci = f.lan_tci

\* What a call does to the entries while it works on entry id: it leaves the
\* others alone and adds copies of this one.
AddsCopies(t, u, id) ==
  /\ Sound(u) /\ u.next >= t.next /\ u.down = t.down
  /\ Ample(t.grant) => Ample(u.grant)
  /\ \A x \in DOMAIN u.fdb : x < t.next => x \in DOMAIN t.fdb
  /\ \A x \in DOMAIN t.fdb \ {id} : x \in DOMAIN u.fdb /\ u.fdb[x] = t.fdb[x]
  /\ \A x \in DOMAIN u.fdb : x >= t.next => ~u.fdb[x].root

\* The copies are those of entry id of table f, and have flows.
FullCopies(t, u, f, id) ==
  \A x \in DOMAIN u.fdb : x >= t.next => Alike(u.fdb[x], f[id]) /\ u.fdb[x].flow

\* After the first n rules for a root entry; t is the call at the start of the
\* loop.
VlanInv(t, id, n, u) ==
  /\ AddsCopies(t, u, id) /\ u.ret = t.ret
  /\ ~u.stop => id \in DOMAIN u.fdb
  /\ id \in DOMAIN u.fdb => Alike(u.fdb[id], t.fdb[id]) /\ u.fdb[id].root = t.fdb[id].root
  /\ n = 0 => u = t
  /\ Exact(t) /\ ~t.fdb[id].flow => Exact(u)

\* The flow cache takes no blog for an entry at t.next or beyond.
Refused(t) == t.live = Capacity \/ \A i \in Nat : i >= t.next => i \notin t.grant.accept

\* A call that never deletes an entry for the copy that found no memory, nor
\* activates the copy of an entry that was refused
NeverShort(t) == MaxRules <= 1 \/ Ample(t.grant)

\* ... gives the entry a flow if it gives one to any copy.
VlanSure(t, id, n, u) ==
  /\ id \in DOMAIN u.fdb
  /\ u.fdb[id].flow <=> u.activates # 0
  /\ FullCopies(t, u, t.fdb, id)
  /\ u.activates = 0 => /\ DOMAIN u.fdb = DOMAIN t.fdb
                        /\ n = 0 \/ u.stop \/ (Ample(t.grant) => Refused(u))
  /\ n <= 1 => DOMAIN u.fdb = DOMAIN t.fdb

Started(t, id) ==
  /\ Sound(t) /\ id \in DOMAIN t.fdb /\ t.fdb[id].root
  /\ t.activates = 0 /\ ~t.stop
Fresh(t, id) == NeverShort(t) /\ ~t.fdb[id].flow

LEMMA VlanStart ==
  ASSUME NEW t, NEW id, Started(t, id)
  PROVE  VlanInv(t, id, 0, t) /\ (Fresh(t, id) => VlanSure(t, id, 0, t))
<1>1. \A x \in DOMAIN t.fdb : x < t.next /\ t.next \in Nat /\ x \in Nat
  BY EntryIs DEF Started, Sound, CallState
<1> QED
  BY <1>1 DEF Started, VlanInv, AddsCopies, Alike, Fresh, VlanSure, FullCopies, Sound, CallState

\* The loop has stopped, or it stops for want of memory.
LEMMA VlanStops ==
  ASSUME NEW t, NEW id, Started(t, id), NEW n \in Nat \ {0}, NEW u, VlanInv(t, id, n - 1, u),
         Fresh(t, id) => VlanSure(t, id, n - 1, u),
         NEW v, v \in CallState, v.fdb = u.fdb, v.next = u.next, v.live = u.live,
         v.down = u.down, v.ret = u.ret, v.activates = u.activates, v.stop,
         Ample(u.grant) => Ample(v.grant),
         NeverShort(t) => u.stop \/ n = 1
  PROVE  VlanInv(t, id, n, v) /\ (Fresh(t, id) => VlanSure(t, id, n, v))
<1>1. Sound(u) /\ Sound(v) /\ (Exact(u) => Exact(v))
  BY SameSound DEF VlanInv, AddsCopies, Keeps
<1>2. VlanInv(t, id, n, v)
  <2>1. AddsCopies(t, v, id)
    BY <1>1 DEF VlanInv, AddsCopies
  <2> QED
    BY <2>1, <1>1 DEF VlanInv, Started
<1>3. ASSUME Fresh(t, id)
      PROVE  VlanSure(t, id, n, v)
  <2>1. VlanSure(t, id, n - 1, u)
    BY <1>3
  <2>2. n <= 1 => n - 1 <= 1
    OBVIOUS
  <2> QED
    BY <2>1, <2>2 DEF VlanSure, FullCopies
<1> QED
  BY <1>2, <1>3

\* The first rule uses the entry itself.
LEMMA VlanFirst ==
  ASSUME NEW t, NEW id, Started(t, id), ~Short(t, 1)
  PROVE  LET v == Activate(Take(t, 1), id)
         IN  VlanInv(t, id, 1, v) /\ (Fresh(t, id) => VlanSure(t, id, 1, v))
<1> DEFINE c == Take(t, 1)
           v == Activate(c, id)
<1>1. Keeps(t, c) /\ c.fdb = t.fdb /\ c.live = t.live /\ c.ret = t.ret
      /\ c.activates = t.activates /\ c.stop = t.stop /\ (Ample(c.grant) <=> Ample(t.grant))
      /\ c.grant.accept = t.grant.accept
  BY TakeDoes DEF Started
<1>2. /\ t.next \in Nat /\ id \in DOMAIN t.fdb /\ t.fdb[id].root
      /\ \A x \in DOMAIN t.fdb : x \in Nat /\ x < t.next /\ ~(x >= t.next)
  BY EntryIs DEF Started, Sound, CallState
<1> HIDE DEF c
<1>3. CASE c.live < Capacity /\ id \in c.grant.accept
  <2>1. /\ Sound(v) /\ (Exact(c) /\ ~c.fdb[id].flow => Exact(v))
        /\ v.next = c.next /\ v.down = c.down /\ v.grant = c.grant /\ v.ret = c.ret
        /\ v.activates = c.activates + 1 /\ v.stop = c.stop
        /\ v.fdb = [c.fdb EXCEPT ![id].flow = TRUE]
    BY <1>1, <1>3, ActivateRoom DEF Started, Keeps
  <2> HIDE DEF v
  <2>2. /\ DOMAIN v.fdb = DOMAIN t.fdb /\ v.fdb[id] = [t.fdb[id] EXCEPT !.flow = TRUE]
        /\ \A x \in DOMAIN t.fdb \ {id} : v.fdb[x] = t.fdb[x]
    BY <1>1, <1>2, <2>1
  <2>3. Alike(v.fdb[id], t.fdb[id]) /\ v.fdb[id].root = t.fdb[id].root /\ v.fdb[id].flow
    BY <2>2, EntryIs DEF Alike, Started, EntryType
  <2>4. v.activates = 1
    BY <1>1, <2>1 DEF Started
  <2>5. AddsCopies(t, v, id)
    <3>1. v.next = t.next /\ t.next >= t.next /\ v.down = t.down
          /\ (Ample(t.grant) => Ample(v.grant))
      BY <1>1, <1>2, <2>1 DEF Keeps
    <3> QED
      BY <3>1, <1>2, <2>1, <2>2 DEF AddsCopies
  <2>6. VlanInv(t, id, 1, v)
    <3>1. Exact(t) /\ ~t.fdb[id].flow => Exact(v)
      BY <1>1, <2>1 DEF Keeps
    <3>2. v.ret = t.ret /\ id \in DOMAIN v.fdb /\ 1 # 0
      BY <1>1, <1>2, <2>1, <2>2
    <3> QED
      BY <3>1, <3>2, <2>3, <2>5 DEF VlanInv
  <2>7. VlanSure(t, id, 1, v)
    BY <1>1, <1>2, <2>1, <2>2, <2>3, <2>4 DEF VlanSure, Started, Keeps, FullCopies
  <2> QED
    BY <2>6, <2>7 DEF v, c
<1>4. CASE ~(c.live < Capacity /\ id \in c.grant.accept)
  <2>1. v = c /\ (Ample(t.grant) => Refused(c))
    <3>1. c.live \in Int /\ c.live <= Capacity /\ Capacity \in Nat
      BY <1>1, McastFdbAssumption DEF Keeps, Sound, CallState
    <3>2. v = c
      BY <1>1, <1>2, <1>4 DEF Activate
    <3>3. ASSUME Ample(t.grant), id \notin c.grant.accept, NEW i \in Nat, i >= c.next
          PROVE  i \notin c.grant.accept
      <4>1. id \in 1..i
        BY <3>3, <1>1, <1>2, EntryIs DEF Started, Keeps
      <4> QED
        BY <4>1, <3>3, <1>1 DEF Ample, InTurn
    <3> QED
      BY <3>1, <3>2, <3>3, <1>4 DEF Refused
  <2> HIDE DEF v
  <2>2. AddsCopies(t, v, id)
    <3>1. v.next = t.next /\ t.next >= t.next /\ v.down = t.down
          /\ (Ample(t.grant) => Ample(v.grant)) /\ v.fdb = t.fdb /\ Sound(v)
      BY <1>1, <1>2, <2>1 DEF Keeps
    <3> QED
      BY <3>1, <1>2 DEF AddsCopies
  <2>3. VlanInv(t, id, 1, v)
    <3>1. Exact(t) => Exact(v)
      BY <1>1, <2>1 DEF Keeps
    <3>2. v.ret = t.ret /\ id \in DOMAIN v.fdb /\ v.fdb = t.fdb /\ 1 # 0
      BY <1>1, <1>2, <2>1
    <3> QED
      BY <3>1, <3>2, <2>2 DEF VlanInv, Alike
  <2>4. ~t.fdb[id].flow => VlanSure(t, id, 1, v)
    BY <1>1, <1>2, <2>1 DEF VlanSure, Started, Keeps, FullCopies
  <2> QED
    BY <2>3, <2>4 DEF v, c, Fresh
<1> QED
  BY <1>3, <1>4 DEF c

\* A further rule: the copy that finds no memory for its blog costs the entry
\* its place.
LEMMA VlanLoses ==
  ASSUME NEW t, NEW id, Started(t, id), NEW n \in Nat \ {0, 1}, NEW u, VlanInv(t, id, n - 1, u),
         ~u.stop, ~NeverShort(t), ~Short(u, CopyCost(u, id))
  PROVE  LET v == [DelEntry(FdbCopy(u, id), id) EXCEPT !.stop = TRUE]
         IN  VlanInv(t, id, n, v)
<1> DEFINE c == FdbCopy(u, id)
           d == DelEntry(c, id)
           v == [d EXCEPT !.stop = TRUE]
<1>1. Sound(u) /\ id \in DOMAIN u.fdb /\ id \in DOMAIN t.fdb /\ id < u.next
  BY EntryIs DEF VlanInv, AddsCopies, Started
<1>2. /\ Sound(c) /\ (Exact(u) => Exact(c))
      /\ c.next = u.next + 1 /\ c.down = u.down /\ c.live = u.live
      /\ c.ret = u.ret /\ c.activates = u.activates /\ c.stop = u.stop
      /\ Ample(c.grant) <=> Ample(u.grant)
      /\ c.grant.accept = u.grant.accept
      /\ u.next \notin DOMAIN u.fdb /\ DOMAIN c.fdb = DOMAIN u.fdb \cup {u.next}
      /\ c.fdb[u.next] = [u.fdb[id] EXCEPT !.root = FALSE, !.flow = FALSE]
      /\ \A x \in DOMAIN u.fdb : c.fdb[x] = u.fdb[x]
  BY <1>1, FdbCopyDoes
<1> HIDE DEF c
<1>3. /\ Quiet(c, d) /\ DOMAIN d.fdb = DOMAIN c.fdb \ {id}
      /\ \A x \in DOMAIN d.fdb : d.fdb[x] = c.fdb[x]
  BY <1>1, <1>2, DelEntryDoes
<1> HIDE DEF d
<1>4. v \in CallState /\ v.fdb = d.fdb /\ v.next = d.next /\ v.live = d.live /\ v.down = d.down
      /\ v.ret = d.ret /\ v.stop /\ v.grant = d.grant
  <2>1. d \in CallState
    BY <1>3 DEF Quiet, Keeps, Sound
  <2> QED
    BY <2>1 DEF CallState
<1>5. Keeps(d, v)
  BY <1>3, <1>4, SameSound DEF Quiet, Keeps
<1> HIDE DEF v
<1>6. u.next \in Nat /\ t.next \in Nat /\ u.next >= t.next /\ v.next = u.next + 1
      /\ \A x \in DOMAIN u.fdb : x \in Nat
  BY <1>1, <1>2, <1>3, <1>4, EntryIs DEF VlanInv, AddsCopies, Sound, CallState, Started, Quiet, Keeps
<1>7. DOMAIN v.fdb = (DOMAIN u.fdb \cup {u.next}) \ {id}
  BY <1>2, <1>3, <1>4
<1>8. /\ \A x \in DOMAIN u.fdb \ {id} : v.fdb[x] = u.fdb[x]
      /\ ~v.fdb[u.next].root
  <2>1. ~c.fdb[u.next].root
    BY <1>1, <1>2, EntryIs DEF EntryType
  <2>2. u.next # id
    BY <1>1, <1>6
  <2> QED
    <3>1. \A x \in DOMAIN v.fdb : v.fdb[x] = c.fdb[x]
      BY <1>3, <1>4
    <3> QED
      BY <3>1, <2>1, <2>2, <1>2, <1>7
<1>9. Sound(v) /\ v.down = t.down /\ v.ret = t.ret /\ (Exact(u) => Exact(v))
      /\ (Ample(t.grant) => Ample(v.grant))
  BY <1>2, <1>3, <1>4, <1>5 DEF Quiet, Keeps, VlanInv, AddsCopies
<1>10. AddsCopies(t, v, id)
  <2>1. v.next >= t.next
    BY <1>6
  <2>2. \A x \in DOMAIN v.fdb : x < t.next => x \in DOMAIN t.fdb
    BY <1>6, <1>7 DEF VlanInv, AddsCopies
  <2>3. \A x \in DOMAIN t.fdb \ {id} : x \in DOMAIN v.fdb /\ v.fdb[x] = t.fdb[x]
    BY <1>7, <1>8 DEF VlanInv, AddsCopies
  <2>4. \A x \in DOMAIN v.fdb : x >= t.next => ~v.fdb[x].root
    BY <1>7, <1>8 DEF VlanInv, AddsCopies
  <2> QED
    BY <2>1, <2>2, <2>3, <2>4, <1>9 DEF AddsCopies
<1>11. id \notin DOMAIN v.fdb
  BY <1>7
<1>12. VlanInv(t, id, n, v)
  BY <1>4, <1>9, <1>10, <1>11 DEF VlanInv
<1> QED
  BY <1>12 DEF v, d, c

\* ... or gets a flow, or goes again.
LEMMA VlanCopies ==
  ASSUME NEW t, NEW id, Started(t, id), NEW n \in Nat \ {0, 1}, NEW u, VlanInv(t, id, n - 1, u),
         Fresh(t, id) => VlanSure(t, id, n - 1, u) /\ Ample(t.grant),
         ~u.stop, ~Short(u, CopyCost(u, id)), ~Short(FdbCopy(u, id), 1)
  PROVE  LET v == Activate(Take(FdbCopy(u, id), 1), u.next)
         IN  VlanInv(t, id, n, v) /\ (Fresh(t, id) => VlanSure(t, id, n, v))
<1> DEFINE b == FdbCopy(u, id)
           c == Take(b, 1)
           v == Activate(c, u.next)
<1>1. Sound(u) /\ id \in DOMAIN u.fdb /\ id \in DOMAIN t.fdb /\ id < u.next
  BY EntryIs DEF VlanInv, AddsCopies, Started
<1>2. /\ Sound(b) /\ (Exact(u) => Exact(b))
      /\ b.next = u.next + 1 /\ b.down = u.down /\ b.live = u.live
      /\ b.ret = u.ret /\ b.activates = u.activates /\ b.stop = u.stop
      /\ Ample(b.grant) <=> Ample(u.grant)
      /\ b.grant.accept = u.grant.accept
      /\ u.next \notin DOMAIN u.fdb /\ DOMAIN b.fdb = DOMAIN u.fdb \cup {u.next}
      /\ b.fdb[u.next] = [u.fdb[id] EXCEPT !.root = FALSE, !.flow = FALSE]
      /\ \A x \in DOMAIN u.fdb : b.fdb[x] = u.fdb[x]
  BY <1>1, FdbCopyDoes
<1> HIDE DEF b
<1>3. Keeps(b, c) /\ c.fdb = b.fdb /\ c.live = b.live /\ c.ret = b.ret
      /\ c.activates = b.activates /\ c.stop = b.stop /\ (Ample(c.grant) <=> Ample(b.grant))
      /\ c.grant.accept = b.grant.accept
  BY <1>2, TakeDoes DEF b
<1> HIDE DEF c
<1>4. /\ ~c.fdb[u.next].root /\ ~c.fdb[u.next].flow /\ Alike(c.fdb[u.next], u.fdb[id])
      /\ \A x \in DOMAIN u.fdb : c.fdb[x] = u.fdb[x]
      /\ DOMAIN c.fdb = DOMAIN u.fdb \cup {u.next}
  <2>1. u.fdb[id] \in EntryType /\ c.fdb[u.next] = [u.fdb[id] EXCEPT !.root = FALSE, !.flow = FALSE]
    BY <1>1, <1>2, <1>3, EntryIs
  <2>2. ~c.fdb[u.next].root /\ ~c.fdb[u.next].flow /\ Alike(c.fdb[u.next], u.fdb[id])
    BY <2>1 DEF EntryType, Alike
  <2> QED
    BY <2>2, <1>2, <1>3
<1>5. u.next \in Nat /\ t.next \in Nat /\ u.next >= t.next /\ c.next = u.next + 1 /\ u.next # id
      /\ \A x \in DOMAIN u.fdb : x \in Nat
  BY <1>1, <1>2, <1>3, EntryIs DEF VlanInv, AddsCopies, Sound, CallState, Started, Keeps
<1>6. ASSUME NEW w, Sound(w), Exact(c) => Exact(w), w.next = c.next, w.down = c.down,
             w.grant = c.grant, w.ret = c.ret, ~w.stop,
             DOMAIN u.fdb \subseteq DOMAIN w.fdb, DOMAIN w.fdb \subseteq DOMAIN u.fdb \cup {u.next},
             \A x \in DOMAIN u.fdb : w.fdb[x] = u.fdb[x],
             u.next \in DOMAIN w.fdb => ~w.fdb[u.next].root
      PROVE  VlanInv(t, id, n, w)
  <2>1. w.next >= t.next
    BY <1>5, <1>6
  <2>2. \A x \in DOMAIN w.fdb : x < t.next => x \in DOMAIN t.fdb
    BY <1>5, <1>6 DEF VlanInv, AddsCopies
  <2>3. \A x \in DOMAIN t.fdb \ {id} : x \in DOMAIN w.fdb /\ w.fdb[x] = t.fdb[x]
    BY <1>6 DEF VlanInv, AddsCopies
  <2>4. \A x \in DOMAIN w.fdb : x >= t.next => ~w.fdb[x].root
    BY <1>6 DEF VlanInv, AddsCopies
  <2>5. w.down = t.down /\ w.ret = t.ret /\ (Ample(t.grant) => Ample(w.grant))
        /\ (Exact(u) => Exact(w))
    BY <1>2, <1>3, <1>6 DEF VlanInv, AddsCopies, Keeps
  <2>6. AddsCopies(t, w, id)
    BY <2>1, <2>2, <2>3, <2>4, <2>5, <1>6 DEF AddsCopies
  <2>7. id \in DOMAIN w.fdb /\ w.fdb[id] = u.fdb[id]
    BY <1>1, <1>6
  <2> QED
    BY <2>5, <2>6, <2>7, <1>1 DEF VlanInv
<1>7. CASE c.live < Capacity /\ u.next \in c.grant.accept
  <2>1. /\ Sound(v) /\ (Exact(c) /\ ~c.fdb[u.next].flow => Exact(v))
        /\ v.next = c.next /\ v.down = c.down /\ v.grant = c.grant /\ v.ret = c.ret
        /\ v.activates = c.activates + 1 /\ v.stop = c.stop
        /\ v.fdb = [c.fdb EXCEPT ![u.next].flow = TRUE]
    BY <1>3, <1>4, <1>7, ActivateRoom DEF Keeps
  <2>2. /\ DOMAIN v.fdb = DOMAIN u.fdb \cup {u.next}
        /\ v.fdb[u.next] = [c.fdb[u.next] EXCEPT !.flow = TRUE]
        /\ \A x \in DOMAIN u.fdb : v.fdb[x] = u.fdb[x]
    BY <2>1, <1>2, <1>4
  <2> HIDE DEF v
  <2>3. Alike(v.fdb[u.next], u.fdb[id]) /\ ~v.fdb[u.next].root /\ v.fdb[u.next].flow
    BY <2>2, <1>3, <1>4, EntryIs DEF Alike, Keeps, EntryType
  <2>4. VlanInv(t, id, n, v)
    BY <2>1, <2>2, <2>3, <1>2, <1>3, <1>4, <1>6
  <2>5. ASSUME Fresh(t, id)
        PROVE  VlanSure(t, id, n, v)
    <3>1. VlanSure(t, id, n - 1, u)
      BY <2>5
    <3>2. u.activates # 0
      <4>1. c.live = u.live /\ c.live # Capacity /\ n - 1 # 0
        BY <1>2, <1>3, <1>7, McastFdbAssumption
      <4>2. ~Refused(u)
        BY <4>1, <1>2, <1>3, <1>5, <1>7 DEF Refused
      <4> QED
        BY <4>1, <4>2, <3>1, <2>5 DEF VlanSure
    <3>3. u.activates \in Nat /\ v.activates = u.activates + 1
      BY <1>1, <1>2, <1>3, <2>1 DEF Sound, CallState
    <3>4. Alike(u.fdb[id], t.fdb[id])
      BY <1>1 DEF VlanInv
    <3>5. FullCopies(t, v, t.fdb, id)
      BY <2>2, <2>3, <3>1, <3>4, ZenonT(40) DEF VlanSure, FullCopies, Alike
    <3>6. v.fdb[id].flow /\ v.activates # 0 /\ id \in DOMAIN v.fdb
      BY <3>1, <3>2, <3>3, <2>2, <1>1 DEF VlanSure
    <3> QED
      BY <3>5, <3>6 DEF VlanSure
  <2> QED
    BY <2>4, <2>5 DEF v, c, b
<1>8. CASE ~(c.live < Capacity /\ u.next \in c.grant.accept)
  <2>1. v = DelEntry(c, u.next)
    BY <1>4, <1>8 DEF Activate
  <2>2. /\ Quiet(c, v) /\ DOMAIN v.fdb = DOMAIN c.fdb \ {u.next}
        /\ \A x \in DOMAIN v.fdb : v.fdb[x] = c.fdb[x]
    BY <1>3, <1>4, <2>1, DelEntryDoes DEF Keeps
  <2> HIDE DEF v
  <2>3. DOMAIN v.fdb = DOMAIN u.fdb /\ \A x \in DOMAIN u.fdb : v.fdb[x] = u.fdb[x]
    BY <2>2, <1>2, <1>4
  <2>4. VlanInv(t, id, n, v)
    BY <2>2, <2>3, <1>2, <1>3, <1>6 DEF Quiet, Keeps
  <2>5. ASSUME Fresh(t, id)
        PROVE  VlanSure(t, id, n, v)
    <3>1. VlanSure(t, id, n - 1, u)
      BY <2>5
    <3>2. v.activates = u.activates /\ v.live = u.live /\ v.next = u.next + 1
          /\ v.grant.accept = u.grant.accept
      <4>1. v.live = c.live
        BY <2>1, <1>4 DEF DelEntry, Release, Unlink
      <4> QED
        BY <4>1, <2>2, <1>2, <1>3, <1>5 DEF Quiet, Keeps
    <3>3. Refused(u) => Refused(v)
      BY <3>2, <1>5 DEF Refused
    <3> QED
      BY <3>1, <3>2, <3>3, <2>3, <2>5, <1>1 DEF VlanSure, FullCopies
  <2> QED
    BY <2>4, <2>5 DEF v, c, b
<1> QED
  BY <1>7, <1>8

LEMMA VlanTurn ==
  ASSUME NEW t, NEW id, Started(t, id), NEW n \in 1..MaxRules, NEW u, VlanInv(t, id, n - 1, u),
         Fresh(t, id) => VlanSure(t, id, n - 1, u)
  PROVE  LET v == VlanRule(u, id, n)
         IN  VlanInv(t, id, n, v) /\ (Fresh(t, id) => VlanSure(t, id, n, v))
<1> DEFINE v == VlanRule(u, id, n)
<1>1. u \in CallState /\ n \in Nat \ {0} /\ (n > 1 <=> n # 1)
  BY McastFdbAssumption DEF VlanInv, AddsCopies, Sound
<1>2. NeverShort(t) /\ n > 1 => Ample(t.grant) /\ Ample(u.grant)
  BY McastFdbAssumption DEF NeverShort, VlanInv, AddsCopies
<1>3. CASE u.stop
  <2>1. v = u
    BY <1>3 DEF VlanRule
  <2> HIDE DEF v
  <2> QED
    BY <2>1, <1>1, <1>3, VlanStops DEF v
<1>4. CASE ~u.stop /\ n > 1 /\ Short(u, CopyCost(u, id))
  <2>1. v = [u EXCEPT !.stop = TRUE, !.grant.mem = 0] /\ ~Ample(u.grant)
    BY <1>4 DEF VlanRule, Short, Ample
  <2> HIDE DEF v
  <2>2. v \in CallState /\ v.fdb = u.fdb /\ v.next = u.next /\ v.live = u.live
        /\ v.down = u.down /\ v.ret = u.ret /\ v.activates = u.activates /\ v.stop
    <3>1. u.grant \in GrantType /\ [u.grant EXCEPT !.mem = 0] \in GrantType
      BY <1>1 DEF CallState, GrantType
    <3>2. v = [u EXCEPT !.stop = TRUE, !.grant = [u.grant EXCEPT !.mem = 0]]
      BY <2>1, <1>1 DEF CallState
    <3> QED
      BY <3>1, <3>2, <1>1 DEF CallState
  <2> QED
    BY <2>1, <2>2, <1>1, <1>2, <1>4, VlanStops DEF v
<1>5. CASE ~u.stop /\ n = 1 /\ Short(u, 1)
  <2>1. v = [u EXCEPT !.stop = TRUE]
    BY <1>5 DEF VlanRule
  <2>2. v \in CallState /\ v.fdb = u.fdb /\ v.next = u.next /\ v.live = u.live
        /\ v.down = u.down /\ v.ret = u.ret /\ v.activates = u.activates /\ v.stop
        /\ v.grant = u.grant
    BY <2>1, <1>1 DEF CallState
  <2> HIDE DEF v
  <2> QED
    BY <2>2, <1>1, <1>5, VlanStops DEF v
<1>6. CASE ~u.stop /\ n = 1 /\ ~Short(u, 1)
  <2>1. u = t
    BY <1>6 DEF VlanInv
  <2>2. v = Activate(Take(t, 1), id)
    BY <2>1, <1>6 DEF VlanRule
  <2> HIDE DEF v
  <2> QED
    BY <2>1, <2>2, <1>6, VlanFirst DEF v
<1>7. CASE ~u.stop /\ n > 1 /\ ~Short(u, CopyCost(u, id)) /\ Short(FdbCopy(u, id), 1)
  <2>1. v = [DelEntry(FdbCopy(u, id), id) EXCEPT !.stop = TRUE]
    BY <1>7, <1>1 DEF VlanRule
  <2>2. ~NeverShort(t)
    <3>1. ~Ample(FdbCopy(u, id).grant)
      BY <1>7 DEF Short, Ample
    <3>2. Sound(u) /\ id \in DOMAIN u.fdb
      BY <1>7 DEF VlanInv, AddsCopies
    <3>3. ~Ample(u.grant)
      BY <3>1, <3>2, <1>7, FdbCopyDoes
    <3> QED
      BY <3>3, <1>2, <1>7
  <2> HIDE DEF v
  <2>3. VlanInv(t, id, n, v)
    BY <2>1, <2>2, <1>1, <1>7, VlanLoses
  <2> QED
    BY <2>2, <2>3 DEF v, Fresh
<1>8. CASE ~u.stop /\ n > 1 /\ ~Short(u, CopyCost(u, id)) /\ ~Short(FdbCopy(u, id), 1)
  <2>1. v = Activate(Take(FdbCopy(u, id), 1), u.next)
    BY <1>8, <1>1 DEF VlanRule
  <2> HIDE DEF v
  <2> QED
    BY <2>1, <1>1, <1>2, <1>8, VlanCopies DEF v, Fresh
<1> QED
  BY <1>1, <1>3, <1>4, <1>5, <1>6, <1>7, <1>8

LEMMA VlanProcessDoes ==
  ASSUME NEW t, NEW id, Sound(t), id \in DOMAIN t.fdb, t.fdb[id].root,
         rules \in [WanDev -> 0..MaxRules]
  PROVE  LET s == [t EXCEPT !.activates = 0, !.stop = FALSE]
             n == rules[t.fdb[id].stream.from]
             u == VlanProcess(t, id)
         IN  /\ Started(s, id) /\ s.fdb = t.fdb /\ s.next = t.next /\ s.down = t.down
             /\ s.grant = t.grant /\ s.ret = t.ret /\ (Exact(t) => Exact(s)) /\ s.live = t.live
             /\ n \in 0..MaxRules /\ VlanInv(s, id, n, u)
             /\ Fresh(s, id) => VlanSure(s, id, n, u)
<1> DEFINE s == [t EXCEPT !.activates = 0, !.stop = FALSE]
           N == rules[t.fdb[id].stream.from]
           Good(i, u) == VlanInv(s, id, i, u) /\ (Fresh(s, id) => VlanSure(s, id, i, u))
           G == [i \in 0..N |-> {u \in CallState : Good(i, u)}]
           turn == [i \in 1..N |-> [u \in G[i - 1] |-> VlanRule(u, id, i)]]
           Loop(f) == [i \in 0..N |-> IF i = 0 THEN s ELSE VlanRule(f[i - 1], id, i)]
           loop == CHOOSE f : f = Loop(f)
<1>1. s \in CallState /\ s.fdb = t.fdb /\ s.next = t.next /\ s.down = t.down
      /\ s.grant = t.grant /\ s.ret = t.ret /\ s.live = t.live /\ s.activates = 0 /\ ~s.stop
  BY DEF Sound, CallState
<1>2. N \in 0..MaxRules /\ N \in Nat
  <2>1. t.fdb[id].stream \in Stream
    BY EntryIs DEF EntryType
  <2> QED
    BY <2>1, McastFdbAssumption DEF WanDev
<1>3. VlanProcess(t, id) = loop[N]
  BY DEF VlanProcess
<1> HIDE DEF N
<1> HIDE DEF s
<1>4. Keeps(t, s)
  BY <1>1, SameSound
<1>5. Started(s, id)
  BY <1>1, <1>4 DEF Started, Keeps
<1>6. Good(0, s)
  BY <1>5, VlanStart
<1>7. ASSUME NEW i \in 1..N, NEW u, Good(i - 1, u)
      PROVE  Good(i, VlanRule(u, id, i)) /\ VlanRule(u, id, i) \in CallState
  <2>1. i \in 1..MaxRules
    BY <1>2, McastFdbAssumption
  <2>2. Good(i, VlanRule(u, id, i))
    BY <2>1, <1>5, <1>7, VlanTurn
  <2> QED
    BY <2>2 DEF VlanInv, AddsCopies, Sound
<1> HIDE DEF Good
<1>8. s \in G[0]
  BY <1>1, <1>2, <1>6
<1>9. ASSUME NEW i \in 1..N, NEW u \in G[i - 1]
      PROVE  turn[i][u] = VlanRule(u, id, i) /\ turn[i][u] \in G[i]
  <2>1. i - 1 \in 0..N /\ i \in 0..N
    BY <1>2
  <2> QED
    BY <2>1, <1>7
<1>10. PICK f : Computes(f, N, s, turn, G)
  <2> HIDE DEF turn, G
  <2> QED
    BY <1>2, <1>8, <1>9, LoopComputes
<1> HIDE DEF turn, G
<1>11. f = Loop(f)
  <2>1. ASSUME NEW i \in 0..N, i # 0
        PROVE  turn[i][f[i - 1]] = VlanRule(f[i - 1], id, i)
    <3>1. i \in 1..N /\ i - 1 \in 0..N
      BY <2>1, <1>2
    <3> QED
      BY <3>1, <1>9, <1>10 DEF Computes
  <2>2. f = [i \in 0..N |-> IF i = 0 THEN s ELSE turn[i][f[i - 1]]]
    BY <1>10 DEF Computes
  <2>3. \A i \in 0..N : (IF i = 0 THEN s ELSE turn[i][f[i - 1]])
                         = IF i = 0 THEN s ELSE VlanRule(f[i - 1], id, i)
    BY <2>1
  <2> QED
    BY <2>2, <2>3
<1>12. loop = Loop(loop)
  BY <1>11
<1> HIDE DEF loop
<1> DEFINE K == {i \in 0..N : Good(i, loop[i])}
<1>13. 0 \in K
  BY <1>2, <1>6, <1>12
<1>14. ASSUME NEW i \in 1..N, i - 1 \in K
       PROVE  i \in K
  <2>1. Good(i - 1, loop[i - 1]) /\ i \in 0..N /\ i # 0
    BY <1>14, <1>2
  <2>2. loop[i] = VlanRule(loop[i - 1], id, i)
    BY <2>1, <1>12
  <2> QED
    BY <2>1, <2>2, <1>7
<1> HIDE DEF K
<1>15. N \in K
  BY <1>2, <1>13, <1>14, EveryTurn
<1>16. Good(N, loop[N])
  BY <1>15 DEF K
<1> QED
  BY <1>1, <1>2, <1>3, <1>4, <1>5, <1>16 DEF Good, s, N, Keeps
-----------------------------------------------------------------------------
(* bcm_mcast_blog_process                                                  *)

Settings == rules \in [WanDev -> 0..MaxRules] /\ tag \in [LanDev -> Tag]

SameSubscription(e, f) == e.stream = f.stream /\ e.port = f.port /\ e.reps = f.reps

\* The others of the stream on the root device have flows that set this tag.
Agrees(f, id, tci) ==
  \A x \in DOMAIN f \ {id} : SameRoot(f[id], f[x]) => f[x].flow /\ f[x].lan_tci = tci

\* u is t after entry id was processed.
Processed(t, u, id) ==
  /\ AddsCopies(t, u, id)
  /\ id \in DOMAIN u.fdb => u.fdb[id].root /\ SameSubscription(u.fdb[id], t.fdb[id])
  /\ u.ret = -2 => u.next = t.next /\ DOMAIN u.fdb = DOMAIN t.fdb
  /\ Exact(t) /\ ~t.fdb[id].flow => Exact(u)
  /\ ~blog_enable => u.fdb = t.fdb /\ u.next = t.next /\ u.ret = 0

\* ... if it had no flow before.
ProcessedSure(t, u, id) ==
  /\ id \in DOMAIN u.fdb
  /\ u.ret # 0 => DOMAIN u.fdb = DOMAIN t.fdb /\ ~u.fdb[id].flow
  /\ blog_enable /\ u.ret = 0 =>
       /\ u.fdb[id].flow /\ FullCopies(t, u, u.fdb, id)
       /\ Agrees(t.fdb, id, u.fdb[id].lan_tci)
  /\ MaxRules <= 1 => DOMAIN u.fdb = DOMAIN t.fdb

\* The entry gets the tag of its device.
LEMMA RetagDoes ==
  ASSUME NEW t, Sound(t), NEW id \in DOMAIN t.fdb, NEW g \in Tag, ~Short(t, 2)
  PROVE  LET u == [Take(t, 2) EXCEPT !.fdb[id].lan_tci = g]
         IN  /\ Keeps(t, u) /\ (Ample(u.grant) <=> Ample(t.grant)) /\ u.ret = t.ret
             /\ DOMAIN u.fdb = DOMAIN t.fdb
             /\ u.fdb[id] = [t.fdb[id] EXCEPT !.lan_tci = g]
             /\ \A x \in DOMAIN t.fdb \ {id} : u.fdb[x] = t.fdb[x]
<1> DEFINE v == Take(t, 2)
           e == [v.fdb[id] EXCEPT !.lan_tci = g]
           u == [v EXCEPT !.fdb[id].lan_tci = g]
<1>1. Keeps(t, v) /\ v.fdb = t.fdb /\ v.live = t.live /\ v.ret = t.ret
      /\ (Ample(v.grant) <=> Ample(t.grant))
  BY TakeDoes
<1> HIDE DEF v
<1>2. v.fdb[id] \in GoodEntry /\ v \in CallState /\ v.fdb \in [DOMAIN v.fdb -> GoodEntry]
      /\ DOMAIN v.fdb \in SUBSET (Nat \ {0}) /\ v.live \in Int /\ Sound(v) /\ id \in DOMAIN v.fdb
      /\ v.live <= Capacity
  BY <1>1, EntryIs, TableIs DEF GoodEntry, Sound, CallState, Keeps
<1>3. e \in GoodEntry /\ e.flow = v.fdb[id].flow
  BY <1>2 DEF GoodEntry, EntryType
<1>4. u = [v EXCEPT !.fdb = [v.fdb EXCEPT ![id] = e]]
  BY <1>2 DEF CallState
<1> HIDE DEF u, e
<1>5. [v.fdb EXCEPT ![id] = e] \in Tables
  <2>1. [v.fdb EXCEPT ![id] = e] \in [DOMAIN v.fdb -> GoodEntry]
    BY <1>2, <1>3
  <2> QED
    BY <2>1, <1>2, TableOf
<1>6. u \in CallState /\ u.fdb = [v.fdb EXCEPT ![id] = e] /\ u.next = v.next /\ u.down = v.down
      /\ u.live = v.live /\ u.grant = v.grant /\ u.ret = v.ret
  BY <1>2, <1>4, <1>5 DEF CallState
<1>7. u.live = v.live + (IF e.flow THEN 1 ELSE 0) - (IF v.fdb[id].flow THEN 1 ELSE 0)
  BY <1>2, <1>3, <1>6
<1>8. Keeps(v, u)
  <2>1. u.live <= Capacity
        /\ u.live >= v.live + (IF e.flow THEN 1 ELSE 0) - (IF v.fdb[id].flow THEN 1 ELSE 0)
    BY <1>2, <1>3, <1>6, <1>7
  <2> QED
    BY <2>1, <1>2, <1>3, <1>6, <1>7, PutSound
<1>9. Keeps(t, u)
  BY <1>1, <1>8 DEF Keeps
<1>10. DOMAIN u.fdb = DOMAIN t.fdb /\ u.fdb[id] = e
       /\ \A x \in DOMAIN t.fdb \ {id} : u.fdb[x] = t.fdb[x]
  BY <1>1, <1>2, <1>6
<1> QED
  BY <1>1, <1>6, <1>9, <1>10 DEF u, e, v

LEMMA BlogProcessDoes ==
  ASSUME Settings, NEW t, Sound(t), NEW id \in DOMAIN t.fdb, t.fdb[id].root
  PROVE  LET u == BlogProcess(t, id)
         IN  /\ Processed(t, u, id)
             /\ NeverShort(t) /\ ~t.fdb[id].flow => ProcessedSure(t, u, id)
<1> DEFINE e == t.fdb[id]
           g == tag[e.port.dev]
           w == [Take(t, 2) EXCEPT !.fdb[id].lan_tci = g]
           s == [w EXCEPT !.activates = 0, !.stop = FALSE]
           v == VlanProcess(w, id)
           u == BlogProcess(t, id)
<1>1. /\ t \in CallState /\ e \in EntryType /\ e.reps # <<>> /\ t.next \in Nat
      /\ \A x \in DOMAIN t.fdb : x \in Nat /\ x < t.next /\ ~(x >= t.next)
  BY EntryIs DEF Sound, CallState
<1>2. g \in Tag
  BY <1>1 DEF Settings, LanDev, EntryType
<1> HIDE DEF g
<1>3. ASSUME u \in CallState, u.fdb = t.fdb, u.next = t.next, u.live = t.live, u.down = t.down,
             u.grant = t.grant, u.ret # 0 \/ ~blog_enable, ~blog_enable => u.ret = 0
      PROVE  Processed(t, u, id) /\ (~t.fdb[id].flow => ProcessedSure(t, u, id))
  <2> HIDE DEF u
  <2>1. Sound(u) /\ (Exact(t) => Exact(u))
    BY <1>3, SameSound DEF Keeps
  <2>2. AddsCopies(t, u, id)
    BY <1>1, <1>3, <2>1 DEF AddsCopies
  <2> QED
    BY <1>1, <1>3, <2>1, <2>2 DEF Processed, ProcessedSure, SameSubscription
<1>4. CASE ~blog_enable
  <2>1. u = [t EXCEPT !.ret = 0]
    BY <1>4 DEF BlogProcess
  <2> HIDE DEF u
  <2> QED
    BY <2>1, <1>1, <1>3, <1>4 DEF u, CallState
<1>5. CASE blog_enable /\ e.port.dev \in Bonded
  <2>1. u = [t EXCEPT !.ret = -2]
    BY <1>5 DEF BlogProcess
  <2>2. u \in CallState /\ u.fdb = t.fdb /\ u.next = t.next /\ u.live = t.live /\ u.down = t.down
        /\ u.grant = t.grant /\ u.ret = -2
    BY <2>1, <1>1 DEF CallState
  <2> HIDE DEF u
  <2> QED
    BY <2>2, <1>3, <1>5 DEF u
<1>6. CASE blog_enable /\ e.port.dev \notin Bonded /\ (Short(t, 2) \/ rules[e.stream.from] = 0)
  <2>1. u = [t EXCEPT !.ret = -1]
    BY <1>6 DEF BlogProcess
  <2>2. u \in CallState /\ u.fdb = t.fdb /\ u.next = t.next /\ u.live = t.live /\ u.down = t.down
        /\ u.grant = t.grant /\ u.ret = -1
    BY <2>1, <1>1 DEF CallState
  <2> HIDE DEF u
  <2> QED
    BY <2>2, <1>3, <1>6 DEF u
<1>7. CASE /\ blog_enable /\ e.port.dev \notin Bonded
           /\ ~Short(t, 2) /\ rules[e.stream.from] # 0
  <2>1. Keeps(t, w) /\ (Ample(w.grant) <=> Ample(t.grant)) /\ w.ret = t.ret
        /\ DOMAIN w.fdb = DOMAIN t.fdb /\ w.fdb[id] = [e EXCEPT !.lan_tci = g]
        /\ \A x \in DOMAIN t.fdb \ {id} : w.fdb[x] = t.fdb[x]
    BY <1>2, <1>7, RetagDoes
  <2> HIDE DEF w
  <2>2. w.fdb[id].root /\ SameSubscription(w.fdb[id], e) /\ w.fdb[id].flow = e.flow
        /\ w.fdb[id].lan_tci = g
    BY <2>1, <1>1 DEF EntryType, SameSubscription
  <2>3. Sound(w) /\ w \in CallState /\ w.next = t.next /\ w.down = t.down
        /\ (Exact(t) => Exact(w))
    BY <2>1 DEF Keeps, Sound
  <2>4. CASE Conflict(w, id)
    <3>1. u = [w EXCEPT !.ret = -2]
      BY <1>7, <2>4 DEF BlogProcess, w, g
    <3> HIDE DEF u
    <3>2. u \in CallState /\ u.fdb = w.fdb /\ u.next = w.next /\ u.live = w.live
          /\ u.down = w.down /\ u.grant = w.grant /\ u.ret = -2
      BY <3>1, <2>3 DEF CallState
    <3>3. Sound(u) /\ (Exact(w) => Exact(u))
      BY <2>3, <3>2, SameSound DEF Keeps
    <3>4. AddsCopies(t, u, id)
      BY <1>1, <2>1, <2>3, <3>2, <3>3 DEF AddsCopies
    <3>5. Processed(t, u, id)
      BY <1>7, <2>1, <2>2, <2>3, <3>2, <3>3, <3>4 DEF Processed
    <3>6. ~t.fdb[id].flow => ProcessedSure(t, u, id)
      <4>1. id \in DOMAIN u.fdb /\ DOMAIN u.fdb = DOMAIN t.fdb /\ u.ret # 0
        BY <2>1, <3>2
      <4>2. u.fdb[id].flow = t.fdb[id].flow
        BY <2>2, <3>2
      <4> QED
        BY <4>1, <4>2 DEF ProcessedSure
    <3> QED
      BY <3>5, <3>6 DEF u
  <2>5. CASE ~Conflict(w, id)
    <3> DEFINE n == rules[w.fdb[id].stream.from]
               r == IF v.activates = 0 THEN -1 ELSE 0
    <3>1. u = [v EXCEPT !.ret = r]
      BY <1>7, <2>5 DEF BlogProcess, w, g
    <3>2. /\ Started(s, id) /\ s.fdb = w.fdb /\ s.next = w.next /\ s.down = w.down
          /\ s.grant = w.grant /\ s.ret = w.ret /\ (Exact(w) => Exact(s))
          /\ n \in 0..MaxRules /\ VlanInv(s, id, n, v)
          /\ Fresh(s, id) => VlanSure(s, id, n, v)
      BY <2>1, <2>2, <2>3, VlanProcessDoes DEF Settings
    <3> HIDE DEF v, s, u, n
    <3>3. AddsCopies(s, v, id) /\ Sound(v)
      BY <3>2 DEF VlanInv, AddsCopies
    <3>4. u \in CallState /\ u.fdb = v.fdb /\ u.next = v.next /\ u.live = v.live
          /\ u.down = v.down /\ u.grant = v.grant /\ u.ret = r /\ r \in {0, -1}
      BY <3>1, <3>3 DEF Sound, CallState
    <3>5. Sound(u) /\ (Exact(v) => Exact(u))
      BY <3>3, <3>4, SameSound DEF Keeps
    <3>6. AddsCopies(t, u, id)
      BY <1>1, <2>1, <2>3, <3>2, <3>3, <3>4, <3>5 DEF AddsCopies
    <3>7. id \in DOMAIN v.fdb => Alike(v.fdb[id], w.fdb[id]) /\ v.fdb[id].root
      BY <2>2, <3>2 DEF VlanInv
    <3>8. Processed(t, u, id)
      <4>1. id \in DOMAIN u.fdb => u.fdb[id].root /\ SameSubscription(u.fdb[id], t.fdb[id])
        BY <2>2, <3>4, <3>7 DEF Alike, SameSubscription
      <4>2. Exact(t) /\ ~t.fdb[id].flow => Exact(u)
        BY <2>2, <2>3, <3>2, <3>5 DEF VlanInv
      <4>3. u.ret # -2
        BY <3>4
      <4> QED
        BY <1>7, <3>6, <4>1, <4>2, <4>3 DEF Processed
    <3>9. ASSUME NeverShort(t), ~t.fdb[id].flow
          PROVE  ProcessedSure(t, u, id)
      <4>1. VlanSure(s, id, n, v)
        BY <3>9, <2>1, <2>2, <3>2 DEF NeverShort, Fresh
      <4>2. id \in DOMAIN u.fdb /\ (u.fdb[id].flow <=> v.activates # 0)
        BY <4>1, <3>4 DEF VlanSure
      <4>3. u.ret # 0 <=> v.activates = 0
        BY <3>4
      <4>4. u.ret # 0 => DOMAIN u.fdb = DOMAIN t.fdb /\ ~u.fdb[id].flow
        BY <4>1, <4>2, <4>3, <3>2, <3>4, <2>1 DEF VlanSure
      <4>5. u.ret = 0 => u.fdb[id].flow
        BY <4>2, <4>3
      <4>6. Alike(u.fdb[id], w.fdb[id])
        BY <3>4, <3>7, <4>2
      <4>7. FullCopies(t, u, u.fdb, id)
        BY <4>1, <4>6, <3>2, <3>4, <2>3 DEF VlanSure, FullCopies, Alike
      <4>8. Agrees(t.fdb, id, u.fdb[id].lan_tci)
        BY <2>1, <2>2, <2>5, <4>6 DEF Agrees, Conflict, Alike, SameRoot, SameStream, SameSubscription
      <4>9. MaxRules <= 1 => DOMAIN u.fdb = DOMAIN t.fdb
        <5>1. MaxRules <= 1 => n <= 1
          BY <3>2, McastFdbAssumption
        <5> QED
          BY <5>1, <4>1, <3>2, <3>4, <2>1 DEF VlanSure
      <4> QED
        BY <4>2, <4>4, <4>5, <4>7, <4>8, <4>9 DEF ProcessedSure
    <3> QED
      BY <3>8, <3>9 DEF u
  <2> QED
    BY <2>4, <2>5
<1> QED
  BY <1>4, <1>5, <1>6, <1>7
-----------------------------------------------------------------------------
(* Loops over the entries.  Entry x of those in S has been seen after n turns *)
(* if Seen(t, n, x), where t is the call before the loop.                    *)

Seen(t, n, x) == x >= t.next - n

LEMMA SeenNext ==
  ASSUME NEW t, Sound(t), NEW n \in 1..t.next - 1
  PROVE  \A x \in DOMAIN t.fdb :
           /\ ~Seen(t, 0, x) /\ Seen(t, t.next - 1, x)
           /\ Seen(t, n, x) <=> Seen(t, n - 1, x) \/ x = t.next - n
           /\ x = t.next - n => ~Seen(t, n - 1, x)
<1>1. t.next \in Nat /\ \A x \in DOMAIN t.fdb : x \in Nat \ {0} /\ x < t.next
  BY EntryIs DEF Sound, CallState
<1> QED
  BY <1>1 DEF Seen

LEMMA SeenNone ==
  ASSUME NEW t, Sound(t)
  PROVE  \A x \in DOMAIN t.fdb : ~Seen(t, 0, x) /\ Seen(t, t.next - 1, x)
<1>1. t.next \in Nat /\ \A x \in DOMAIN t.fdb : x \in Nat \ {0} /\ x < t.next
  BY EntryIs DEF Sound, CallState
<1> QED
  BY <1>1 DEF Seen

LEMMA QuietSelf ==
  ASSUME NEW t, Sound(t)
  PROVE  Quiet(t, t) /\ Keeps(t, t)
BY DEF Quiet, Keeps

LEMMA QuietTwice ==
  ASSUME NEW t, NEW u, NEW v, Quiet(t, u), Quiet(u, v)
  PROVE  Quiet(t, v)
BY DEF Quiet, Keeps

\* Each entry in S is deleted.
Deleted(t, S, n, u) ==
  /\ Quiet(t, u)
  /\ DOMAIN u.fdb = {x \in DOMAIN t.fdb : ~(x \in S /\ Seen(t, n, x))}
  /\ \A x \in DOMAIN u.fdb : u.fdb[x] = t.fdb[x]

\* A loop that deletes entries
LEMMA DelLoop ==
  ASSUME NEW t, Sound(t), NEW S, S \subseteq DOMAIN t.fdb
  PROVE  Deleted(t, S, t.next - 1, ForEach(t, S, DelEntry))
<1> DEFINE N == t.next - 1
           Turn(i, u) == IF t.next - i \in S THEN DelEntry(u, t.next - i) ELSE u
           Good(i, u) == Deleted(t, S, i, u)
           G == [i \in 0..N |-> {u \in CallState : Good(i, u)}]
           turn == [i \in 1..N |-> [u \in G[i - 1] |-> Turn(i, u)]]
           Loop(f) == [i \in 0..N |-> IF i = 0 THEN t ELSE Turn(i, f[i - 1])]
           loop == CHOOSE f : f = Loop(f)
<1>1. t \in CallState /\ N \in Nat
  BY DEF Sound, CallState
<1>2. ForEach(t, S, DelEntry) = loop[N]
  BY DEF ForEach
<1>3. Good(0, t)
  BY SeenNone, QuietSelf DEF Deleted
<1>4. ASSUME NEW i \in 1..N, NEW u, Good(i - 1, u)
      PROVE  Good(i, Turn(i, u)) /\ Turn(i, u) \in CallState
  <2>1. i - 1 \in Nat /\ \A x \in DOMAIN t.fdb :
          /\ Seen(t, i, x) <=> Seen(t, i - 1, x) \/ x = t.next - i
          /\ x = t.next - i => ~Seen(t, i - 1, x)
    BY SeenNext
  <2>2. CASE t.next - i \in S
    <3> DEFINE id == t.next - i
               v == DelEntry(u, id)
    <3>1. id \in DOMAIN u.fdb /\ Sound(u)
      BY <2>1, <2>2, <1>4 DEF Deleted, Quiet, Keeps
    <3> HIDE DEF id
    <3>2. Quiet(u, v) /\ DOMAIN v.fdb = DOMAIN u.fdb \ {id}
          /\ \A x \in DOMAIN v.fdb : v.fdb[x] = u.fdb[x]
      BY <3>1, DelEntryDoes
    <3> HIDE DEF v
    <3>3. Quiet(t, v)
      BY <3>2, <1>4, QuietTwice DEF Deleted
    <3>4. DOMAIN v.fdb = {x \in DOMAIN t.fdb : ~(x \in S /\ Seen(t, i, x))}
      BY <3>2, <2>1, <2>2, <1>4 DEF Deleted, id
    <3>5. Deleted(t, S, i, v) /\ v \in CallState
      BY <3>2, <3>3, <3>4, <1>4 DEF Deleted, Quiet, Keeps, Sound
    <3> QED
      BY <3>5, <2>2 DEF v, id
  <2>3. CASE t.next - i \notin S
    <3>1. DOMAIN u.fdb = {x \in DOMAIN t.fdb : ~(x \in S /\ Seen(t, i, x))}
      BY <2>1, <2>3, <1>4 DEF Deleted
    <3> QED
      BY <3>1, <2>3, <1>4 DEF Deleted, Quiet, Keeps, Sound
  <2> QED
    BY <2>2, <2>3
<1> HIDE DEF Turn, Good, N
<1>5. t \in G[0]
  BY <1>1, <1>3
<1>6. ASSUME NEW i \in 1..N, NEW u \in G[i - 1]
      PROVE  turn[i][u] = Turn(i, u) /\ turn[i][u] \in G[i]
  <2>1. i - 1 \in 0..N /\ i \in 0..N
    BY <1>1
  <2> QED
    BY <2>1, <1>4
<1>7. PICK f : Computes(f, N, t, turn, G)
  <2> HIDE DEF turn, G
  <2> QED
    BY <1>1, <1>5, <1>6, LoopComputes
<1> HIDE DEF turn, G
<1>8. f = Loop(f)
  <2>1. ASSUME NEW i \in 0..N, i # 0
        PROVE  turn[i][f[i - 1]] = Turn(i, f[i - 1])
    <3>1. i \in 1..N /\ i - 1 \in 0..N
      BY <2>1, <1>1
    <3> QED
      BY <3>1, <1>6, <1>7 DEF Computes
  <2>2. f = [i \in 0..N |-> IF i = 0 THEN t ELSE turn[i][f[i - 1]]]
    BY <1>7 DEF Computes
  <2>3. \A i \in 0..N : (IF i = 0 THEN t ELSE turn[i][f[i - 1]])
                         = IF i = 0 THEN t ELSE Turn(i, f[i - 1])
    BY <2>1
  <2> QED
    BY <2>2, <2>3
<1>9. loop = Loop(loop)
  BY <1>8
<1> HIDE DEF loop
<1> DEFINE K == {i \in 0..N : Good(i, loop[i])}
<1>10. 0 \in K
  BY <1>1, <1>3, <1>9
<1>11. ASSUME NEW i \in 1..N, i - 1 \in K
       PROVE  i \in K
  <2>1. Good(i - 1, loop[i - 1]) /\ i \in 0..N /\ i # 0
    BY <1>11, <1>1
  <2>2. loop[i] = Turn(i, loop[i - 1])
    BY <2>1, <1>9
  <2> QED
    BY <2>1, <2>2, <1>4
<1> HIDE DEF K
<1>12. N \in K
  BY <1>1, <1>10, <1>11, EveryTurn
<1> QED
  BY <1>12, <1>2 DEF K, Good, N
\* Each entry in S is deleted if it is a copy and loses its flow if it is not.
Unaccelerated(t, S, n, u) ==
  /\ Quiet(t, u)
  /\ DOMAIN u.fdb = {x \in DOMAIN t.fdb : x \in S /\ Seen(t, n, x) => t.fdb[x].root}
  /\ \A x \in DOMAIN u.fdb :
       u.fdb[x] = IF x \in S /\ Seen(t, n, x) THEN [t.fdb[x] EXCEPT !.flow = FALSE]
                  ELSE t.fdb[x]

\* A loop that takes back flows
LEMMA UnaccelerateDoes ==
  ASSUME NEW t, Sound(t), NEW S, S \subseteq DOMAIN t.fdb
  PROVE  Unaccelerated(t, S, t.next - 1, Unaccelerate(t, S))
<1> DEFINE N == t.next - 1
           Turn(i, u) == IF t.next - i \in S
                         THEN (IF u.fdb[t.next - i].root THEN Release(u, t.next - i)
                               ELSE DelEntry(u, t.next - i))
                         ELSE u
           Good(i, u) == Unaccelerated(t, S, i, u)
           G == [i \in 0..N |-> {u \in CallState : Good(i, u)}]
           turn == [i \in 1..N |-> [u \in G[i - 1] |-> Turn(i, u)]]
           Loop(f) == [i \in 0..N |-> IF i = 0 THEN t ELSE Turn(i, f[i - 1])]
           loop == CHOOSE f : f = Loop(f)
<1>1. t \in CallState /\ N \in Nat
  BY DEF Sound, CallState
<1>2. Unaccelerate(t, S) = loop[N]
  BY DEF Unaccelerate, ForEach
<1>3. Good(0, t)
  BY SeenNone, QuietSelf DEF Unaccelerated
<1>4. ASSUME NEW i \in 1..N, NEW u, Good(i - 1, u)
      PROVE  Good(i, Turn(i, u)) /\ Turn(i, u) \in CallState
  <2>1. i - 1 \in Nat /\ \A x \in DOMAIN t.fdb :
          /\ Seen(t, i, x) <=> Seen(t, i - 1, x) \/ x = t.next - i
          /\ x = t.next - i => ~Seen(t, i - 1, x)
    BY SeenNext
  <2>2. CASE t.next - i \in S
    <3> DEFINE id == t.next - i
               v == IF u.fdb[id].root THEN Release(u, id) ELSE DelEntry(u, id)
    <3>1. id \in DOMAIN t.fdb /\ id \in DOMAIN u.fdb /\ Sound(u) /\ u.fdb[id] = t.fdb[id]
      BY <2>1, <2>2, <1>4 DEF Unaccelerated, Quiet, Keeps
    <3> HIDE DEF id
    <3>2. /\ Quiet(u, v)
          /\ \A x \in DOMAIN u.fdb : x \in DOMAIN v.fdb <=> (x = id => t.fdb[x].root)
          /\ DOMAIN v.fdb \subseteq DOMAIN u.fdb
          /\ \A x \in DOMAIN v.fdb :
               v.fdb[x] = IF x = id THEN [u.fdb[x] EXCEPT !.flow = FALSE] ELSE u.fdb[x]
      <4>1. CASE u.fdb[id].root
        <5>1. Quiet(u, v) /\ v.fdb = [u.fdb EXCEPT ![id].flow = FALSE]
          BY <3>1, <4>1, ReleaseDoes
        <5> HIDE DEF v
        <5> QED
          BY <5>1, <3>1, <4>1
      <4>2. CASE ~u.fdb[id].root
        <5>1. Quiet(u, v) /\ DOMAIN v.fdb = DOMAIN u.fdb \ {id}
              /\ \A x \in DOMAIN v.fdb : v.fdb[x] = u.fdb[x]
          BY <3>1, <4>2, DelEntryDoes
        <5> HIDE DEF v
        <5> QED
          BY <5>1, <3>1, <4>2
      <4> QED
        BY <4>1, <4>2
    <3> HIDE DEF v
    <3>3. Quiet(t, v)
      BY <3>2, <1>4, QuietTwice DEF Unaccelerated
    <3>4. DOMAIN v.fdb = {x \in DOMAIN t.fdb : x \in S /\ Seen(t, i, x) => t.fdb[x].root}
      BY <3>1, <3>2, <2>1, <2>2, <1>4 DEF Unaccelerated, id
    <3>5. ASSUME NEW x \in DOMAIN v.fdb
          PROVE  v.fdb[x] = IF x \in S /\ Seen(t, i, x) THEN [t.fdb[x] EXCEPT !.flow = FALSE]
                            ELSE t.fdb[x]
      BY <3>1, <3>2, <2>1, <2>2, <1>4 DEF Unaccelerated, id
    <3>6. Unaccelerated(t, S, i, v) /\ v \in CallState
      BY <3>2, <3>3, <3>4, <3>5 DEF Unaccelerated, Quiet, Keeps, Sound
    <3> QED
      BY <3>6, <2>2 DEF v, id
  <2>3. CASE t.next - i \notin S
    <3>1. DOMAIN u.fdb = {x \in DOMAIN t.fdb : x \in S /\ Seen(t, i, x) => t.fdb[x].root}
      BY <2>1, <2>3, <1>4 DEF Unaccelerated
    <3>2. \A x \in DOMAIN u.fdb : x \in S => (Seen(t, i, x) <=> Seen(t, i - 1, x))
      BY <2>1, <2>3, <3>1
    <3> QED
      BY <3>1, <3>2, <2>3, <1>4 DEF Unaccelerated, Quiet, Keeps, Sound
  <2> QED
    BY <2>2, <2>3
<1> HIDE DEF Turn, Good, N
<1>5. t \in G[0]
  BY <1>1, <1>3
<1>6. ASSUME NEW i \in 1..N, NEW u \in G[i - 1]
      PROVE  turn[i][u] = Turn(i, u) /\ turn[i][u] \in G[i]
  <2>1. i - 1 \in 0..N /\ i \in 0..N
    BY <1>1
  <2> QED
    BY <2>1, <1>4
<1>7. PICK f : Computes(f, N, t, turn, G)
  <2> HIDE DEF turn, G
  <2> QED
    BY <1>1, <1>5, <1>6, LoopComputes
<1> HIDE DEF turn, G
<1>8. f = Loop(f)
  <2>1. ASSUME NEW i \in 0..N, i # 0
        PROVE  turn[i][f[i - 1]] = Turn(i, f[i - 1])
    <3>1. i \in 1..N /\ i - 1 \in 0..N
      BY <2>1, <1>1
    <3> QED
      BY <3>1, <1>6, <1>7 DEF Computes
  <2>2. f = [i \in 0..N |-> IF i = 0 THEN t ELSE turn[i][f[i - 1]]]
    BY <1>7 DEF Computes
  <2>3. \A i \in 0..N : (IF i = 0 THEN t ELSE turn[i][f[i - 1]])
                         = IF i = 0 THEN t ELSE Turn(i, f[i - 1])
    BY <2>1
  <2> QED
    BY <2>2, <2>3
<1>9. loop = Loop(loop)
  BY <1>8
<1> HIDE DEF loop
<1> DEFINE K == {i \in 0..N : Good(i, loop[i])}
<1>10. 0 \in K
  BY <1>1, <1>3, <1>9
<1>11. ASSUME NEW i \in 1..N, i - 1 \in K
       PROVE  i \in K
  <2>1. Good(i - 1, loop[i - 1]) /\ i \in 0..N /\ i # 0
    BY <1>11, <1>1
  <2>2. loop[i] = Turn(i, loop[i - 1])
    BY <2>1, <1>9
  <2> QED
    BY <2>1, <2>2, <1>4
<1> HIDE DEF K
<1>12. N \in K
  BY <1>1, <1>10, <1>11, EveryTurn
<1> QED
  BY <1>12, <1>2 DEF K, Good, N

\* The reporters an entry keeps when the first one in R goes
Left(e, R) == RemoveFirstMatch(e.reps, LAMBDA x : x \in R)

LEMMA LeftIs ==
  ASSUME NEW e \in EntryType, NEW R
  PROVE  Left(e, R) \in Seq(Rep)
<1> DEFINE s == e.reps
           I == {i \in 1..Len(s) : s[i] \in R}
<1>1. s \in Seq(Rep) /\ Len(s) \in Nat
  BY DEF EntryType
<1>2. CASE I = {}
  BY <1>1, <1>2 DEF Left, RemoveFirstMatch
<1>3. CASE I # {}
  <2> DEFINE m == Min(I)
  <2>1. I \in SUBSET Nat
    OBVIOUS
  <2>2. m \in I
    <3>1. PICK x \in I : \A y \in I : x <= y
      BY <2>1, <1>3, LeastNat, Zenon
    <3> HIDE DEF I
    <3> QED
      BY <3>1 DEF Min
  <2>3. Left(e, R) = SubSeq(s, 1, m - 1) \o SubSeq(s, m + 1, Len(s))
    BY <1>3 DEF Left, RemoveFirstMatch, RemoveAt, SelectInSeq
  <2>4. m \in 1..Len(s)
    BY <2>2
  <2> HIDE DEF m, s
  <2> QED
    BY <1>1, <2>3, <2>4
<1> QED
  BY <1>2, <1>3

\* bcm_mcast_igmp_del_entry for some reporters
LEMMA DelReporterDoes ==
  ASSUME NEW t, Sound(t), NEW id \in DOMAIN t.fdb, NEW R
  PROVE  LET u == DelReporter(t, id, R)
             left == Left(t.fdb[id], R)
         IN  /\ Quiet(t, u)
             /\ DOMAIN u.fdb = DOMAIN t.fdb \ (IF left = <<>> THEN {id} ELSE {})
             /\ \A x \in DOMAIN u.fdb :
                  u.fdb[x] = IF x = id THEN [t.fdb[x] EXCEPT !.reps = left] ELSE t.fdb[x]
<1> DEFINE left == Left(t.fdb[id], R)
           e == [t.fdb[id] EXCEPT !.reps = left]
           u == DelReporter(t, id, R)
<1>1. t.fdb[id] \in GoodEntry /\ t.fdb[id] \in EntryType /\ t \in CallState
      /\ t.fdb \in [DOMAIN t.fdb -> GoodEntry] /\ DOMAIN t.fdb \in SUBSET (Nat \ {0})
      /\ t.live \in Int /\ t.live <= Capacity
  BY EntryIs, TableIs DEF GoodEntry, Sound, CallState
<1>2. left \in Seq(Rep)
  BY <1>1, LeftIs
<1>3. CASE left = <<>>
  <2>1. u = DelEntry(t, id)
    BY <1>3 DEF DelReporter, Left
  <2> HIDE DEF u
  <2>2. /\ Quiet(t, u) /\ DOMAIN u.fdb = DOMAIN t.fdb \ {id}
        /\ \A x \in DOMAIN u.fdb : u.fdb[x] = t.fdb[x]
    BY <2>1, DelEntryDoes
  <2> QED
    BY <2>2, <1>3 DEF u
<1>4. CASE left # <<>>
  <2>1. u = [t EXCEPT !.fdb = [t.fdb EXCEPT ![id] = e]]
    BY <1>1, <1>4 DEF DelReporter, Left, CallState
  <2>2. e \in GoodEntry /\ e.flow = t.fdb[id].flow
    BY <1>1, <1>2, <1>4 DEF GoodEntry, EntryType
  <2> HIDE DEF u, e, left
  <2>3. [t.fdb EXCEPT ![id] = e] \in Tables
    <3>1. [t.fdb EXCEPT ![id] = e] \in [DOMAIN t.fdb -> GoodEntry]
      BY <1>1, <2>2
    <3> QED
      BY <3>1, <1>1, TableOf
  <2>4. u \in CallState /\ u.fdb = [t.fdb EXCEPT ![id] = e] /\ u.next = t.next
        /\ u.down = t.down /\ u.live = t.live /\ u.grant = t.grant /\ u.ret = t.ret
        /\ u.activates = t.activates /\ u.stop = t.stop
    BY <1>1, <2>1, <2>3 DEF CallState
  <2>5. u.live = t.live + (IF e.flow THEN 1 ELSE 0) - (IF t.fdb[id].flow THEN 1 ELSE 0)
    BY <1>1, <2>2, <2>4
  <2>6. Keeps(t, u)
    <3>1. u.live <= Capacity
          /\ u.live >= t.live + (IF e.flow THEN 1 ELSE 0) - (IF t.fdb[id].flow THEN 1 ELSE 0)
      BY <1>1, <2>2, <2>4, <2>5
    <3> QED
      BY <3>1, <2>2, <2>4, <2>5, PutSound
  <2>7. /\ DOMAIN u.fdb = DOMAIN t.fdb /\ u.fdb[id] = e
        /\ \A x \in DOMAIN t.fdb \ {id} : u.fdb[x] = t.fdb[x]
    BY <1>1, <2>4
  <2> QED
    BY <2>4, <2>6, <2>7, <1>4 DEF u, e, left, Quiet
<1> QED
  BY <1>3, <1>4

\* Each entry in S loses its first reporter in R, and goes with the last.
Wiped(t, S, R, n, u) ==
  /\ Quiet(t, u)
  /\ DOMAIN u.fdb
       = {x \in DOMAIN t.fdb : ~(x \in S /\ Seen(t, n, x) /\ Left(t.fdb[x], R) = <<>>)}
  /\ \A x \in DOMAIN u.fdb :
       u.fdb[x] = IF x \in S /\ Seen(t, n, x)
                  THEN [t.fdb[x] EXCEPT !.reps = Left(t.fdb[x], R)] ELSE t.fdb[x]

\* A loop that deletes reporters
LEMMA WipeDoes ==
  ASSUME NEW t, Sound(t), NEW S, S \subseteq DOMAIN t.fdb, NEW R
  PROVE  Wiped(t, S, R, t.next - 1, DelReporters(t, S, R))
<1> DEFINE N == t.next - 1
           Turn(i, u) == IF t.next - i \in S THEN DelReporter(u, t.next - i, R) ELSE u
           Good(i, u) == Wiped(t, S, R, i, u)
           G == [i \in 0..N |-> {u \in CallState : Good(i, u)}]
           turn == [i \in 1..N |-> [u \in G[i - 1] |-> Turn(i, u)]]
           Loop(f) == [i \in 0..N |-> IF i = 0 THEN t ELSE Turn(i, f[i - 1])]
           loop == CHOOSE f : f = Loop(f)
<1>1. t \in CallState /\ N \in Nat
  BY DEF Sound, CallState
<1>2. DelReporters(t, S, R) = loop[N]
  BY DEF DelReporters, ForEach
<1>3. Good(0, t)
  BY SeenNone, QuietSelf DEF Wiped
<1>4. ASSUME NEW i \in 1..N, NEW u, Good(i - 1, u)
      PROVE  Good(i, Turn(i, u)) /\ Turn(i, u) \in CallState
  <2>1. i - 1 \in Nat /\ \A x \in DOMAIN t.fdb :
          /\ Seen(t, i, x) <=> Seen(t, i - 1, x) \/ x = t.next - i
          /\ x = t.next - i => ~Seen(t, i - 1, x)
    BY SeenNext
  <2>2. CASE t.next - i \in S
    <3> DEFINE id == t.next - i
               v == DelReporter(u, id, R)
               left == Left(t.fdb[id], R)
    <3>1. id \in DOMAIN t.fdb /\ id \in DOMAIN u.fdb /\ Sound(u) /\ u.fdb[id] = t.fdb[id]
      BY <2>1, <2>2, <1>4 DEF Wiped, Quiet, Keeps
    <3> HIDE DEF id
    <3>2. /\ Quiet(u, v)
          /\ DOMAIN v.fdb = DOMAIN u.fdb \ (IF left = <<>> THEN {id} ELSE {})
          /\ \A x \in DOMAIN v.fdb :
               v.fdb[x] = IF x = id THEN [u.fdb[x] EXCEPT !.reps = left] ELSE u.fdb[x]
      BY <3>1, DelReporterDoes
    <3> HIDE DEF v
    <3>3. Quiet(t, v)
      BY <3>2, <1>4, QuietTwice DEF Wiped
    <3>4. DOMAIN v.fdb
          = {x \in DOMAIN t.fdb : ~(x \in S /\ Seen(t, i, x) /\ Left(t.fdb[x], R) = <<>>)}
      BY <3>1, <3>2, <2>1, <2>2, <1>4 DEF Wiped, id
    <3>5. ASSUME NEW x \in DOMAIN v.fdb
          PROVE  v.fdb[x] = IF x \in S /\ Seen(t, i, x)
                            THEN [t.fdb[x] EXCEPT !.reps = Left(t.fdb[x], R)] ELSE t.fdb[x]
      BY <3>1, <3>2, <2>1, <2>2, <1>4 DEF Wiped, id
    <3>6. Wiped(t, S, R, i, v) /\ v \in CallState
      BY <3>2, <3>3, <3>4, <3>5 DEF Wiped, Quiet, Keeps, Sound
    <3> QED
      BY <3>6, <2>2 DEF v, id
  <2>3. CASE t.next - i \notin S
    <3>1. DOMAIN u.fdb
          = {x \in DOMAIN t.fdb : ~(x \in S /\ Seen(t, i, x) /\ Left(t.fdb[x], R) = <<>>)}
      BY <2>1, <2>3, <1>4 DEF Wiped
    <3>2. \A x \in DOMAIN u.fdb : x \in S => (Seen(t, i, x) <=> Seen(t, i - 1, x))
      BY <2>1, <2>3, <3>1
    <3> QED
      BY <3>1, <3>2, <2>3, <1>4 DEF Wiped, Quiet, Keeps, Sound
  <2> QED
    BY <2>2, <2>3
<1> HIDE DEF Turn, Good, N
<1>5. t \in G[0]
  BY <1>1, <1>3
<1>6. ASSUME NEW i \in 1..N, NEW u \in G[i - 1]
      PROVE  turn[i][u] = Turn(i, u) /\ turn[i][u] \in G[i]
  <2>1. i - 1 \in 0..N /\ i \in 0..N
    BY <1>1
  <2> QED
    BY <2>1, <1>4
<1>7. PICK f : Computes(f, N, t, turn, G)
  <2> HIDE DEF turn, G
  <2> QED
    BY <1>1, <1>5, <1>6, LoopComputes
<1> HIDE DEF turn, G
<1>8. f = Loop(f)
  <2>1. ASSUME NEW i \in 0..N, i # 0
        PROVE  turn[i][f[i - 1]] = Turn(i, f[i - 1])
    <3>1. i \in 1..N /\ i - 1 \in 0..N
      BY <2>1, <1>1
    <3> QED
      BY <3>1, <1>6, <1>7 DEF Computes
  <2>2. f = [i \in 0..N |-> IF i = 0 THEN t ELSE turn[i][f[i - 1]]]
    BY <1>7 DEF Computes
  <2>3. \A i \in 0..N : (IF i = 0 THEN t ELSE turn[i][f[i - 1]])
                         = IF i = 0 THEN t ELSE Turn(i, f[i - 1])
    BY <2>1
  <2> QED
    BY <2>2, <2>3
<1>9. loop = Loop(loop)
  BY <1>8
<1> HIDE DEF loop
<1> DEFINE K == {i \in 0..N : Good(i, loop[i])}
<1>10. 0 \in K
  BY <1>1, <1>3, <1>9
<1>11. ASSUME NEW i \in 1..N, i - 1 \in K
       PROVE  i \in K
  <2>1. Good(i - 1, loop[i - 1]) /\ i \in 0..N /\ i # 0
    BY <1>11, <1>1
  <2>2. loop[i] = Turn(i, loop[i - 1])
    BY <2>1, <1>9
  <2> QED
    BY <2>1, <2>2, <1>4
<1> HIDE DEF K
<1>12. N \in K
  BY <1>1, <1>10, <1>11, EveryTurn
<1> QED
  BY <1>12, <1>2 DEF K, Good, N
\* An entry with reporter r
Joined(e, r) ==
  IF \E i \in DOMAIN e.reps : e.reps[i].addr = r.addr THEN e
  ELSE [e EXCEPT !.reps = Append(@, r)]

\* bcm_mcast_igmp_update for one entry
LEMMA AddReporterDoes ==
  ASSUME NEW t, Sound(t), NEW id \in DOMAIN t.fdb, NEW r \in Rep
  PROVE  LET u == AddReporter(t, id, r)
         IN  /\ Keeps(t, u) /\ DOMAIN u.fdb = DOMAIN t.fdb
             /\ \A x \in DOMAIN t.fdb \ {id} : u.fdb[x] = t.fdb[x]
             /\ u.fdb[id] \in {t.fdb[id], Joined(t.fdb[id], r)}
             /\ Ample(t.grant) => Ample(u.grant) /\ u.fdb[id] = Joined(t.fdb[id], r)
<1> DEFINE v == Take(t, 1)
           u == AddReporter(t, id, r)
           e == [t.fdb[id] EXCEPT !.reps = Append(@, r)]
           known == \E i \in DOMAIN t.fdb[id].reps : t.fdb[id].reps[i].addr = r.addr
<1>1. CASE known \/ Short(t, 1)
  <2>1. u = t
    BY <1>1 DEF AddReporter
  <2>2. Ample(t.grant) => Joined(t.fdb[id], r) = t.fdb[id]
    BY <1>1 DEF Short, Joined, Ample
  <2> HIDE DEF u
  <2> QED
    BY <2>1, <2>2, QuietSelf DEF u
<1>2. CASE ~known /\ ~Short(t, 1)
  <2>1. Keeps(t, v) /\ v.fdb = t.fdb /\ (Ample(v.grant) <=> Ample(t.grant))
    BY <1>2, TakeDoes
  <2>2. u = [v EXCEPT !.fdb[id].reps = Append(@, r)] /\ Joined(t.fdb[id], r) = e
    BY <1>2 DEF AddReporter, Joined
  <2> HIDE DEF v
  <2>3. t.fdb[id] \in EntryType /\ v \in CallState /\ v.fdb \in [DOMAIN v.fdb -> GoodEntry]
        /\ DOMAIN v.fdb \in SUBSET (Nat \ {0}) /\ v.live \in Int /\ v.live <= Capacity
        /\ Sound(v)
    BY <2>1, EntryIs, TableIs DEF Sound, CallState, Keeps
  <2>4. e \in GoodEntry /\ e.flow = t.fdb[id].flow
    <3>1. Append(t.fdb[id].reps, r) \in Seq(Rep) /\ Append(t.fdb[id].reps, r) # <<>>
      BY <2>3 DEF EntryType
    <3> QED
      BY <3>1, <2>3 DEF EntryType, GoodEntry
  <2>5. u = [v EXCEPT !.fdb = [v.fdb EXCEPT ![id] = e]]
    BY <2>1, <2>2, <2>3 DEF CallState
  <2> HIDE DEF u, e
  <2>6. [v.fdb EXCEPT ![id] = e] \in Tables
    <3>1. [v.fdb EXCEPT ![id] = e] \in [DOMAIN v.fdb -> GoodEntry]
      BY <2>3, <2>4
    <3> QED
      BY <3>1, <2>3, TableOf
  <2>7. u \in CallState /\ u.fdb = [v.fdb EXCEPT ![id] = e] /\ u.next = v.next
        /\ u.down = v.down /\ u.live = v.live /\ u.grant = v.grant
    BY <2>3, <2>5, <2>6 DEF CallState
  <2>8. u.live = v.live + (IF e.flow THEN 1 ELSE 0) - (IF v.fdb[id].flow THEN 1 ELSE 0)
    BY <2>1, <2>3, <2>4, <2>7
  <2>9. Keeps(v, u)
    <3>1. u.live <= Capacity
          /\ u.live >= v.live + (IF e.flow THEN 1 ELSE 0) - (IF v.fdb[id].flow THEN 1 ELSE 0)
      BY <2>3, <2>4, <2>7, <2>8
    <3> QED
      BY <3>1, <2>1, <2>3, <2>4, <2>7, <2>8, PutSound
  <2>10. Keeps(t, u)
    BY <2>1, <2>9 DEF Keeps
  <2>11. /\ DOMAIN u.fdb = DOMAIN t.fdb /\ u.fdb[id] = e
         /\ \A x \in DOMAIN t.fdb \ {id} : u.fdb[x] = t.fdb[x]
    BY <2>1, <2>3, <2>7
  <2> QED
    BY <2>1, <2>2, <2>7, <2>10, <2>11 DEF u, e
<1> QED
  BY <1>1, <1>2

\* Each entry in S gets reporter r, if there is memory for it.
Updated(t, S, r, n, u) ==
  /\ Keeps(t, u) /\ DOMAIN u.fdb = DOMAIN t.fdb
  /\ Ample(t.grant) => Ample(u.grant)
  /\ \A x \in DOMAIN t.fdb :
       IF x \in S /\ Seen(t, n, x)
       THEN /\ u.fdb[x] \in {t.fdb[x], Joined(t.fdb[x], r)}
            /\ Ample(t.grant) => u.fdb[x] = Joined(t.fdb[x], r)
       ELSE u.fdb[x] = t.fdb[x]

\* bcm_mcast_igmp_update
LEMMA UpdateDoes ==
  ASSUME NEW t, Sound(t), NEW s, NEW p, NEW r \in Rep, NEW S, S = Subscription(t.fdb, s, p)
  PROVE  Updated(t, S, r, t.next - 1, Update(t, s, p, r))
<1> DEFINE N == t.next - 1
           Turn(i, u) == IF t.next - i \in S THEN AddReporter(u, t.next - i, r) ELSE u
           Good(i, u) == Updated(t, S, r, i, u)
           G == [i \in 0..N |-> {u \in CallState : Good(i, u)}]
           turn == [i \in 1..N |-> [u \in G[i - 1] |-> Turn(i, u)]]
           Loop(f) == [i \in 0..N |-> IF i = 0 THEN t ELSE Turn(i, f[i - 1])]
           loop == CHOOSE f : f = Loop(f)
<1>1. t \in CallState /\ N \in Nat
  BY DEF Sound, CallState
<1>2. Update(t, s, p, r) = loop[N]
  BY DEF Update, ForEach
<1>3. Good(0, t)
  BY SeenNone, QuietSelf DEF Updated
<1>4. ASSUME NEW i \in 1..N, NEW u, Good(i - 1, u)
      PROVE  Good(i, Turn(i, u)) /\ Turn(i, u) \in CallState
  <2>1. i - 1 \in Nat /\ \A x \in DOMAIN t.fdb :
          /\ Seen(t, i, x) <=> Seen(t, i - 1, x) \/ x = t.next - i
          /\ x = t.next - i => ~Seen(t, i - 1, x)
    BY SeenNext
  <2>2. CASE t.next - i \in S
    <3> DEFINE id == t.next - i
               v == AddReporter(u, id, r)
    <3>1. id \in DOMAIN t.fdb /\ id \in DOMAIN u.fdb /\ Sound(u) /\ u.fdb[id] = t.fdb[id]
      BY <2>1, <2>2, <1>4 DEF Updated, Keeps, Subscription
    <3> HIDE DEF id
    <3>2. /\ Keeps(u, v) /\ DOMAIN v.fdb = DOMAIN u.fdb
          /\ \A x \in DOMAIN u.fdb \ {id} : v.fdb[x] = u.fdb[x]
          /\ v.fdb[id] \in {u.fdb[id], Joined(u.fdb[id], r)}
          /\ Ample(u.grant) => Ample(v.grant) /\ v.fdb[id] = Joined(u.fdb[id], r)
      BY <3>1, AddReporterDoes
    <3> HIDE DEF v
    <3>3. Keeps(t, v) /\ v \in CallState /\ DOMAIN v.fdb = DOMAIN t.fdb
          /\ (Ample(t.grant) => Ample(v.grant))
      BY <3>2, <1>4 DEF Updated, Keeps, Sound
    <3>4. ASSUME NEW x \in DOMAIN t.fdb
          PROVE  IF x \in S /\ Seen(t, i, x)
                 THEN /\ v.fdb[x] \in {t.fdb[x], Joined(t.fdb[x], r)}
                      /\ Ample(t.grant) => v.fdb[x] = Joined(t.fdb[x], r)
                 ELSE v.fdb[x] = t.fdb[x]
      <4>1. CASE x = id
        BY <4>1, <3>1, <3>2, <2>1, <2>2, <1>4 DEF Updated, id
      <4>2. CASE x # id
        <5>1. v.fdb[x] = u.fdb[x] /\ (Seen(t, i, x) <=> Seen(t, i - 1, x))
          BY <4>2, <3>1, <3>2, <2>1, <1>4 DEF Updated, id
        <5> QED
          BY <5>1, <1>4 DEF Updated
      <4> QED
        BY <4>1, <4>2
    <3>5. Updated(t, S, r, i, v)
      BY <3>3, <3>4 DEF Updated
    <3> QED
      BY <3>3, <3>5, <2>2 DEF v, id
  <2>3. CASE t.next - i \notin S
    <3>1. \A x \in DOMAIN t.fdb : x \in S => (Seen(t, i, x) <=> Seen(t, i - 1, x))
      BY <2>1, <2>3
    <3>2. Updated(t, S, r, i, u)
      BY <3>1, <1>4 DEF Updated
    <3>3. u \in CallState
      BY <1>4 DEF Updated, Keeps, Sound
    <3> QED
      BY <3>2, <3>3, <2>3
  <2> QED
    BY <2>2, <2>3
<1> HIDE DEF Turn, Good, N
<1>5. t \in G[0]
  BY <1>1, <1>3
<1>6. ASSUME NEW i \in 1..N, NEW u \in G[i - 1]
      PROVE  turn[i][u] = Turn(i, u) /\ turn[i][u] \in G[i]
  <2>1. i - 1 \in 0..N /\ i \in 0..N
    BY <1>1
  <2> QED
    BY <2>1, <1>4
<1>7. PICK f : Computes(f, N, t, turn, G)
  <2> HIDE DEF turn, G
  <2> QED
    BY <1>1, <1>5, <1>6, LoopComputes
<1> HIDE DEF turn, G
<1>8. f = Loop(f)
  <2>1. ASSUME NEW i \in 0..N, i # 0
        PROVE  turn[i][f[i - 1]] = Turn(i, f[i - 1])
    <3>1. i \in 1..N /\ i - 1 \in 0..N
      BY <2>1, <1>1
    <3> QED
      BY <3>1, <1>6, <1>7 DEF Computes
  <2>2. f = [i \in 0..N |-> IF i = 0 THEN t ELSE turn[i][f[i - 1]]]
    BY <1>7 DEF Computes
  <2>3. \A i \in 0..N : (IF i = 0 THEN t ELSE turn[i][f[i - 1]])
                         = IF i = 0 THEN t ELSE Turn(i, f[i - 1])
    BY <2>1
  <2> QED
    BY <2>2, <2>3
<1>9. loop = Loop(loop)
  BY <1>8
<1> HIDE DEF loop
<1> DEFINE K == {i \in 0..N : Good(i, loop[i])}
<1>10. 0 \in K
  BY <1>1, <1>3, <1>9
<1>11. ASSUME NEW i \in 1..N, i - 1 \in K
       PROVE  i \in K
  <2>1. Good(i - 1, loop[i - 1]) /\ i \in 0..N /\ i # 0
    BY <1>11, <1>1
  <2>2. loop[i] = Turn(i, loop[i - 1])
    BY <2>1, <1>9
  <2> QED
    BY <2>1, <2>2, <1>4
<1> HIDE DEF K
<1>12. N \in K
  BY <1>1, <1>10, <1>11, EveryTurn
<1> QED
  BY <1>12, <1>2 DEF K, Good, N
-----------------------------------------------------------------------------
(* Order among the entries.  The root entries in R are still to be processed. *)

Dark(f) == \A x \in DOMAIN f : f[x].root /\ ~f[x].flow

Waiting(f, R) == R \subseteq DOMAIN f /\ \A x \in R : f[x].root /\ ~f[x].flow
OneTag(f, R) ==
  \A x, y \in DOMAIN f \ R :
    SameRoot(f[x], f[y]) /\ f[x].flow => f[y].flow /\ f[y].lan_tci = f[x].lan_tci
CopiesKept(f, R) ==
  \A x \in DOMAIN f : ~f[x].root =>
    /\ f[x].flow
    /\ \E y \in DOMAIN f \ R :
         f[y].root /\ SameKey(f[x], f[y]) /\ f[y].reps = f[x].reps /\ f[y].flow
OneEntry(f) ==
  \A x, y \in DOMAIN f : f[x].root /\ f[y].root /\ SameKey(f[x], f[y]) => x = y
Plain(f) == MaxRules <= 1 => \A x \in DOMAIN f : f[x].root

Orderly(f, R) ==
  Waiting(f, R) /\ OneTag(f, R) /\ CopiesKept(f, R) /\ OneEntry(f) /\ Plain(f)

\* Entries that all lack flows need not be processed.
LEMMA DarkOrderly ==
  ASSUME NEW f, NEW R, Orderly(f, R), Dark(f)
  PROVE  Orderly(f, {})
BY DEF Orderly, Dark, Waiting, OneTag, CopiesKept, OneEntry, Plain

\* ... nor those that are alone on their root devices.
LEMMA AloneOrderly ==
  ASSUME NEW f, NEW R, Orderly(f, R),
         \A x \in DOMAIN f, y \in R : SameRoot(f[x], f[y]) => x \in R
  PROVE  Orderly(f, {})
<1>1. OneTag(f, {})
  BY DEF Orderly, OneTag, Waiting
<1>2. CopiesKept(f, {})
  BY DEF Orderly, CopiesKept
<1> QED
  BY <1>1, <1>2 DEF Orderly, Waiting

Closed(f, S) == \A x \in S, y \in DOMAIN f : SameKey(f[x], f[y]) => y \in S

LEMMA SameKeyIs ==
  ASSUME NEW e, NEW f
  PROVE  /\ SameKey(e, f) <=> SameKey(f, e)
         /\ SameKey(e, f) <=> e.stream = f.stream /\ e.port = f.port
         /\ SameRoot(e, f) <=> e.stream = f.stream /\ e.port.root = f.port.root
         /\ SameRoot(e, f) <=> SameRoot(f, e)
BY DEF SameKey, SameRoot, SameStream

LEMMA UnaccelerateOrderly ==
  ASSUME NEW t, Sound(t), NEW S, S \subseteq DOMAIN t.fdb, Closed(t.fdb, S), NEW R, R \subseteq S,
         NEW u, Unaccelerated(t, S, t.next - 1, u), Orderly(t.fdb, R)
  PROVE  Orderly(u.fdb, S \cap DOMAIN u.fdb)
<1> DEFINE Q == S \cap DOMAIN u.fdb
           f == t.fdb
           g == u.fdb
<1>1. /\ DOMAIN g = {x \in DOMAIN f : x \in S => f[x].root}
      /\ \A x \in DOMAIN g \ Q : g[x] = f[x] /\ x \in DOMAIN f \ R
      /\ \A x \in Q : g[x] = [f[x] EXCEPT !.flow = FALSE]
  BY SeenNone DEF Unaccelerated
<1>2. \A x \in Q : /\ g[x].root /\ ~g[x].flow /\ f[x].root
                   /\ g[x].stream = f[x].stream /\ g[x].port = f[x].port
  <2> TAKE x \in Q
  <2>1. x \in DOMAIN f /\ f[x].root /\ g[x] = [f[x] EXCEPT !.flow = FALSE]
    BY <1>1
  <2>2. f[x] \in EntryType
    BY <2>1, EntryIs
  <2> QED
    BY <2>1, <2>2 DEF EntryType
<1> HIDE DEF g, f, Q
<1>3. Waiting(g, Q)
  BY <1>2 DEF Waiting, Q, g
<1>4. OneTag(g, Q)
  BY <1>1 DEF OneTag, Orderly, f
<1>5. CopiesKept(g, Q)
  <2> SUFFICES ASSUME NEW x \in DOMAIN g, ~g[x].root
               PROVE  /\ g[x].flow
                      /\ \E y \in DOMAIN g \ Q : g[y].root /\ SameKey(g[x], g[y])
                                                 /\ g[y].reps = g[x].reps /\ g[y].flow
    BY DEF CopiesKept
  <2>1. x \notin Q /\ g[x] = f[x] /\ x \in DOMAIN f /\ x \notin S
    BY <1>1, <1>2 DEF Q, g
  <2>2. /\ f[x].flow
        /\ \E y \in DOMAIN f \ R : f[y].root /\ SameKey(f[x], f[y])
                                   /\ f[y].reps = f[x].reps /\ f[y].flow
    BY <2>1 DEF Orderly, CopiesKept, f
  <2>3. PICK y \in DOMAIN f \ R : f[y].root /\ SameKey(f[x], f[y])
                                  /\ f[y].reps = f[x].reps /\ f[y].flow
    BY <2>2
  <2>4. y \notin S
    BY <2>1, <2>3, SameKeyIs DEF Closed, f
  <2>5. y \in DOMAIN g \ Q
    BY <2>4, <2>3, <1>1 DEF Q
  <2> QED
    BY <2>1, <2>2, <2>3, <2>5, <1>1
<1>6. OneEntry(g)
  <2> SUFFICES ASSUME NEW x \in DOMAIN g, NEW y \in DOMAIN g, g[x].root, g[y].root,
                      SameKey(g[x], g[y])
               PROVE  x = y
    BY DEF OneEntry
  <2>1. \A z \in {x, y} : z \in DOMAIN f /\ f[z].root /\ f[z].stream = g[z].stream
                          /\ f[z].port = g[z].port
    BY <1>1, <1>2
  <2> QED
    BY <2>1, SameKeyIs DEF Orderly, OneEntry, f
<1>7. Plain(g)
  BY <1>1, <1>2 DEF Orderly, Plain, f
<1> QED
  BY <1>3, <1>4, <1>5, <1>6, <1>7 DEF Orderly, Q, g

LEMMA DeletedOrderly ==
  ASSUME NEW t, Sound(t), NEW S, S \subseteq DOMAIN t.fdb, Closed(t.fdb, S),
         NEW u, Deleted(t, S, t.next - 1, u), Orderly(t.fdb, {})
  PROVE  Orderly(u.fdb, {})
<1> DEFINE f == t.fdb
           g == u.fdb
<1>1. DOMAIN g = DOMAIN f \ S /\ \A x \in DOMAIN g : g[x] = f[x]
  BY SeenNone DEF Deleted
<1> HIDE DEF g, f
<1>2. Waiting(g, {}) /\ OneTag(g, {}) /\ OneEntry(g) /\ Plain(g)
  BY <1>1 DEF Waiting, OneTag, OneEntry, Plain, Orderly, f
<1>3. CopiesKept(g, {})
  <2> SUFFICES ASSUME NEW x \in DOMAIN g, ~g[x].root
               PROVE  /\ g[x].flow
                      /\ \E y \in DOMAIN g : g[y].root /\ SameKey(g[x], g[y])
                                             /\ g[y].reps = g[x].reps /\ g[y].flow
    BY DEF CopiesKept
  <2>1. f[x].flow /\ \E y \in DOMAIN f : f[y].root /\ SameKey(f[x], f[y])
                                         /\ f[y].reps = f[x].reps /\ f[y].flow
    BY <1>1 DEF Orderly, CopiesKept, f
  <2>2. PICK y \in DOMAIN f : f[y].root /\ SameKey(f[x], f[y])
                              /\ f[y].reps = f[x].reps /\ f[y].flow
    BY <2>1
  <2>3. y \notin S
    BY <2>2, <1>1, SameKeyIs DEF Closed, f
  <2> QED
    BY <2>1, <2>2, <2>3, <1>1
<1> QED
  BY <1>2, <1>3 DEF Orderly, g

LEMMA WipedOrderly ==
  ASSUME NEW t, Sound(t), NEW S, S \subseteq DOMAIN t.fdb, Closed(t.fdb, S), NEW R,
         NEW u, Wiped(t, S, R, t.next - 1, u), Orderly(t.fdb, {})
  PROVE  Orderly(u.fdb, {})
<1> DEFINE f == t.fdb
           g == u.fdb
<1>1. /\ DOMAIN g = {x \in DOMAIN f : ~(x \in S /\ Left(f[x], R) = <<>>)}
      /\ \A x \in DOMAIN g : g[x] = IF x \in S THEN [f[x] EXCEPT !.reps = Left(f[x], R)] ELSE f[x]
  BY SeenNone DEF Wiped
<1>2. \A x \in DOMAIN g :
        /\ x \in DOMAIN f
        /\ g[x].stream = f[x].stream /\ g[x].port = f[x].port /\ g[x].root = f[x].root
        /\ g[x].flow = f[x].flow /\ g[x].lan_tci = f[x].lan_tci
        /\ g[x].reps = IF x \in S THEN Left(f[x], R) ELSE f[x].reps
  <2> TAKE x \in DOMAIN g
  <2>1. x \in DOMAIN f
    BY <1>1
  <2>2. f[x] \in EntryType
    BY <2>1, EntryIs
  <2>3. g[x] = IF x \in S THEN [f[x] EXCEPT !.reps = Left(f[x], R)] ELSE f[x]
    BY <1>1
  <2> HIDE DEF f, g
  <2> QED
    BY <2>1, <2>2, <2>3 DEF EntryType
<1> HIDE DEF g, f
<1>3. Waiting(g, {}) /\ OneEntry(g) /\ Plain(g)
  BY <1>2, SameKeyIs DEF Waiting, OneEntry, Plain, Orderly, f
<1>4. OneTag(g, {})
  BY <1>2, SameKeyIs DEF OneTag, Orderly, f
<1>5. CopiesKept(g, {})
  <2> SUFFICES ASSUME NEW x \in DOMAIN g, ~g[x].root
               PROVE  /\ g[x].flow
                      /\ \E y \in DOMAIN g : g[y].root /\ SameKey(g[x], g[y])
                                             /\ g[y].reps = g[x].reps /\ g[y].flow
    BY DEF CopiesKept
  <2>1. f[x].flow /\ \E y \in DOMAIN f : f[y].root /\ SameKey(f[x], f[y])
                                         /\ f[y].reps = f[x].reps /\ f[y].flow
    BY <1>2 DEF Orderly, CopiesKept, f
  <2>2. PICK y \in DOMAIN f : f[y].root /\ SameKey(f[x], f[y])
                              /\ f[y].reps = f[x].reps /\ f[y].flow
    BY <2>1
  <2>3. y \in S <=> x \in S
    BY <2>2, <1>2, SameKeyIs DEF Closed, f
  <2>4. Left(f[y], R) = Left(f[x], R)
    BY <2>2 DEF Left
  <2>5. y \in DOMAIN g
    BY <2>3, <2>4, <1>1
  <2>6. SameKey(g[x], g[y]) /\ g[y].reps = g[x].reps
    BY <2>2, <2>3, <2>4, <2>5, <1>2, SameKeyIs
  <2> QED
    BY <2>1, <2>2, <2>5, <2>6, <1>2
<1> QED
  BY <1>3, <1>4, <1>5 DEF Orderly, g

LEMMA UpdatedOrderly ==
  ASSUME NEW t, Sound(t), NEW s, NEW p, NEW S, S = Subscription(t.fdb, s, p), NEW r \in Rep,
         NEW u, Updated(t, S, r, t.next - 1, u), Orderly(t.fdb, {}), NeverShort(t)
  PROVE  Orderly(u.fdb, {})
<1> DEFINE f == t.fdb
           g == u.fdb
<1>1. /\ DOMAIN g = DOMAIN f
      /\ \A x \in DOMAIN f :
           IF x \in S
           THEN /\ g[x] \in {f[x], Joined(f[x], r)}
                /\ Ample(t.grant) => g[x] = Joined(f[x], r)
           ELSE g[x] = f[x]
  BY SeenNone DEF Updated
<1>2. \A x \in DOMAIN f :
        /\ g[x].stream = f[x].stream /\ g[x].port = f[x].port /\ g[x].root = f[x].root
        /\ g[x].flow = f[x].flow /\ g[x].lan_tci = f[x].lan_tci
  <2>1. ASSUME NEW e \in EntryType
        PROVE  LET j == Joined(e, r)
               IN  /\ j.stream = e.stream /\ j.port = e.port /\ j.root = e.root
                   /\ j.flow = e.flow /\ j.lan_tci = e.lan_tci
    BY DEF EntryType, Joined
  <2> QED
    BY <2>1, <1>1, EntryIs
<1>3. ASSUME NEW x \in DOMAIN f, NEW y \in DOMAIN f, SameKey(f[x], f[y]),
             f[y].reps = f[x].reps, Ample(t.grant)
      PROVE  g[y].reps = g[x].reps
  <2>1. x \in S <=> y \in S
    BY <1>3, SameKeyIs DEF Subscription
  <2>2. Joined(f[x], r).reps = Joined(f[y], r).reps
    BY <1>3, EntryIs DEF Joined, EntryType
  <2> QED
    BY <2>1, <2>2, <1>1, <1>3
<1> HIDE DEF g, f
<1>4. Waiting(g, {}) /\ OneEntry(g) /\ Plain(g)
  BY <1>1, <1>2, SameKeyIs DEF Waiting, OneEntry, Plain, Orderly, f
<1>5. OneTag(g, {})
  BY <1>1, <1>2, SameKeyIs DEF OneTag, Orderly, f
<1>6. CopiesKept(g, {})
  <2> SUFFICES ASSUME NEW x \in DOMAIN g, ~g[x].root
               PROVE  /\ g[x].flow
                      /\ \E y \in DOMAIN g : g[y].root /\ SameKey(g[x], g[y])
                                             /\ g[y].reps = g[x].reps /\ g[y].flow
    BY DEF CopiesKept
  <2>1. x \in DOMAIN f /\ ~f[x].root
    BY <1>1, <1>2
  <2>2. f[x].flow /\ \E y \in DOMAIN f : f[y].root /\ SameKey(f[x], f[y])
                                         /\ f[y].reps = f[x].reps /\ f[y].flow
    BY <2>1 DEF Orderly, CopiesKept, f
  <2>3. PICK y \in DOMAIN f : f[y].root /\ SameKey(f[x], f[y])
                              /\ f[y].reps = f[x].reps /\ f[y].flow
    BY <2>2
  <2>4. Ample(t.grant)
    BY <2>1 DEF NeverShort, Orderly, Plain, f
  <2>5. g[y].reps = g[x].reps
    BY <2>1, <2>3, <2>4, <1>3
  <2>6. SameKey(g[x], g[y])
    BY <2>1, <2>3, <1>2, SameKeyIs
  <2> QED
    BY <2>1, <2>2, <2>3, <2>5, <2>6, <1>1, <1>2
<1> QED
  BY <1>4, <1>5, <1>6 DEF Orderly, g
-----------------------------------------------------------------------------
(* Processing entries again                                                *)

\* bcm_mcast_igmp_del_entry, also of an entry that is gone
LEMMA DelAnyDoes ==
  ASSUME NEW t, Sound(t), NEW id
  PROVE  LET u == DelEntry(t, id)
         IN  /\ Sound(u) /\ (Exact(t) => Exact(u))
             /\ u.next = t.next /\ u.grant = t.grant /\ u.ret = t.ret
             /\ DOMAIN u.fdb = DOMAIN t.fdb \ {id}
             /\ \A x \in DOMAIN u.fdb : u.fdb[x] = t.fdb[x]
<1> DEFINE u == DelEntry(t, id)
<1>1. CASE id \in DOMAIN t.fdb
  BY <1>1, DelEntryDoes DEF Quiet, Keeps
<1>2. CASE id \notin DOMAIN t.fdb
  <2>1. u = [t EXCEPT !.down = TRUE]
    BY <1>2 DEF DelEntry
  <2> HIDE DEF u
  <2>2. u \in CallState /\ u.fdb = t.fdb /\ u.next = t.next /\ u.live = t.live /\ u.grant = t.grant
        /\ u.ret = t.ret
    BY <2>1 DEF Sound, CallState
  <2>3. Sound(u) /\ (Exact(t) => Exact(u))
    BY <2>2 DEF Sound, Exact
  <2> QED
    BY <2>2, <2>3, <1>2 DEF u
<1> QED
  BY <1>1, <1>2

\* What a call does to the entries when entry id may come to any end
Others(t, u, id) ==
  /\ Sound(u) /\ u.next >= t.next
  /\ Ample(t.grant) => Ample(u.grant)
  /\ \A x \in DOMAIN u.fdb : x < t.next => x \in DOMAIN t.fdb
  /\ \A x \in DOMAIN t.fdb \ {id} : x \in DOMAIN u.fdb /\ u.fdb[x] = t.fdb[x]
  /\ ~blog_enable => u.fdb = t.fdb /\ u.next = t.next /\ u.down = t.down
  /\ Exact(t) /\ ~t.fdb[id].flow => Exact(u)

\* One turn of bcm_mcast_igmp_update_bydev
LEMMA ReactivateDoes ==
  ASSUME Settings, NEW t, Sound(t), NEW id \in DOMAIN t.fdb, t.fdb[id].root
  PROVE  Others(t, Reactivate(t, id), id)
<1> DEFINE u == BlogProcess(t, id)
           w == DelEntry(u, id)
<1>1. Processed(t, u, id)
  BY BlogProcessDoes
<1> HIDE DEF u
<1>2. CASE u.ret < 0
  <2>1. /\ Sound(w) /\ (Exact(u) => Exact(w)) /\ w.next = u.next /\ w.grant = u.grant
        /\ DOMAIN w.fdb = DOMAIN u.fdb \ {id}
        /\ \A x \in DOMAIN w.fdb : w.fdb[x] = u.fdb[x]
    BY <1>1, DelAnyDoes DEF Processed, AddsCopies
  <2>2. Reactivate(t, id) = w
    BY <1>2 DEF Reactivate, u
  <2>3. blog_enable
    BY <1>1, <1>2 DEF Processed
  <2> HIDE DEF w
  <2>4. Others(t, w, id)
    BY <2>1, <2>3, <1>1 DEF Processed, AddsCopies, Others
  <2> QED
    BY <2>2, <2>4
<1>3. CASE ~(u.ret < 0)
  <2>1. Reactivate(t, id) = u
    BY <1>3 DEF Reactivate, u
  <2>2. Others(t, u, id)
    BY <1>1 DEF Processed, AddsCopies, Others
  <2> QED
    BY <2>1, <2>2
<1> QED
  BY <1>2, <1>3

\* ... brings order to the entry it processes, or deletes it.
LEMMA ReactivateOrderly ==
  ASSUME Settings, NEW t, Sound(t), NEW R, NEW id \in R, Orderly(t.fdb, R), NeverShort(t),
         blog_enable
  PROVE  LET v == Reactivate(t, id) IN Orderly(v.fdb, R \ {id}) /\ v.down = t.down
<1> DEFINE u == BlogProcess(t, id)
           f == t.fdb
           Q == R \ {id}
<1>1. id \in DOMAIN f /\ f[id].root /\ ~f[id].flow /\ R \subseteq DOMAIN f
      /\ \A x \in R : f[x].root /\ ~f[x].flow
  BY DEF Orderly, Waiting
<1>2. Processed(t, u, id) /\ ProcessedSure(t, u, id)
  BY <1>1, BlogProcessDoes
<1> HIDE DEF u
<1>3. u.ret \in {0, -1, -2} /\ Sound(u)
  BY <1>2 DEF Processed, AddsCopies, Sound, CallState
<1>4. CASE u.ret # 0
  <2> DEFINE w == DelEntry(u, id)
             g == w.fdb
  <2>1. DOMAIN g = DOMAIN u.fdb \ {id} /\ \A x \in DOMAIN g : g[x] = u.fdb[x]
    BY <1>3, DelAnyDoes
  <2>7. w.down = t.down
    <3>1. id \in DOMAIN u.fdb /\ u.down = t.down
      BY <1>2 DEF Processed, AddsCopies, ProcessedSure
    <3> QED
      BY <3>1, <1>3, DelEntryDoes DEF Quiet, Keeps
  <2>2. Reactivate(t, id) = w
    BY <1>3, <1>4 DEF Reactivate, u
  <2> HIDE DEF w
  <2>3. DOMAIN g = DOMAIN f \ {id} /\ \A x \in DOMAIN g : g[x] = f[x]
    BY <2>1, <1>2, <1>4 DEF Processed, AddsCopies, ProcessedSure
  <2> HIDE DEF g, f
  <2>4. Waiting(g, Q) /\ OneEntry(g) /\ Plain(g)
    BY <2>3, <1>1 DEF Waiting, OneEntry, Plain, Orderly, f
  <2>5. OneTag(g, Q)
    BY <2>3 DEF OneTag, Orderly, f
  <2>6. CopiesKept(g, Q)
    BY <2>3 DEF CopiesKept, Orderly, f
  <2> QED
    BY <2>2, <2>4, <2>5, <2>6, <2>7 DEF Orderly, g
<1>5. CASE u.ret = 0
  <2> DEFINE g == u.fdb
             made == {x \in DOMAIN g : x = id \/ x \notin DOMAIN f}
  <2>1. Reactivate(t, id) = u /\ u.down = t.down
    BY <1>2, <1>5 DEF Reactivate, u, Processed, AddsCopies
  <2>2. /\ id \in DOMAIN g /\ g[id].flow /\ FullCopies(t, u, g, id)
        /\ Agrees(f, id, g[id].lan_tci) /\ g[id].root /\ SameSubscription(g[id], f[id])
        /\ \A x \in DOMAIN f \ {id} : x \in DOMAIN g /\ g[x] = f[x]
        /\ MaxRules <= 1 => DOMAIN g = DOMAIN f
    BY <1>2, <1>5 DEF Processed, ProcessedSure, AddsCopies
  <2>3. ASSUME NEW x \in made
        PROVE  /\ g[x].flow /\ g[x].lan_tci = g[id].lan_tci
               /\ SameSubscription(g[x], f[id])
               /\ x # id => ~g[x].root
    <3>1. CASE x = id
      BY <3>1, <2>2
    <3>2. CASE x # id
      <4>1. x >= t.next
        <5>1. x < t.next => x \in DOMAIN f
          BY <1>2 DEF Processed, AddsCopies
        <5>2. x \in Nat /\ t.next \in Nat
          BY <1>3, EntryIs DEF Sound, CallState
        <5> QED
          BY <5>1, <5>2, <3>2
      <4>2. Alike(g[x], g[id]) /\ g[x].flow
        BY <4>1, <2>2 DEF FullCopies
      <4>3. ~g[x].root
        BY <4>1, <1>2 DEF Processed, AddsCopies
      <4> QED
        BY <4>2, <4>3, <2>2 DEF Alike, SameSubscription
    <3> QED
      BY <3>1, <3>2
  <2>4. \A x \in DOMAIN g \ made : x \in DOMAIN f \ {id} /\ g[x] = f[x]
    BY <2>2
  <2>5. \A x \in made : x \notin Q
    BY <1>1
  <2> HIDE DEF g, f, made
  <2>6. Waiting(g, Q)
    BY <2>2, <1>1 DEF Waiting
  <2>7. OneTag(g, Q)
    <3> SUFFICES ASSUME NEW x \in DOMAIN g \ Q, NEW y \in DOMAIN g \ Q,
                        SameRoot(g[x], g[y]), g[x].flow
                 PROVE  g[y].flow /\ g[y].lan_tci = g[x].lan_tci
      BY DEF OneTag
    <3>1. CASE x \in made /\ y \in made
      BY <3>1, <2>3
    <3>2. CASE x \in made /\ y \notin made
      <4>1. SameRoot(f[id], f[y]) /\ y \in DOMAIN f \ {id}
        BY <3>2, <2>3, <2>4, SameKeyIs DEF SameSubscription
      <4> QED
        BY <4>1, <3>2, <2>2, <2>3, <2>4 DEF Agrees
    <3>3. CASE x \notin made /\ y \in made
      <4>1. SameRoot(f[id], f[x]) /\ x \in DOMAIN f \ {id}
        BY <3>3, <2>3, <2>4, SameKeyIs DEF SameSubscription
      <4> QED
        BY <4>1, <3>3, <2>2, <2>3, <2>4 DEF Agrees
    <3>4. CASE x \notin made /\ y \notin made
      BY <3>4, <2>4 DEF OneTag, Orderly, f
    <3> QED
      BY <3>1, <3>2, <3>3, <3>4
  <2>8. CopiesKept(g, Q)
    <3> SUFFICES ASSUME NEW x \in DOMAIN g, ~g[x].root
                 PROVE  /\ g[x].flow
                        /\ \E y \in DOMAIN g \ Q : g[y].root /\ SameKey(g[x], g[y])
                                                   /\ g[y].reps = g[x].reps /\ g[y].flow
      BY DEF CopiesKept
    <3>1. CASE x \in made
      <4>1. SameKey(g[x], g[id]) /\ g[id].reps = g[x].reps
        BY <3>1, <2>2, <2>3, SameKeyIs DEF SameSubscription
      <4> QED
        BY <4>1, <3>1, <2>2, <2>3
    <3>2. CASE x \notin made
      <4>1. x \in DOMAIN f /\ g[x] = f[x]
        BY <3>2, <2>4
      <4>2. f[x].flow /\ \E y \in DOMAIN f \ R : f[y].root /\ SameKey(f[x], f[y])
                                                /\ f[y].reps = f[x].reps /\ f[y].flow
        BY <4>1 DEF Orderly, CopiesKept, f
      <4>3. PICK y \in DOMAIN f \ R : f[y].root /\ SameKey(f[x], f[y])
                                      /\ f[y].reps = f[x].reps /\ f[y].flow
        BY <4>2
      <4> QED
        BY <4>1, <4>2, <4>3, <2>2
    <3> QED
      BY <3>1, <3>2
  <2>9. OneEntry(g)
    <3> SUFFICES ASSUME NEW x \in DOMAIN g, NEW y \in DOMAIN g, g[x].root, g[y].root,
                        SameKey(g[x], g[y])
                 PROVE  x = y
      BY DEF OneEntry
    <3>1. \A z \in {x, y} : z \in DOMAIN f /\ f[z].root /\ f[z].stream = g[z].stream
                            /\ f[z].port = g[z].port
      BY <2>2, <2>3, <2>4, <1>1 DEF SameSubscription
    <3> QED
      BY <3>1, SameKeyIs DEF Orderly, OneEntry, f
  <2>10. Plain(g)
    BY <2>2 DEF Orderly, Plain, f
  <2> QED
    BY <2>1, <2>6, <2>7, <2>8, <2>9, <2>10 DEF Orderly, g
<1> QED
  BY <1>4, <1>5

\* The entries in S are processed.
Reactivated(t, S, n, u) ==
  /\ Sound(u) /\ u.next >= t.next
  /\ \A x \in DOMAIN t.fdb :
       (x \in S /\ Seen(t, n, x)) \/ (x \in DOMAIN u.fdb /\ u.fdb[x] = t.fdb[x])
  /\ ~blog_enable => u.fdb = t.fdb /\ u.down = t.down
  /\ Exact(t) /\ (\A x \in S : ~t.fdb[x].flow) => Exact(u)
  /\ NeverShort(t) /\ blog_enable /\ Orderly(t.fdb, S) =>
       /\ NeverShort(u) /\ u.down = t.down
       /\ Orderly(u.fdb, {x \in S : ~Seen(t, n, x)})

\* bcm_mcast_igmp_update_bydev
LEMMA ReactivatedDoes ==
  ASSUME Settings, NEW t, Sound(t), NEW S, S \subseteq DOMAIN t.fdb,
         \A x \in S : t.fdb[x].root
  PROVE  Reactivated(t, S, t.next - 1, ForEach(t, S, Reactivate))
<1> DEFINE N == t.next - 1
           Turn(i, u) == IF t.next - i \in S THEN Reactivate(u, t.next - i) ELSE u
           Good(i, u) == Reactivated(t, S, i, u)
           G == [i \in 0..N |-> {u \in CallState : Good(i, u)}]
           turn == [i \in 1..N |-> [u \in G[i - 1] |-> Turn(i, u)]]
           Loop(f) == [i \in 0..N |-> IF i = 0 THEN t ELSE Turn(i, f[i - 1])]
           loop == CHOOSE f : f = Loop(f)
<1>1. t \in CallState /\ N \in Nat
  BY DEF Sound, CallState
<1>2. ForEach(t, S, Reactivate) = loop[N]
  BY DEF ForEach
<1>3. Good(0, t)
  <2>1. {x \in S : ~Seen(t, 0, x)} = S
    BY SeenNone
  <2>2. t.next >= t.next
    BY DEF Sound, CallState
  <2> QED
    BY <2>1, <2>2 DEF Reactivated
<1>4. ASSUME NEW i \in 1..N, NEW u, Good(i - 1, u)
      PROVE  Good(i, Turn(i, u)) /\ Turn(i, u) \in CallState
  <2>1. i - 1 \in Nat /\ \A x \in DOMAIN t.fdb :
          /\ Seen(t, i, x) <=> Seen(t, i - 1, x) \/ x = t.next - i
          /\ x = t.next - i => ~Seen(t, i - 1, x)
    BY SeenNext
  <2>2. u \in CallState
    BY <1>4 DEF Reactivated, Sound
  <2>3. CASE t.next - i \in S
    <3> DEFINE id == t.next - i
               v == Reactivate(u, id)
               R == {x \in S : ~Seen(t, i - 1, x)}
    <3>1. id \in DOMAIN t.fdb /\ id \in DOMAIN u.fdb /\ Sound(u) /\ u.fdb[id] = t.fdb[id]
          /\ id \in R /\ id \in S /\ u.fdb[id].root
      BY <2>1, <2>3, <1>4 DEF Reactivated
    <3>2. {x \in S : ~Seen(t, i, x)} = R \ {id}
      BY <2>1
    <3>3. \A x \in DOMAIN t.fdb \ {id} : Seen(t, i, x) <=> Seen(t, i - 1, x)
      BY <2>1
    <3>4. Seen(t, i, id)
      BY <2>1, <3>1
    <3> HIDE DEF id, R
    <3>5. Others(u, v, id)
      BY <3>1, ReactivateDoes
    <3>6. NeverShort(u) /\ blog_enable /\ Orderly(u.fdb, R)
            => Orderly(v.fdb, R \ {id}) /\ v.down = u.down
      BY <3>1, ReactivateOrderly
    <3> HIDE DEF v
    <3>7. Sound(v) /\ v.next >= t.next /\ v \in CallState
      <4>1. t.next \in Int /\ u.next \in Int /\ v.next \in Int
        BY <2>2, <1>1, <3>5 DEF CallState, Others, Sound
      <4> QED
        BY <4>1, <3>5, <1>4 DEF Others, Sound, Reactivated
    <3>8. ASSUME NEW x \in DOMAIN t.fdb, ~(x \in S /\ Seen(t, i, x))
          PROVE  x \in DOMAIN v.fdb /\ v.fdb[x] = t.fdb[x]
      <4>1. x # id /\ ~(x \in S /\ Seen(t, i - 1, x))
        BY <3>8, <3>3, <3>4, <2>3 DEF id
      <4>2. x \in DOMAIN u.fdb /\ u.fdb[x] = t.fdb[x]
        BY <4>1, <1>4 DEF Reactivated
      <4> QED
        BY <4>1, <4>2, <3>5 DEF Others
    <3>9. /\ ~blog_enable => v.fdb = t.fdb /\ v.down = t.down
          /\ Exact(t) /\ (\A x \in S : ~t.fdb[x].flow) => Exact(v)
      BY <3>1, <3>5, <1>4 DEF Others, Reactivated
    <3>10. ASSUME NeverShort(t), blog_enable, Orderly(t.fdb, S)
           PROVE  NeverShort(v) /\ v.down = t.down /\ Orderly(v.fdb, R \ {id})
      <4>1. NeverShort(u) /\ u.down = t.down /\ Orderly(u.fdb, R)
        BY <3>10, <1>4 DEF Reactivated, R
      <4> QED
        BY <4>1, <3>5, <3>6, <3>10 DEF NeverShort, Others
    <3>11. Reactivated(t, S, i, v)
      <4>1. \A x \in DOMAIN t.fdb :
              (x \in S /\ Seen(t, i, x)) \/ (x \in DOMAIN v.fdb /\ v.fdb[x] = t.fdb[x])
        BY <3>8
      <4>2. NeverShort(t) /\ blog_enable /\ Orderly(t.fdb, S) =>
              NeverShort(v) /\ v.down = t.down /\ Orderly(v.fdb, {x \in S : ~Seen(t, i, x)})
        BY <3>2, <3>10
      <4> QED
        BY <4>1, <4>2, <3>7, <3>9 DEF Reactivated
    <3> QED
      BY <3>7, <3>11, <2>3 DEF v, id
  <2>4. CASE t.next - i \notin S
    <3>1. \A x \in S : Seen(t, i, x) <=> Seen(t, i - 1, x)
      BY <2>1, <2>4
    <3>2. {x \in S : ~Seen(t, i, x)} = {x \in S : ~Seen(t, i - 1, x)}
      BY <3>1
    <3>3. Reactivated(t, S, i, u)
      BY <3>1, <3>2, <1>4 DEF Reactivated
    <3> QED
      BY <3>3, <2>2, <2>4
  <2> QED
    BY <2>3, <2>4
<1> HIDE DEF Turn, Good, N
<1>5. t \in G[0]
  BY <1>1, <1>3
<1>6. ASSUME NEW i \in 1..N, NEW u \in G[i - 1]
      PROVE  turn[i][u] = Turn(i, u) /\ turn[i][u] \in G[i]
  <2>1. i - 1 \in 0..N /\ i \in 0..N
    BY <1>1
  <2> QED
    BY <2>1, <1>4
<1>7. PICK f : Computes(f, N, t, turn, G)
  <2> HIDE DEF turn, G
  <2> QED
    BY <1>1, <1>5, <1>6, LoopComputes
<1> HIDE DEF turn, G
<1>8. f = Loop(f)
  <2>1. ASSUME NEW i \in 0..N, i # 0
        PROVE  turn[i][f[i - 1]] = Turn(i, f[i - 1])
    <3>1. i \in 1..N /\ i - 1 \in 0..N
      BY <2>1, <1>1
    <3> QED
      BY <3>1, <1>6, <1>7 DEF Computes
  <2>2. f = [i \in 0..N |-> IF i = 0 THEN t ELSE turn[i][f[i - 1]]]
    BY <1>7 DEF Computes
  <2>3. \A i \in 0..N : (IF i = 0 THEN t ELSE turn[i][f[i - 1]])
                         = IF i = 0 THEN t ELSE Turn(i, f[i - 1])
    BY <2>1
  <2> QED
    BY <2>2, <2>3
<1>9. loop = Loop(loop)
  BY <1>8
<1> HIDE DEF loop
<1> DEFINE K == {i \in 0..N : Good(i, loop[i])}
<1>10. 0 \in K
  BY <1>1, <1>3, <1>9
<1>11. ASSUME NEW i \in 1..N, i - 1 \in K
       PROVE  i \in K
  <2>1. Good(i - 1, loop[i - 1]) /\ i \in 0..N /\ i # 0
    BY <1>11, <1>1
  <2>2. loop[i] = Turn(i, loop[i - 1])
    BY <2>1, <1>9
  <2> QED
    BY <2>1, <2>2, <1>4
<1> HIDE DEF K
<1>12. N \in K
  BY <1>1, <1>10, <1>11, EveryTurn
<1> QED
  BY <1>12, <1>2 DEF K, Good, N
-----------------------------------------------------------------------------
(* What the calls do                                                       *)

\* No root entry goes, and none loses a reporter.
KeepsRoots(f, g) ==
  \A x \in DOMAIN f : f[x].root =>
    /\ x \in DOMAIN g /\ g[x].root /\ g[x].stream = f[x].stream /\ g[x].port = f[x].port
    /\ \A j \in DOMAIN f[x].reps : j \in DOMAIN g[x].reps /\ g[x].reps[j] = f[x].reps[j]

LEMMA SubscribersKept ==
  ASSUME NEW f, NEW g, KeepsRoots(f, g)
  PROVE  SubscribersOf(f) \subseteq SubscribersOf(g)
<1> SUFFICES ASSUME NEW x \in DOMAIN f, f[x].root, NEW j \in DOMAIN f[x].reps
             PROVE  <<f[x].stream, f[x].port, f[x].reps[j]>> \in SubscribersOf(g)
  BY DEF SubscribersOf
<1>1. /\ x \in DOMAIN g /\ g[x].root /\ g[x].stream = f[x].stream /\ g[x].port = f[x].port
      /\ j \in DOMAIN g[x].reps /\ g[x].reps[j] = f[x].reps[j]
  BY DEF KeepsRoots
<1>2. <<g[x].stream, g[x].port, g[x].reps[j]>> \in
        {<<g[x].stream, g[x].port, g[x].reps[i]>> : i \in DOMAIN g[x].reps}
  BY <1>1
<1> QED
  BY <1>1, <1>2 DEF SubscribersOf

LEMMA KeepsRootsTwice ==
  ASSUME NEW f, NEW g, NEW h, KeepsRoots(f, g), KeepsRoots(g, h)
  PROVE  KeepsRoots(f, h)
<1> SUFFICES ASSUME NEW x \in DOMAIN f, f[x].root
             PROVE  /\ x \in DOMAIN h /\ h[x].root /\ h[x].stream = f[x].stream
                    /\ h[x].port = f[x].port
                    /\ \A j \in DOMAIN f[x].reps :
                         j \in DOMAIN h[x].reps /\ h[x].reps[j] = f[x].reps[j]
  BY DEF KeepsRoots
<1>1. /\ x \in DOMAIN g /\ g[x].root /\ g[x].stream = f[x].stream /\ g[x].port = f[x].port
      /\ \A j \in DOMAIN f[x].reps : j \in DOMAIN g[x].reps /\ g[x].reps[j] = f[x].reps[j]
  BY DEF KeepsRoots
<1>2. /\ x \in DOMAIN h /\ h[x].root /\ h[x].stream = g[x].stream /\ h[x].port = g[x].port
      /\ \A j \in DOMAIN g[x].reps : j \in DOMAIN h[x].reps /\ h[x].reps[j] = g[x].reps[j]
  BY <1>1 DEF KeepsRoots
<1> QED
  BY <1>1, <1>2

\* What a call does whatever the VLAN rules are and the memory is
Harmless(t, u) ==
  /\ Sound(u)
  /\ Exact(t) => Exact(u)
  /\ ~blog_enable /\ Dark(t.fdb) => Dark(u.fdb)

LEMMA DeletedDoes ==
  ASSUME NEW t, Sound(t), NEW S, S \subseteq DOMAIN t.fdb
  PROVE  LET u == ForEach(t, S, DelEntry)
         IN  /\ Harmless(t, u) /\ u.down = t.down
             /\ Closed(t.fdb, S) /\ Orderly(t.fdb, {}) => Orderly(u.fdb, {})
<1> DEFINE u == ForEach(t, S, DelEntry)
<1>1. Deleted(t, S, t.next - 1, u)
  BY DelLoop
<1> HIDE DEF u
<1>2. Harmless(t, u) /\ u.down = t.down
  BY <1>1 DEF Deleted, Quiet, Keeps, Harmless, Dark
<1>3. Closed(t.fdb, S) /\ Orderly(t.fdb, {}) => Orderly(u.fdb, {})
  BY <1>1, DeletedOrderly
<1> QED
  BY <1>2, <1>3 DEF u

LEMMA WipedDoes ==
  ASSUME NEW t, Sound(t), NEW S, S \subseteq DOMAIN t.fdb, NEW R
  PROVE  LET u == DelReporters(t, S, R)
         IN  /\ Harmless(t, u) /\ u.down = t.down
             /\ Closed(t.fdb, S) /\ Orderly(t.fdb, {}) => Orderly(u.fdb, {})
<1> DEFINE u == DelReporters(t, S, R)
<1>1. Wiped(t, S, R, t.next - 1, u)
  BY WipeDoes
<1> HIDE DEF u
<1>2. ASSUME Dark(t.fdb)
      PROVE  Dark(u.fdb)
  <2>1. \A x \in DOMAIN u.fdb : x \in DOMAIN t.fdb
    BY <1>1 DEF Wiped
  <2>2. ASSUME NEW x \in DOMAIN u.fdb
        PROVE  u.fdb[x].root = t.fdb[x].root /\ u.fdb[x].flow = t.fdb[x].flow
    <3>1. t.fdb[x] \in EntryType
      BY <2>1, EntryIs
    <3> QED
      BY <3>1, <1>1 DEF Wiped, EntryType
  <2> QED
    BY <2>1, <2>2, <1>2 DEF Dark
<1>3. Harmless(t, u) /\ u.down = t.down
  BY <1>1, <1>2 DEF Wiped, Quiet, Keeps, Harmless
<1>4. Closed(t.fdb, S) /\ Orderly(t.fdb, {}) => Orderly(u.fdb, {})
  BY <1>1, WipedOrderly
<1> QED
  BY <1>3, <1>4 DEF u

LEMMA UpdatedDoes ==
  ASSUME NEW t, Sound(t), NEW s, NEW p, NEW r \in Rep
  PROVE  LET u == Update(t, s, p, r)
         IN  /\ Harmless(t, u) /\ u.down = t.down /\ KeepsRoots(t.fdb, u.fdb)
             /\ NeverShort(t) /\ Orderly(t.fdb, {}) => Orderly(u.fdb, {})
<1> DEFINE u == Update(t, s, p, r)
           S == Subscription(t.fdb, s, p)
<1>1. Updated(t, S, r, t.next - 1, u)
  BY UpdateDoes
<1> HIDE DEF u, S
<1>2. ASSUME NEW e \in EntryType
      PROVE  LET j == Joined(e, r)
             IN  /\ j.stream = e.stream /\ j.port = e.port /\ j.root = e.root /\ j.flow = e.flow
                 /\ \A i \in DOMAIN e.reps : i \in DOMAIN j.reps /\ j.reps[i] = e.reps[i]
  <2>1. /\ e.reps \in Seq(Rep) /\ Append(e.reps, r) \in Seq(Rep)
        /\ \A i \in DOMAIN e.reps : i \in DOMAIN Append(e.reps, r) /\ Append(e.reps, r)[i] = e.reps[i]
    BY DEF EntryType
  <2> QED
    BY <2>1 DEF EntryType, Joined
<1>3. \A x \in DOMAIN t.fdb :
        /\ u.fdb[x].stream = t.fdb[x].stream /\ u.fdb[x].port = t.fdb[x].port
        /\ u.fdb[x].root = t.fdb[x].root /\ u.fdb[x].flow = t.fdb[x].flow
        /\ \A i \in DOMAIN t.fdb[x].reps :
             i \in DOMAIN u.fdb[x].reps /\ u.fdb[x].reps[i] = t.fdb[x].reps[i]
  <2> TAKE x \in DOMAIN t.fdb
  <2>1. t.fdb[x] \in EntryType /\ u.fdb[x] \in {t.fdb[x], Joined(t.fdb[x], r)}
    BY <1>1, EntryIs DEF Updated
  <2> QED
    BY <2>1, <1>2
<1>4. DOMAIN u.fdb = DOMAIN t.fdb
  BY <1>1 DEF Updated
<1>5. Harmless(t, u) /\ u.down = t.down
  BY <1>1, <1>3, <1>4 DEF Updated, Keeps, Harmless, Dark
<1>6. KeepsRoots(t.fdb, u.fdb)
  BY <1>3, <1>4 DEF KeepsRoots
<1>7. NeverShort(t) /\ Orderly(t.fdb, {}) => Orderly(u.fdb, {})
  BY <1>1, UpdatedOrderly DEF S
<1> QED
  BY <1>5, <1>6, <1>7 DEF u

LEMMA UnacceleratedDoes ==
  ASSUME NEW t, Sound(t), NEW S, S \subseteq DOMAIN t.fdb
  PROVE  LET u == Unaccelerate(t, S)
         IN  /\ Harmless(t, u) /\ Quiet(t, u) /\ KeepsRoots(t.fdb, u.fdb)
             /\ DOMAIN u.fdb = {x \in DOMAIN t.fdb : x \in S => t.fdb[x].root}
             /\ \A x \in DOMAIN u.fdb :
                  /\ u.fdb[x].root = t.fdb[x].root
                  /\ u.fdb[x].stream = t.fdb[x].stream /\ u.fdb[x].port = t.fdb[x].port
                  /\ x \in S => ~u.fdb[x].flow
             /\ \A R \in SUBSET S : Closed(t.fdb, S) /\ Orderly(t.fdb, R)
                  => Orderly(u.fdb, S \cap DOMAIN u.fdb)
<1> DEFINE u == Unaccelerate(t, S)
<1>1. Unaccelerated(t, S, t.next - 1, u)
  BY UnaccelerateDoes
<1> HIDE DEF u
<1>2. /\ Quiet(t, u)
      /\ DOMAIN u.fdb = {x \in DOMAIN t.fdb : x \in S => t.fdb[x].root}
      /\ \A x \in DOMAIN u.fdb :
           u.fdb[x] = IF x \in S THEN [t.fdb[x] EXCEPT !.flow = FALSE] ELSE t.fdb[x]
  BY <1>1, SeenNone DEF Unaccelerated
<1>3. ASSUME NEW x \in DOMAIN u.fdb
      PROVE  /\ u.fdb[x].root = t.fdb[x].root
             /\ u.fdb[x].stream = t.fdb[x].stream /\ u.fdb[x].port = t.fdb[x].port
             /\ u.fdb[x].reps = t.fdb[x].reps
             /\ IF x \in S THEN ~u.fdb[x].flow ELSE u.fdb[x].flow = t.fdb[x].flow
  <2>1. x \in DOMAIN t.fdb
    BY <1>2
  <2>2. t.fdb[x] \in EntryType
    BY <2>1, EntryIs
  <2> QED
    BY <2>2, <1>2 DEF EntryType
<1>4. KeepsRoots(t.fdb, u.fdb)
  <2>1. \A x \in DOMAIN t.fdb : t.fdb[x].root => x \in DOMAIN u.fdb
    BY <1>2
  <2> QED
    BY <2>1, <1>3 DEF KeepsRoots
<1>5. Harmless(t, u)
  <2>1. Dark(t.fdb) => Dark(u.fdb)
    BY <1>2, <1>3 DEF Dark
  <2> QED
    BY <2>1, <1>2 DEF Harmless, Quiet, Keeps
<1>6. \A R \in SUBSET S : Closed(t.fdb, S) /\ Orderly(t.fdb, R)
        => Orderly(u.fdb, S \cap DOMAIN u.fdb)
  BY <1>1, UnaccelerateOrderly
<1> QED
  BY <1>2, <1>3, <1>4, <1>5, <1>6 DEF u

\* bcm_mcast_igmp_add for a new subscription
LEMMA AddNewDoes ==
  ASSUME Settings, NEW t, Sound(t), NEW s \in Stream, NEW p \in Port, NEW r \in Rep,
         ~Short(t, 2), Subscription(t.fdb, s, p) = {}
  PROVE  LET w == AddNew(t, s, p, r)
         IN  /\ Harmless(t, w) /\ KeepsRoots(t.fdb, w.fdb)
             /\ NeverShort(t) /\ (blog_enable \/ Dark(t.fdb)) /\ Orderly(t.fdb, {})
                => Orderly(w.fdb, {}) /\ w.down = t.down
<1> DEFINE id == t.next
           e == NewEntry(s, p, r)
           c == Take(t, 2)
           b == AddHead(c, e)
           u == BlogProcess(b, id)
           w == AddNew(t, s, p, r)
<1>1. e \in GoodEntry /\ ~e.flow /\ e.root /\ e.stream = s /\ e.port = p
  <2>1. <<r>> \in Seq(Rep) /\ <<r>> # <<>>
    OBVIOUS
  <2> QED
    BY <2>1, McastFdbAssumption DEF NewEntry, GoodEntry, EntryType
<1>2. w = IF u.ret = -1 THEN DelEntry(u, id)
          ELSE IF u.ret = -2 THEN RemoveConflicters(u, s) ELSE u
  BY DEF AddNew
<1> HIDE DEF e
<1>3. Keeps(t, c) /\ c.fdb = t.fdb /\ (Ample(c.grant) <=> Ample(t.grant))
  BY TakeDoes
<1> HIDE DEF c
<1>4. /\ Sound(b) /\ (Exact(t) => Exact(b)) /\ b.grant = c.grant /\ b.down = t.down /\ b.next = t.next + 1
      /\ id \notin DOMAIN t.fdb /\ DOMAIN b.fdb = DOMAIN t.fdb \cup {id}
      /\ b.fdb[id] = e /\ \A x \in DOMAIN t.fdb : b.fdb[x] = t.fdb[x]
  BY <1>1, <1>3, AddHeadDoes DEF Keeps
<1> HIDE DEF b
<1>5. Processed(b, u, id)
  BY <1>1, <1>4, BlogProcessDoes
<1>6. /\ Sound(u) /\ (Exact(t) => Exact(u)) /\ u.ret \in {0, -1, -2} /\ u.down = t.down
      /\ \A x \in DOMAIN t.fdb : x \in DOMAIN u.fdb /\ u.fdb[x] = t.fdb[x]
      /\ ~blog_enable => u.ret = 0 /\ u.fdb = b.fdb
  <2>1. Sound(u) /\ (Exact(t) => Exact(u)) /\ u.down = t.down
    BY <1>1, <1>4, <1>5 DEF Processed, AddsCopies
  <2>2. \A x \in DOMAIN t.fdb : x \in DOMAIN u.fdb /\ u.fdb[x] = t.fdb[x]
    BY <1>4, <1>5 DEF Processed, AddsCopies
  <2> QED
    BY <2>1, <2>2, <1>5 DEF Processed, Sound, CallState
<1>7. KeepsRoots(t.fdb, u.fdb)
  BY <1>6 DEF KeepsRoots
<1>8. u.ret # -2 => w = Reactivate(b, id)
  BY <1>2, <1>6 DEF Reactivate
<1> HIDE DEF u, w
<1>9. ASSUME Orderly(t.fdb, {})
      PROVE  Orderly(b.fdb, {id})
  <2> DEFINE f == t.fdb
             g == b.fdb
  <2>1. /\ id \notin DOMAIN f /\ DOMAIN g = DOMAIN f \cup {id}
        /\ g[id].root /\ ~g[id].flow /\ g[id].stream = s /\ g[id].port = p
        /\ \A x \in DOMAIN f : g[x] = f[x] /\ ~(f[x].stream = s /\ f[x].port = p)
    BY <1>1, <1>4 DEF Subscription
  <2> HIDE DEF f, g, id
  <2>2. Waiting(g, {id}) /\ Plain(g)
    BY <2>1, <1>9 DEF Waiting, Plain, Orderly, f
  <2>3. OneTag(g, {id})
    BY <2>1, <1>9 DEF OneTag, Orderly, f
  <2>4. CopiesKept(g, {id})
    BY <2>1, <1>9 DEF CopiesKept, Orderly, f
  <2>5. OneEntry(g)
    <3> SUFFICES ASSUME NEW x \in DOMAIN g, NEW y \in DOMAIN g, g[x].root, g[y].root,
                        SameKey(g[x], g[y])
                 PROVE  x = y
      BY DEF OneEntry
    <3>1. g[x].stream = g[y].stream /\ g[x].port = g[y].port
      BY SameKeyIs
    <3>2. CASE x = id \/ y = id
      BY <3>1, <3>2, <2>1
    <3>3. CASE x # id /\ y # id
      BY <3>3, <2>1, <1>9 DEF Orderly, OneEntry, f
    <3> QED
      BY <3>2, <3>3
  <2> QED
    BY <2>2, <2>3, <2>4, <2>5 DEF Orderly, g
<1>10. NeverShort(t) => NeverShort(b)
  BY <1>3, <1>4 DEF NeverShort
<1>11. ASSUME u.ret # -2, blog_enable, NeverShort(t), Orderly(t.fdb, {})
       PROVE  Orderly(w.fdb, {}) /\ w.down = t.down
  <2>1. LET v == Reactivate(b, id) IN Orderly(v.fdb, {id} \ {id}) /\ v.down = b.down
    BY <1>4, <1>9, <1>10, <1>11, ReactivateOrderly
  <2>2. {id} \ {id} = {}
    OBVIOUS
  <2> QED
    BY <2>1, <2>2, <1>4, <1>8, <1>11
<1>12. CASE u.ret = 0
  <2>1. w = u
    BY <1>2, <1>12 DEF u, w
  <2>2. ASSUME ~blog_enable, Dark(t.fdb)
        PROVE  Dark(w.fdb)
    BY <2>1, <2>2, <1>1, <1>4, <1>6 DEF Dark
  <2>3. Harmless(t, w)
    BY <2>1, <2>2, <1>6 DEF Harmless
  <2>4. ASSUME NeverShort(t), ~blog_enable, Dark(t.fdb), Orderly(t.fdb, {})
        PROVE  Orderly(w.fdb, {}) /\ w.down = t.down
    <3>1. Orderly(w.fdb, {id}) /\ w.down = t.down
      BY <2>1, <2>4, <1>6, <1>9
    <3> QED
      BY <3>1, <2>2, <2>4, DarkOrderly
  <2> QED
    BY <2>1, <2>3, <2>4, <1>7, <1>11, <1>12 DEF w
<1>13. CASE u.ret = -1
  <2>1. w = DelEntry(u, id) /\ blog_enable
    BY <1>2, <1>6, <1>13 DEF u, w
  <2>2. /\ Sound(w) /\ (Exact(u) => Exact(w)) /\ DOMAIN w.fdb = DOMAIN u.fdb \ {id}
        /\ \A x \in DOMAIN w.fdb : w.fdb[x] = u.fdb[x]
    BY <2>1, <1>6, DelAnyDoes
  <2>3. Harmless(t, w)
    BY <2>1, <2>2, <1>6 DEF Harmless
  <2>4. KeepsRoots(t.fdb, w.fdb)
    <3>1. \A x \in DOMAIN t.fdb : x \in DOMAIN w.fdb /\ w.fdb[x] = t.fdb[x]
      BY <2>2, <1>4, <1>6
    <3> QED
      BY <3>1 DEF KeepsRoots
  <2> QED
    BY <2>1, <2>3, <2>4, <1>11, <1>13 DEF w
<1>14. CASE u.ret = -2
  <2> DEFINE S == {x \in DOMAIN u.fdb : u.fdb[x].stream = s}
  <2>1. w = Unaccelerate(u, S) /\ blog_enable /\ S \subseteq DOMAIN u.fdb
    BY <1>2, <1>6, <1>14 DEF u, w, RemoveConflicters
  <2> HIDE DEF S
  <2>2. /\ Harmless(u, w) /\ w.down = u.down /\ KeepsRoots(u.fdb, w.fdb)
        /\ \A x \in DOMAIN w.fdb :
             /\ w.fdb[x].root = u.fdb[x].root
             /\ w.fdb[x].stream = u.fdb[x].stream /\ w.fdb[x].port = u.fdb[x].port
             /\ x \in S => ~w.fdb[x].flow
        /\ DOMAIN w.fdb \subseteq DOMAIN u.fdb
        /\ \A R \in SUBSET S : Closed(u.fdb, S) /\ Orderly(u.fdb, R)
             => Orderly(w.fdb, S \cap DOMAIN w.fdb)
    <3>1. Sound(u)
      BY <1>6
    <3>2. Harmless(u, w) /\ w.down = u.down /\ KeepsRoots(u.fdb, w.fdb)
      BY <3>1, <2>1, UnacceleratedDoes DEF Quiet, Keeps
    <3>3. DOMAIN w.fdb = {x \in DOMAIN u.fdb : x \in S => u.fdb[x].root}
      BY <3>1, <2>1, UnacceleratedDoes
    <3>4. \A x \in DOMAIN w.fdb :
             /\ w.fdb[x].root = u.fdb[x].root
             /\ w.fdb[x].stream = u.fdb[x].stream /\ w.fdb[x].port = u.fdb[x].port
             /\ x \in S => ~w.fdb[x].flow
      <4>1. LET v == Unaccelerate(u, S)
            IN  \A x \in DOMAIN v.fdb :
                  /\ v.fdb[x].root = u.fdb[x].root
                  /\ v.fdb[x].stream = u.fdb[x].stream /\ v.fdb[x].port = u.fdb[x].port
                  /\ x \in S => ~v.fdb[x].flow
        BY <3>1, <2>1, UnacceleratedDoes, Zenon
      <4> QED
        BY <4>1, <2>1, Zenon
    <3>5. \A R \in SUBSET S : Closed(u.fdb, S) /\ Orderly(u.fdb, R)
             => Orderly(w.fdb, S \cap DOMAIN w.fdb)
      BY <3>1, <2>1, UnacceleratedDoes
    <3> QED
      BY <3>2, <3>3, <3>4, <3>5
  <2>3. Harmless(t, w)
    BY <2>1, <2>2, <1>6 DEF Harmless
  <2>4. KeepsRoots(t.fdb, w.fdb)
    BY <2>2, <1>7, KeepsRootsTwice
  <2>5. ASSUME NeverShort(t), Orderly(t.fdb, {})
        PROVE  Orderly(w.fdb, {}) /\ w.down = t.down
    <3>1. ProcessedSure(b, u, id)
      BY <2>5, <1>1, <1>4, <1>10, BlogProcessDoes DEF u
    <3>2. /\ DOMAIN u.fdb = DOMAIN b.fdb /\ id \in DOMAIN u.fdb /\ ~u.fdb[id].flow
          /\ u.fdb[id].root /\ SameSubscription(u.fdb[id], b.fdb[id])
          /\ \A x \in DOMAIN b.fdb \ {id} : u.fdb[x] = b.fdb[x]
      BY <3>1, <1>5, <1>14 DEF ProcessedSure, Processed, AddsCopies
    <3>3. Orderly(u.fdb, {id})
      <4> DEFINE f == b.fdb
                 g == u.fdb
      <4>1. Orderly(f, {id})
        BY <2>5, <1>9
      <4> HIDE DEF f, g, id
      <4>2. Waiting(g, {id}) /\ Plain(g)
        BY <4>1, <3>2 DEF Waiting, Plain, Orderly, f, g
      <4>3. OneTag(g, {id})
        BY <4>1, <3>2 DEF OneTag, Orderly, f, g
      <4>4. CopiesKept(g, {id})
        BY <4>1, <3>2 DEF CopiesKept, Orderly, f, g
      <4>5. OneEntry(g)
        <5> SUFFICES ASSUME NEW x \in DOMAIN g, NEW y \in DOMAIN g, g[x].root, g[y].root,
                            SameKey(g[x], g[y])
                     PROVE  x = y
          BY DEF OneEntry
        <5>1. \A z \in {x, y} : z \in DOMAIN f /\ f[z].root /\ f[z].stream = g[z].stream
                                /\ f[z].port = g[z].port
          BY <4>1, <3>2 DEF SameSubscription, Orderly, Waiting, f, g
        <5> QED
          BY <5>1, <4>1, SameKeyIs DEF Orderly, OneEntry
      <4> QED
        BY <4>2, <4>3, <4>4, <4>5 DEF Orderly, g
    <3>4. id \in S
      BY <3>2, <1>1, <1>4 DEF SameSubscription, S
    <3>5. Closed(u.fdb, S)
      BY SameKeyIs DEF Closed, S
    <3>6. Orderly(w.fdb, S \cap DOMAIN w.fdb)
      BY <3>3, <3>4, <3>5, <2>2
    <3>7. \A x \in DOMAIN w.fdb, y \in S \cap DOMAIN w.fdb :
            SameRoot(w.fdb[x], w.fdb[y]) => x \in S \cap DOMAIN w.fdb
      BY <2>2, SameKeyIs DEF S
    <3> QED
      BY <3>6, <3>7, <1>6, <2>2, AloneOrderly
  <2> QED
    BY <2>3, <2>4, <2>5 DEF w
<1> QED
  BY <1>6, <1>12, <1>13, <1>14

\* bcm_mcast_igmp_add
LEMMA AddDoes ==
  ASSUME Settings, NEW t, Sound(t), NEW s \in Stream, NEW p \in Port, NEW r \in Rep
  PROVE  LET w == Add(t, s, p, r)
         IN  /\ Harmless(t, w) /\ KeepsRoots(t.fdb, w.fdb)
             /\ NeverShort(t) /\ (blog_enable \/ Dark(t.fdb)) /\ Orderly(t.fdb, {})
                => Orderly(w.fdb, {}) /\ w.down = t.down
<1>1. CASE Subscription(t.fdb, s, p) # {}
  <2>1. Add(t, s, p, r) = Update(t, s, p, r)
    BY <1>1 DEF Add
  <2> QED
    BY <2>1, UpdatedDoes
<1>2. CASE Subscription(t.fdb, s, p) = {} /\ Short(t, 2)
  <2>1. Add(t, s, p, r) = t
    BY <1>2 DEF Add
  <2>2. Harmless(t, t) /\ KeepsRoots(t.fdb, t.fdb)
    BY DEF Harmless, KeepsRoots
  <2> QED
    BY <2>1, <2>2
<1>3. CASE Subscription(t.fdb, s, p) = {} /\ ~Short(t, 2)
  <2>1. Add(t, s, p, r) = AddNew(t, s, p, r)
    BY <1>3 DEF Add
  <2> QED
    BY <2>1, <1>3, AddNewDoes
<1> QED
  BY <1>1, <1>2, <1>3

\* bcm_mcast_igmp_update_bydev, before it processes the roots
LEMMA DeactivateDoes ==
  ASSUME NEW t, Sound(t), NEW devs
  PROVE  LET u == Deactivate(t, devs)
             S == {id \in DOMAIN u.fdb : u.fdb[id].root /\ Touches(u.fdb[id], devs)}
         IN  /\ Harmless(t, u) /\ Quiet(t, u)
             /\ \A x \in S : u.fdb[x].root /\ ~u.fdb[x].flow
             /\ S \subseteq DOMAIN u.fdb
             /\ Orderly(t.fdb, {}) => Orderly(u.fdb, S)
             /\ LanDev \subseteq devs => Dark(u.fdb)
<1> DEFINE T == {id \in DOMAIN t.fdb : Touches(t.fdb[id], devs)}
           u == Unaccelerate(t, T)
           S == {id \in DOMAIN u.fdb : u.fdb[id].root /\ Touches(u.fdb[id], devs)}
<1>1. Deactivate(t, devs) = u
  BY DEF Deactivate
<1>2. T \subseteq DOMAIN t.fdb /\ Closed(t.fdb, T)
  BY SameKeyIs DEF Closed, Touches
<1>3. LanDev \subseteq devs => T = DOMAIN t.fdb
  <2>1. \A x \in DOMAIN t.fdb : t.fdb[x].port.dev \in LanDev
    BY EntryIs DEF EntryType, LanDev
  <2> QED
    BY <2>1 DEF Touches
<1>4. \A x \in DOMAIN t.fdb : x \in T <=> Touches(t.fdb[x], devs)
  OBVIOUS
<1> HIDE DEF T
<1>5. /\ Harmless(t, u) /\ Quiet(t, u)
      /\ DOMAIN u.fdb = {x \in DOMAIN t.fdb : x \in T => t.fdb[x].root}
      /\ \A R \in SUBSET T : Closed(t.fdb, T) /\ Orderly(t.fdb, R)
           => Orderly(u.fdb, T \cap DOMAIN u.fdb)
  BY <1>2, UnacceleratedDoes
<1>6. ASSUME NEW x \in DOMAIN u.fdb
      PROVE  /\ u.fdb[x].root = t.fdb[x].root
             /\ u.fdb[x].stream = t.fdb[x].stream /\ u.fdb[x].port = t.fdb[x].port
             /\ x \in T => ~u.fdb[x].flow
  BY <1>2, UnacceleratedDoes, Zenon
<1> HIDE DEF u
<1>7. S = T \cap DOMAIN u.fdb
  <2>1. \A x \in DOMAIN u.fdb : x \in T => u.fdb[x].root
    BY <1>5, <1>6
  <2>2. \A x \in DOMAIN u.fdb : x \in T <=> Touches(u.fdb[x], devs)
    BY <1>4, <1>5, <1>6 DEF Touches
  <2> QED
    BY <2>1, <2>2
<1>8. \A x \in S : u.fdb[x].root /\ ~u.fdb[x].flow
  BY <1>6, <1>7
<1>9. Orderly(t.fdb, {}) => Orderly(u.fdb, S)
  BY <1>2, <1>5, <1>7
<1>10. ASSUME LanDev \subseteq devs
       PROVE  Dark(u.fdb)
  BY <1>3, <1>5, <1>6, <1>10 DEF Dark
<1> QED
  BY <1>1, <1>5, <1>7, <1>8, <1>9, <1>10

\* bcm_mcast_igmp_update_bydev after a change of the VLAN rules
LEMMA NotifyDoes ==
  ASSUME Settings, NEW t, Sound(t), NEW devs
  PROVE  LET w == ReactivateRoots(Deactivate(t, devs), devs)
         IN  /\ Harmless(t, w)
             /\ NeverShort(t) /\ (blog_enable \/ Dark(t.fdb)) /\ Orderly(t.fdb, {})
                => Orderly(w.fdb, {}) /\ w.down = t.down
<1> DEFINE u == Deactivate(t, devs)
           S == {id \in DOMAIN u.fdb : u.fdb[id].root /\ Touches(u.fdb[id], devs)}
           w == ForEach(u, S, Reactivate)
<1>1. ReactivateRoots(u, devs) = w
  BY DEF ReactivateRoots
<1>2. /\ Harmless(t, u) /\ Quiet(t, u) /\ S \subseteq DOMAIN u.fdb
      /\ \A x \in S : u.fdb[x].root /\ ~u.fdb[x].flow
      /\ Orderly(t.fdb, {}) => Orderly(u.fdb, S)
  BY DeactivateDoes
<1> HIDE DEF u, S
<1>3. Reactivated(u, S, u.next - 1, w)
  BY <1>2, ReactivatedDoes DEF Harmless
<1> HIDE DEF w
<1>4. Harmless(t, w)
  BY <1>2, <1>3 DEF Harmless, Reactivated
<1>5. {x \in S : ~Seen(u, u.next - 1, x)} = {}
  BY <1>2, SeenNone DEF Harmless
<1>6. ASSUME NeverShort(t), Orderly(t.fdb, {}), blog_enable
      PROVE  Orderly(w.fdb, {}) /\ w.down = t.down
  <2>1. NeverShort(u) /\ u.down = t.down
    BY <1>2, <1>6 DEF NeverShort, Quiet, Keeps
  <2> QED
    BY <2>1, <1>2, <1>3, <1>5, <1>6 DEF Reactivated
<1>7. ASSUME Orderly(t.fdb, {}), ~blog_enable, Dark(t.fdb)
      PROVE  Orderly(w.fdb, {}) /\ w.down = t.down
  <2>1. w.fdb = u.fdb /\ Dark(u.fdb) /\ w.down = t.down
    BY <1>2, <1>3, <1>7 DEF Reactivated, Harmless, Quiet, Keeps
  <2> QED
    BY <2>1, <1>2, <1>7, DarkOrderly
<1> QED
  BY <1>1, <1>4, <1>6, <1>7 DEF u

\* Acceleration is switched on.
LEMMA SwitchOnDoes ==
  ASSUME Settings, NEW t, Sound(t), NEW devs, blog_enable
  PROVE  LET w == ReactivateRoots(t, devs)
         IN  /\ Sound(w)
             /\ Exact(t) /\ Dark(t.fdb) => Exact(w)
             /\ NeverShort(t) /\ Dark(t.fdb) /\ Orderly(t.fdb, {})
                => Orderly(w.fdb, {}) /\ w.down = t.down
<1> DEFINE S == {id \in DOMAIN t.fdb : t.fdb[id].root /\ Touches(t.fdb[id], devs)}
           w == ForEach(t, S, Reactivate)
<1>1. ReactivateRoots(t, devs) = w
  BY DEF ReactivateRoots
<1>2. S \subseteq DOMAIN t.fdb /\ \A x \in S : t.fdb[x].root
  OBVIOUS
<1> HIDE DEF S
<1>3. Reactivated(t, S, t.next - 1, w)
  BY <1>2, ReactivatedDoes
<1> HIDE DEF w
<1>4. Exact(t) /\ Dark(t.fdb) => Exact(w)
  BY <1>2, <1>3 DEF Dark, Reactivated
<1>5. ASSUME NeverShort(t), Dark(t.fdb), Orderly(t.fdb, {})
      PROVE  Orderly(w.fdb, {}) /\ w.down = t.down
  <2>1. Waiting(t.fdb, S)
    BY <1>2, <1>5 DEF Waiting, Dark
  <2>2. OneTag(t.fdb, S) /\ CopiesKept(t.fdb, S)
    BY <1>5 DEF OneTag, CopiesKept, Dark
  <2>3. Orderly(t.fdb, S)
    BY <2>1, <2>2, <1>5 DEF Orderly
  <2>4. {x \in S : ~Seen(t, t.next - 1, x)} = {}
    BY <1>2, SeenNone
  <2> QED
    BY <2>3, <2>4, <1>3, <1>5 DEF Reactivated
<1> QED
  BY <1>1, <1>3, <1>4, <1>5 DEF Reactivated

\* Acceleration is switched off.
LEMMA SwitchOffDoes ==
  ASSUME NEW t, Sound(t)
  PROVE  LET w == Deactivate(t, LanDev)
         IN  /\ Harmless(t, w) /\ Dark(w.fdb) /\ w.down = t.down
             /\ Orderly(t.fdb, {}) => Orderly(w.fdb, {})
<1> DEFINE w == Deactivate(t, LanDev)
           S == {id \in DOMAIN w.fdb : w.fdb[id].root /\ Touches(w.fdb[id], LanDev)}
<1>1. Harmless(t, w) /\ Dark(w.fdb) /\ w.down = t.down /\ (Orderly(t.fdb, {}) => Orderly(w.fdb, S))
  BY DeactivateDoes DEF Quiet, Keeps
<1> HIDE DEF w, S
<1>2. Orderly(t.fdb, {}) => Orderly(w.fdb, {})
  BY <1>1, DarkOrderly
<1> QED
  BY <1>1, <1>2 DEF w
-----------------------------------------------------------------------------
(* Between calls                                                           *)

\* The bucket has the entries of the call, each in its place.
LEMMA BucketDoes ==
  ASSUME NEW t, Sound(t)
  PROVE  LET g == Bucket(t.fdb)
         IN  /\ g \in Seq(GoodEntry)
             /\ Cardinality(Flows(g)) = Cardinality(Flows(t.fdb))
             /\ Dark(t.fdb) => Dark(g)
             /\ Orderly(t.fdb, {}) => Orderly(g, {})
<1> DEFINE f == t.fdb
           g == Bucket(f)
           c == Cardinality(DOMAIN f)
<1>1. f \in [DOMAIN f -> GoodEntry] /\ t.next - 1 \in Nat /\ DOMAIN f \subseteq 1..t.next - 1
      /\ IsFiniteSet(Flows(f))
  BY TableIs, FlowsFinite DEF Sound, CallState
<1> HIDE DEF f
<1>2. c \in Nat /\ \E pos \in Bijection(1..c, DOMAIN f) : g = [i \in 1..c |-> f[pos[i]]]
  BY <1>1, BucketPlaces
<1> HIDE DEF c, g
<1>3. PICK pos \in Bijection(1..c, DOMAIN f) : g = [i \in 1..c |-> f[pos[i]]]
  BY <1>2
<1>4. /\ pos \in [1..c -> DOMAIN f]
      /\ \A i, j \in 1..c : pos[i] = pos[j] => i = j
      /\ \A x \in DOMAIN f : \E i \in 1..c : pos[i] = x
  BY DEF Bijection, Injection, Surjection, IsInjective
<1>5. DOMAIN g = 1..c /\ \A i \in 1..c : g[i] = f[pos[i]] /\ pos[i] \in DOMAIN f
  BY <1>3, <1>4
<1>6. g \in Seq(GoodEntry)
  <2>1. g \in [1..c -> GoodEntry]
    BY <1>1, <1>3, <1>4
  <2> QED
    BY <2>1, <1>2
<1>7. Cardinality(Flows(g)) = Cardinality(Flows(f))
  <2> DEFINE inv == [x \in Flows(f) |-> CHOOSE i \in 1..c : pos[i] = x]
  <2>1. \A x \in Flows(f) : inv[x] \in 1..c /\ pos[inv[x]] = x
    BY <1>4 DEF Flows
  <2>2. \A x \in Flows(f) : inv[x] \in Flows(g)
    BY <2>1, <1>5 DEF Flows
  <2>3. \A i \in Flows(g) : pos[i] \in Flows(f) /\ inv[pos[i]] = i
    <3> TAKE i \in Flows(g)
    <3>1. i \in 1..c /\ pos[i] \in Flows(f)
      BY <1>5 DEF Flows
    <3> QED
      BY <3>1, <2>1, <1>4
  <2>4. inv \in [Flows(f) -> Flows(g)]
    BY <2>2
  <2> HIDE DEF inv
  <2>5. inv \in Bijection(Flows(f), Flows(g))
    BY <2>1, <2>3, <2>4, Fun_IsBij
  <2>6. ExistsBijection(Flows(f), Flows(g))
    BY <2>5, Fun_ExistsBij
  <2> QED
    BY <2>6, <1>1, FS_Bijection
<1>8. Dark(f) => Dark(g)
  BY <1>5 DEF Dark
<1>9. ASSUME Orderly(f, {})
      PROVE  Orderly(g, {})
  <2>1. Waiting(g, {}) /\ Plain(g)
    BY <1>5, <1>9 DEF Waiting, Plain, Orderly
  <2>2. OneTag(g, {})
    BY <1>5, <1>9 DEF OneTag, Orderly
  <2>3. OneEntry(g)
    BY <1>4, <1>5, <1>9 DEF OneEntry, Orderly
  <2>4. CopiesKept(g, {})
    <3> SUFFICES ASSUME NEW i \in DOMAIN g, ~g[i].root
                 PROVE  /\ g[i].flow
                        /\ \E j \in DOMAIN g : g[j].root /\ SameKey(g[i], g[j])
                                               /\ g[j].reps = g[i].reps /\ g[j].flow
      BY DEF CopiesKept
    <3>1. f[pos[i]].flow
          /\ \E y \in DOMAIN f : f[y].root /\ SameKey(f[pos[i]], f[y])
                                 /\ f[y].reps = f[pos[i]].reps /\ f[y].flow
      BY <1>5, <1>9 DEF CopiesKept, Orderly
    <3>2. PICK y \in DOMAIN f : f[y].root /\ SameKey(f[pos[i]], f[y])
                                /\ f[y].reps = f[pos[i]].reps /\ f[y].flow
      BY <3>1
    <3>3. PICK j \in 1..c : pos[j] = y
      BY <1>4
    <3> QED
      BY <3>1, <3>2, <3>3, <1>5
  <2> QED
    BY <2>1, <2>2, <2>3, <2>4 DEF Orderly
<1> QED
  BY <1>6, <1>7, <1>8, <1>9 DEF f, g

\* No flow is missing, though some may be lost.
Covered == Cardinality(Flows(fdb)) <= live

\* While acceleration is off no entry has a flow.
Off == ~applied => Dark(fdb)

\* No call deletes an entry for the copy that found no memory, or activates
\* the copy of an entry that was refused.
PlainOrPlenty == MaxRules <= 1 \/ (Mem = {Plenty} /\ \A A \in Accept : InTurn(A))

Orders == Orderly(fdb, {}) /\ ~down

LEMMA CallIs ==
  ASSUME TypeOK, Covered, NEW g \in Grant \cup {Nothing}
  PROVE  /\ Sound(Call(g)) /\ Settings
         /\ Call(g).fdb = fdb /\ Call(g).live = live /\ Call(g).down = down
         /\ Exact(Call(g)) <=> FlowsAccounted
         /\ PlainOrPlenty /\ g \in Grant => NeverShort(Call(g))
<1> DEFINE t == Call(g)
<1>1. /\ t.fdb = fdb /\ t.next = Len(fdb) + 1 /\ t.live = live /\ t.down = down /\ t.grant = g
      /\ t.ret = 0 /\ t.activates = 0 /\ t.stop = FALSE
      /\ t = [fdb |-> fdb, next |-> Len(fdb) + 1, live |-> live, down |-> down,
              grant |-> g, ret |-> 0, activates |-> 0, stop |-> FALSE]
  BY DEF Call
<1>2. fdb \in Seq(EntryType) /\ Len(fdb) \in Nat /\ DOMAIN fdb = 1..Len(fdb)
      /\ fdb \in [DOMAIN fdb -> EntryType]
  BY DEF TypeOK
<1>3. fdb \in Tables
  <2>1. DOMAIN fdb \in SUBSET (Nat \ {0})
    BY <1>2
  <2>2. fdb \in [DOMAIN fdb -> GoodEntry]
    BY <1>2 DEF TypeOK, GoodEntry
  <2> QED
    BY <2>1, <2>2, TableOf
<1>4. t \in CallState
  <2>1. live \in Int /\ down \in BOOLEAN
    BY McastFdbAssumption DEF TypeOK
  <2>2. g \in GrantType
    <3>1. Mem \subseteq Nat \cup {Plenty} /\ Accept \subseteq SUBSET Nat
      BY McastFdbAssumption
    <3>2. CASE g \in Grant
      BY <3>1, <3>2 DEF Grant, GrantType
    <3>3. CASE g = Nothing
      BY <3>3 DEF Nothing, GrantType
    <3> QED
      BY <3>2, <3>3
  <2> QED
    BY <2>1, <2>2, <1>1, <1>2, <1>3 DEF CallState
<1> HIDE DEF t
<1>5. Sound(t)
  BY <1>1, <1>2, <1>4, McastFdbAssumption DEF Sound, Covered, TypeOK
<1>6. Exact(t) <=> FlowsAccounted
  BY <1>1 DEF Exact, FlowsAccounted, Flows
<1>7. PlainOrPlenty /\ g \in Grant => NeverShort(t)
  BY <1>1 DEF PlainOrPlenty, NeverShort, Ample, Grant
<1> QED
  BY <1>1, <1>5, <1>6, <1>7 DEF t, Settings, TypeOK

\* What is true after a call returns
LEMMA ReturnDoes ==
  ASSUME NEW u, Sound(u), Return(u)
  PROVE  /\ fdb' \in Seq(EntryType) /\ live' \in 0..Capacity /\ down' \in BOOLEAN /\ down' = u.down
         /\ \A id \in DOMAIN fdb' : fdb'[id].reps # <<>>
         /\ Covered' /\ (Exact(u) => FlowsAccounted')
         /\ Dark(u.fdb) => Dark(fdb')
         /\ Orderly(u.fdb, {}) => Orderly(fdb', {})
<1>1. fdb' = Bucket(u.fdb) /\ live' = u.live /\ down' = u.down
  BY DEF Return
<1>2. /\ fdb' \in Seq(GoodEntry)
      /\ Cardinality(Flows(fdb')) = Cardinality(Flows(u.fdb))
      /\ Dark(u.fdb) => Dark(fdb')
      /\ Orderly(u.fdb, {}) => Orderly(fdb', {})
  BY <1>1, BucketDoes
<1>3. fdb' \in Seq(EntryType) /\ \A id \in DOMAIN fdb' : fdb'[id].reps # <<>>
  <2>1. fdb' \in [1..Len(fdb') -> GoodEntry] /\ Len(fdb') \in Nat
    BY <1>2
  <2>2. \A i \in 1..Len(fdb') : fdb'[i] \in EntryType /\ fdb'[i].reps # <<>>
    BY <2>1 DEF GoodEntry
  <2>3. fdb' \in [1..Len(fdb') -> EntryType]
    BY <2>1, <2>2
  <2> QED
    BY <2>1, <2>2, <2>3
<1>4. live' \in 0..Capacity /\ down' \in BOOLEAN
  <2>1. Cardinality(Flows(u.fdb)) \in Nat /\ Cardinality(Flows(u.fdb)) <= u.live
        /\ u.live <= Capacity /\ u.live \in Int /\ Capacity \in Nat
    BY FlowsFinite, McastFdbAssumption DEF Sound, CallState
  <2>2. u.live \in 0..Capacity
    BY <2>1
  <2> QED
    BY <2>2, <1>1 DEF Sound, CallState
<1>5. Covered' /\ (Exact(u) => FlowsAccounted')
  BY <1>1, <1>2 DEF Sound, Covered, Exact, FlowsAccounted, Flows
<1> QED
  BY <1>1, <1>2, <1>3, <1>4, <1>5
-----------------------------------------------------------------------------
(* Steps                                                                   *)

\* What every step keeps.  Between the store to blog_enable and its processing
\* flows may appear that nothing accounts for: hence ~Overlap.
Stays ==
  /\ TypeOK' /\ Covered'
  /\ ~Overlap /\ Off => Off'
  /\ ~Overlap /\ Off /\ FlowsAccounted => FlowsAccounted'
  /\ ~Overlap /\ Off /\ PlainOrPlenty /\ Orders => Orders'

\* An operation on the entries outside the switching of acceleration
LEMMA CallStays ==
  ASSUME TypeOK, Covered, Overlap \/ applied = blog_enable, NEW g \in Grant \cup {Nothing},
         NEW u, Harmless(Call(g), u), Return(u),
         PlainOrPlenty /\ (blog_enable \/ Dark(fdb)) /\ Orders
           => Orderly(u.fdb, {}) /\ u.down = down,
         UNCHANGED <<blog_enable, applied, rules, tag>>, dirty' \subseteq LanDev \cup WanDev
  PROVE  Stays
<1>1. Call(g).fdb = fdb /\ (Exact(Call(g)) <=> FlowsAccounted)
  BY CallIs
<1>2. Sound(u) /\ (Exact(Call(g)) => Exact(u)) /\ (~blog_enable /\ Dark(fdb) => Dark(u.fdb))
  BY <1>1 DEF Harmless
<1>3. /\ fdb' \in Seq(EntryType) /\ live' \in 0..Capacity /\ down' \in BOOLEAN /\ down' = u.down
      /\ \A id \in DOMAIN fdb' : fdb'[id].reps # <<>>
      /\ Covered' /\ (Exact(u) => FlowsAccounted')
      /\ Dark(u.fdb) => Dark(fdb')
      /\ Orderly(u.fdb, {}) => Orderly(fdb', {})
  BY <1>2, ReturnDoes
<1>4. TypeOK'
  BY <1>3 DEF TypeOK
<1>5. ~Overlap => (applied <=> blog_enable)
  OBVIOUS
<1>6. ~Overlap /\ Off => Off'
  BY <1>2, <1>3, <1>5 DEF Off
<1>7. FlowsAccounted => FlowsAccounted'
  BY <1>1, <1>2, <1>3
<1>8. ~Overlap /\ Off /\ PlainOrPlenty /\ Orders => Orders'
  BY <1>3, <1>5 DEF Off, Orders
<1> QED
  BY <1>3, <1>4, <1>6, <1>7, <1>8 DEF Stays

LEMMA JoinStays ==
  ASSUME TypeOK, Covered, NEW s \in Stream, NEW p \in Port, NEW r \in Rep, Join(s, p, r)
  PROVE  Stays
<1>1. PICK g \in Grant : Return(Add(Call(g), s, p, r))
  BY DEF Join
<1>2. Sound(Call(g)) /\ Settings /\ Call(g).fdb = fdb /\ Call(g).down = down
      /\ (PlainOrPlenty => NeverShort(Call(g)))
  BY CallIs
<1> DEFINE u == Add(Call(g), s, p, r)
<1>3. /\ Harmless(Call(g), u)
      /\ NeverShort(Call(g)) /\ (blog_enable \/ Dark(fdb)) /\ Orderly(fdb, {})
         => Orderly(u.fdb, {}) /\ u.down = down
  BY <1>2, AddDoes
<1> HIDE DEF u
<1>4. Return(u) /\ (Overlap \/ applied = blog_enable)
      /\ UNCHANGED <<blog_enable, applied, rules, tag>> /\ dirty' \subseteq LanDev \cup WanDev
  BY <1>1 DEF u, Join, Daemon, vlan, TypeOK
<1> QED
  BY <1>2, <1>3, <1>4, CallStays DEF Orders

LEMMA WipeStays ==
  ASSUME TypeOK, Covered, NEW S, S \subseteq DOMAIN fdb, Closed(fdb, S), NEW R, Wipe(S, R)
  PROVE  Stays
<1> DEFINE u == DelReporters(Call(Nothing), S, R)
<1>1. Sound(Call(Nothing)) /\ Call(Nothing).fdb = fdb /\ Call(Nothing).down = down
  BY CallIs
<1>2. Harmless(Call(Nothing), u) /\ u.down = down /\ (Orderly(fdb, {}) => Orderly(u.fdb, {}))
  BY <1>1, WipedDoes
<1>3. Return(u) /\ (Overlap \/ applied = blog_enable)
      /\ UNCHANGED <<blog_enable, applied, rules, tag>> /\ dirty' \subseteq LanDev \cup WanDev
  BY DEF Wipe, Calm, vlan, TypeOK
<1> HIDE DEF u
<1> QED
  BY <1>2, <1>3, CallStays DEF Orders

LEMMA DelEntriesStays ==
  ASSUME TypeOK, Covered, NEW S, S \subseteq DOMAIN fdb, Closed(fdb, S), DelEntries(S)
  PROVE  Stays
<1> DEFINE u == ForEach(Call(Nothing), S, DelEntry)
<1>1. Sound(Call(Nothing)) /\ Call(Nothing).fdb = fdb /\ Call(Nothing).down = down
  BY CallIs
<1>2. Harmless(Call(Nothing), u) /\ u.down = down /\ (Orderly(fdb, {}) => Orderly(u.fdb, {}))
  BY <1>1, DeletedDoes
<1>3. Return(u) /\ (Overlap \/ applied = blog_enable)
      /\ UNCHANGED <<blog_enable, applied, rules, tag>> /\ dirty' \subseteq LanDev \cup WanDev
  BY DEF DelEntries, Calm, vlan, TypeOK
<1> HIDE DEF u
<1> QED
  BY <1>2, <1>3, CallStays DEF Orders

LEMMA NotifyStays ==
  ASSUME TypeOK, Covered, NEW dev, VlanNotify(dev)
  PROVE  Stays
<1>1. PICK g \in Grant : Return(ReactivateRoots(Deactivate(Call(g), {dev}), {dev}))
  BY DEF VlanNotify
<1>2. Sound(Call(g)) /\ Settings /\ Call(g).fdb = fdb /\ Call(g).down = down
      /\ (PlainOrPlenty => NeverShort(Call(g)))
  BY CallIs
<1> DEFINE u == ReactivateRoots(Deactivate(Call(g), {dev}), {dev})
<1>3. /\ Harmless(Call(g), u)
      /\ NeverShort(Call(g)) /\ (blog_enable \/ Dark(fdb)) /\ Orderly(fdb, {})
         => Orderly(u.fdb, {}) /\ u.down = down
  BY <1>2, NotifyDoes
<1> HIDE DEF u
<1>4. Return(u) /\ (Overlap \/ applied = blog_enable)
      /\ UNCHANGED <<blog_enable, applied, rules, tag>> /\ dirty' \subseteq LanDev \cup WanDev
  BY <1>1 DEF u, VlanNotify, Calm, TypeOK
<1> QED
  BY <1>2, <1>3, <1>4, CallStays DEF Orders

LEMMA RulesChangeStays ==
  ASSUME TypeOK, Covered, NEW dev \in LanDev \cup WanDev, RulesChange(dev)
  PROVE  Stays
<1>1. UNCHANGED <<fdb, live, down, blog_enable, applied>>
  BY DEF RulesChange, table
<1>2. rules' \in [WanDev -> 0..MaxRules] /\ tag' \in [LanDev -> Tag]
  BY DEF RulesChange, TypeOK
<1>3. TypeOK'
  BY <1>1, <1>2 DEF TypeOK, RulesChange
<1> QED
  BY <1>1, <1>3 DEF Stays, Covered, Off, FlowsAccounted, Orders

LEMMA StoreStays ==
  ASSUME TypeOK, Covered, StoreBlogEnable
  PROVE  Stays
<1>1. UNCHANGED <<fdb, live, down, applied, rules, tag, dirty>> /\ blog_enable' \in BOOLEAN
  BY DEF StoreBlogEnable, table, vlan
<1>2. TypeOK'
  BY <1>1 DEF TypeOK
<1> QED
  BY <1>1, <1>2 DEF Stays, Covered, Off, FlowsAccounted, Orders

LEMMA ProcessStays ==
  ASSUME TypeOK, Covered, ProcessBlogEnable
  PROVE  Stays
<1>1. PICK g \in Grant : Return(IF blog_enable THEN ReactivateRoots(Call(g), LanDev)
                              ELSE Deactivate(Call(g), LanDev))
  BY DEF ProcessBlogEnable
<1>2. /\ Sound(Call(g)) /\ Settings /\ Call(g).fdb = fdb /\ Call(g).down = down
      /\ (PlainOrPlenty => NeverShort(Call(g)))
      /\ Exact(Call(g)) <=> FlowsAccounted
  BY CallIs
<1>3. applied # blog_enable /\ applied' = blog_enable /\ applied \in BOOLEAN
      /\ blog_enable \in BOOLEAN /\ UNCHANGED <<blog_enable, rules, tag, dirty>>
  BY DEF ProcessBlogEnable, vlan, TypeOK
<1>4. ASSUME NEW u, Sound(u), Return(u)
      PROVE  TypeOK'
  BY <1>3, <1>4, ReturnDoes DEF TypeOK
<1>5. CASE blog_enable
  <2> DEFINE u == ReactivateRoots(Call(g), LanDev)
  <2>1. Return(u)
    BY <1>1, <1>5
  <2>2. /\ Sound(u) /\ (FlowsAccounted /\ Dark(fdb) => Exact(u))
        /\ PlainOrPlenty /\ Dark(fdb) /\ Orderly(fdb, {})
           => Orderly(u.fdb, {}) /\ u.down = down
    BY <1>2, <1>5, SwitchOnDoes
  <2> HIDE DEF u
  <2>3. ~applied /\ applied'
    BY <1>3, <1>5
  <2>4. Covered' /\ (Exact(u) => FlowsAccounted') /\ (Orderly(u.fdb, {}) => Orderly(fdb', {}))
        /\ down' = u.down
    BY <2>1, <2>2, ReturnDoes
  <2>5. TypeOK'
    BY <2>1, <2>2, <1>4
  <2> QED
    BY <2>2, <2>3, <2>4, <2>5 DEF Stays, Off, Orders
<1>6. CASE ~blog_enable
  <2> DEFINE u == Deactivate(Call(g), LanDev)
  <2>1. Return(u)
    BY <1>1, <1>6
  <2>2. /\ Harmless(Call(g), u) /\ Dark(u.fdb) /\ u.down = down
        /\ Orderly(fdb, {}) => Orderly(u.fdb, {})
    BY <1>2, SwitchOffDoes
  <2> HIDE DEF u
  <2>3. Sound(u) /\ (FlowsAccounted => Exact(u))
    BY <2>2, <1>2 DEF Harmless
  <2>4. Covered' /\ (Exact(u) => FlowsAccounted') /\ (Orderly(u.fdb, {}) => Orderly(fdb', {}))
        /\ (Dark(u.fdb) => Dark(fdb')) /\ down' = u.down
    BY <2>1, <2>3, ReturnDoes
  <2>5. TypeOK'
    BY <2>1, <2>3, <1>4
  <2> QED
    BY <2>2, <2>3, <2>4, <2>5 DEF Stays, Off, Orders
<1> QED
  BY <1>5, <1>6

LEMMA NextStays ==
  ASSUME TypeOK, Covered, [Next]_vars
  PROVE  Stays
<1>1. ASSUME NEW s \in Stream, NEW p \in Port, NEW r \in Rep, Leave(s, p, r)
      PROVE  Stays
  <2> DEFINE S == Subscription(fdb, s, p)
             R == {x \in Rep : x.addr = r.addr}
  <2>1. S \subseteq DOMAIN fdb /\ Closed(fdb, S)
    BY SameKeyIs DEF Subscription, Closed
  <2>2. Wipe(S, R)
    BY <1>1 DEF Leave
  <2> HIDE DEF S, R
  <2> QED
    BY <2>1, <2>2, WipeStays
<1>2. ASSUME NEW r \in Rep, WipeReporterByMac(r)
      PROVE  Stays
  <2> DEFINE R == {x \in Rep : x.mac = r.mac}
  <2>1. Closed(fdb, DOMAIN fdb)
    BY DEF Closed
  <2>2. Wipe(DOMAIN fdb, R)
    BY <1>2 DEF WipeReporterByMac
  <2> HIDE DEF R
  <2> QED
    BY <2>1, <2>2, WipeStays
<1>3. ASSUME NEW r \in Rep, NEW dev, WipeReporterForPort(r, dev)
      PROVE  Stays
  <2> DEFINE S == {id \in DOMAIN fdb : fdb[id].port.dev = dev}
             R == {x \in Rep : x.addr = r.addr}
  <2>1. S \subseteq DOMAIN fdb /\ Closed(fdb, S)
    BY SameKeyIs DEF Closed
  <2>2. Wipe(S, R)
    BY <1>3 DEF WipeReporterForPort
  <2> HIDE DEF S, R
  <2> QED
    BY <2>1, <2>2, WipeStays
<1>4. ASSUME NEW s, NEW dev, WipeGroup(s.grp, dev)
      PROVE  Stays
  <2> DEFINE S == {id \in DOMAIN fdb : fdb[id].stream.grp = s.grp /\ fdb[id].port.dev = dev}
  <2>1. S \subseteq DOMAIN fdb /\ Closed(fdb, S)
    BY SameKeyIs DEF Closed
  <2>2. DelEntries(S)
    BY <1>4 DEF WipeGroup
  <2> HIDE DEF S
  <2> QED
    BY <2>1, <2>2, DelEntriesStays
<1>5. ASSUME NEW dev, DevGone(dev)
      PROVE  Stays
  <2> DEFINE S == {id \in DOMAIN fdb : Touches(fdb[id], {dev})}
  <2>1. S \subseteq DOMAIN fdb /\ Closed(fdb, S)
    BY SameKeyIs DEF Closed, Touches
  <2>2. DelEntries(S)
    BY <1>5 DEF DevGone
  <2> HIDE DEF S
  <2> QED
    BY <2>1, <2>2, DelEntriesStays
<1>6. ASSUME Flush
      PROVE  Stays
  <2>1. Closed(fdb, DOMAIN fdb)
    BY DEF Closed
  <2> QED
    BY <2>1, <1>6, DelEntriesStays DEF Flush
<1>7. ASSUME UNCHANGED vars
      PROVE  Stays
  BY <1>7 DEF vars, Stays, TypeOK, Covered, Off, FlowsAccounted, Orders
<1> QED
  BY <1>1, <1>2, <1>3, <1>4, <1>5, <1>6, <1>7, JoinStays, RulesChangeStays, NotifyStays,
     StoreStays, ProcessStays DEF Next

LEMMA InitStays ==
  ASSUME Init
  PROVE  TypeOK /\ Covered /\ Off /\ FlowsAccounted /\ Orders
<1>1. fdb = <<>> /\ ~down /\ live = 0 /\ DOMAIN fdb = {} /\ applied
  BY DEF Init
<1>2. Flows(fdb) = {} /\ Cardinality(Flows(fdb)) = 0
  <2>1. Flows(fdb) = {}
    BY <1>1 DEF Flows
  <2> QED
    BY <2>1, FS_EmptySet
<1>3. TypeOK
  <2>1. <<>> \in Seq(EntryType) /\ live \in 0..Capacity
    BY <1>1, McastFdbAssumption
  <2>2. blog_enable = TRUE /\ applied = TRUE /\ down = FALSE
    BY DEF Init
  <2>3. <<blog_enable, applied, down>> \in BOOLEAN \X BOOLEAN \X BOOLEAN
    BY <2>2
  <2> QED
    BY <2>1, <2>3, <1>1 DEF Init, TypeOK
<1>4. Orders
  BY <1>1 DEF Orders, Orderly, Waiting, OneTag, CopiesKept, OneEntry, Plain
<1> QED
  BY <1>1, <1>2, <1>3, <1>4 DEF Covered, Off, FlowsAccounted, Flows
-----------------------------------------------------------------------------
(* Theorems                                                                *)

\* At all times, the moments between the store to blog_enable and its
\* processing included, the flow cache holds at least the flows the entries
\* have: no entry counts on a flow that is gone.
THEOREM AlwaysCovered == Spec => [](TypeOK /\ Covered)
<1>1. Init => TypeOK /\ Covered
  BY InitStays
<1>2. TypeOK /\ Covered /\ [Next]_vars => (TypeOK /\ Covered)'
  BY NextStays DEF Stays
<1> QED
  BY <1>1, <1>2, PTL DEF Spec

\* Joins, leaves, departures, VLAN changes and the acceleration switch keep the
\* types of the entries and settings, whatever fails; no entry of the bucket is
\* ever without a reporter, and the flow cache is never asked for more flows
\* than it holds.
THEOREM TypeCorrect == Spec => []TypeOK
BY AlwaysCovered, PTL

\* A join never ends the subscription of someone else, also when it meets a
\* VLAN conflict, a full flow cache or a lack of memory, and also between the
\* store to blog_enable and its processing: what bcm_mcast_igmp_add deletes on
\* its error paths are its own entry and copies.
THEOREM JoinsKeepOthers == Spec => []JoinKeepsOthers
<1>1. TypeOK /\ Covered => JoinKeepsOthers
  <2> SUFFICES ASSUME TypeOK, Covered, NEW s \in Stream, NEW p \in Port, NEW r \in Rep,
                      NEW g \in Grant
               PROVE  SubscribersOf(fdb) \subseteq SubscribersOf(Add(Call(g), s, p, r).fdb)
    BY DEF JoinKeepsOthers
  <2>1. Sound(Call(g)) /\ Settings /\ Call(g).fdb = fdb
    BY CallIs
  <2>2. KeepsRoots(fdb, Add(Call(g), s, p, r).fdb)
    BY <2>1, AddDoes
  <2> QED
    BY <2>2, SubscribersKept
<1> QED
  BY <1>1, AlwaysCovered, PTL

LEMMA AlwaysAccounted == ~Overlap => (Spec => [](Off /\ FlowsAccounted))
<1> SUFFICES ASSUME ~Overlap
             PROVE  Spec => [](Off /\ FlowsAccounted)
  OBVIOUS
<1>1. Init => Off /\ FlowsAccounted
  BY InitStays
<1>2. TypeOK /\ Covered /\ Off /\ FlowsAccounted /\ [Next]_vars => (Off /\ FlowsAccounted)'
  BY NextStays DEF Stays
<1> QED
  BY <1>1, <1>2, AlwaysCovered, PTL DEF Spec

\* The flow cache holds one flow for each entry that has one: whatever deletes
\* an entry or takes its flow back releases the flow, and no entry is processed
\* that has a flow still.  The condition is that no other operation comes
\* between the store to blog_enable and its processing.
THEOREM AllFlowsAccounted == ~Overlap => (Spec => []FlowsAccounted)
<1> SUFFICES ASSUME ~Overlap
             PROVE  Spec => []FlowsAccounted
  OBVIOUS
<1>1. Spec => [](Off /\ FlowsAccounted)
  BY AlwaysAccounted
<1> QED
  BY <1>1, PTL

LEMMA AlwaysOrderly == ~Overlap /\ PlainOrPlenty => (Spec => []Orders)
<1> SUFFICES ASSUME ~Overlap, PlainOrPlenty
             PROVE  Spec => []Orders
  OBVIOUS
<1>1. Init => Orders
  BY InitStays
<1>2. TypeOK /\ Covered /\ Off /\ Orders /\ [Next]_vars => Orders'
  BY NextStays DEF Stays
<1>3. Spec => [](Off /\ FlowsAccounted)
  BY AlwaysAccounted
<1> QED
  BY <1>1, <1>2, <1>3, AlwaysCovered, PTL DEF Spec

\* One port of the switch never gets a stream with two tags, nor partly from
\* the flow cache: bcm_mcast_blog_process refuses a second tag, and what it
\* refuses is taken back for the whole stream.  The condition is that no call
\* takes the branch of bcm_mcast_blog_vlan_process in which blog_get fails for
\* a copy, nor activates the copy of an entry the flow cache refused: there is
\* one VLAN rule at most, or memory does not run out and the flow cache refuses
\* no entry before one at a later address.
THEOREM TagsAgree == ~Overlap /\ PlainOrPlenty => (Spec => []OneTagPerRoot)
<1> SUFFICES ASSUME ~Overlap, PlainOrPlenty
             PROVE  Spec => []OneTagPerRoot
  OBVIOUS
<1>1. TypeOK /\ Orders => OneTagPerRoot
  <2> SUFFICES ASSUME TypeOK, Orders, NEW e \in Entries, NEW f \in Entries,
                      SameRoot(e, f), e.flow
               PROVE  f.flow /\ f.lan_tci = e.lan_tci
    BY DEF OneTagPerRoot
  <2>1. PICK x \in DOMAIN fdb, y \in DOMAIN fdb : e = fdb[x] /\ f = fdb[y]
    BY DEF Entries, Range
  <2> QED
    BY <2>1 DEF Orders, Orderly, OneTag
<1>2. Spec => []Orders
  BY AlwaysOrderly
<1> QED
  BY <1>1, <1>2, AlwaysCovered, PTL

\* A copy always stands beside one root entry with the same reporters, both
\* with flows, under the same condition: where blog_get fails for a copy the
\* code deletes the root entry and keeps the copy.
THEOREM CopiesHaveRoots == ~Overlap /\ PlainOrPlenty => (Spec => []CopiesFollowRoot)
<1> SUFFICES ASSUME ~Overlap, PlainOrPlenty
             PROVE  Spec => []CopiesFollowRoot
  OBVIOUS
<1>1. TypeOK /\ Orders => CopiesFollowRoot
  <2> SUFFICES ASSUME TypeOK, Orders
               PROVE  CopiesFollowRoot
    OBVIOUS
  <2>1. ASSUME NEW e \in Entries, ~e.root
        PROVE  e.flow /\ \E f \in Entries : f.root /\ SameKey(e, f) /\ f.reps = e.reps /\ f.flow
    <3>1. PICK x \in DOMAIN fdb : e = fdb[x]
      BY DEF Entries, Range
    <3>2. fdb[x].flow /\ \E y \in DOMAIN fdb : fdb[y].root /\ SameKey(fdb[x], fdb[y])
                                               /\ fdb[y].reps = fdb[x].reps /\ fdb[y].flow
      BY <3>1, <2>1 DEF Orders, Orderly, CopiesKept
    <3>3. PICK y \in DOMAIN fdb : fdb[y].root /\ SameKey(fdb[x], fdb[y])
                                  /\ fdb[y].reps = fdb[x].reps /\ fdb[y].flow
      BY <3>2
    <3>4. fdb[y] \in Entries
      BY DEF Entries, Range
    <3> QED
      BY <3>1, <3>2, <3>3, <3>4
  <2>2. \A x, y \in DOMAIN fdb :
          fdb[x].root /\ fdb[y].root /\ SameKey(fdb[x], fdb[y]) => x = y
    BY DEF Orders, Orderly, OneEntry
  <2> QED
    BY <2>1, <2>2 DEF CopiesFollowRoot
<1>2. Spec => []Orders
  BY AlwaysOrderly
<1> QED
  BY <1>1, <1>2, AlwaysCovered, PTL

\* bcm_mcast_igmp_del_entry never unlinks an entry that is freed already, under
\* the same condition.  Without it the caller of bcm_mcast_blog_process deletes
\* once more the entry that went in the place of a copy.
THEOREM NeverFreedTwice == ~Overlap /\ PlainOrPlenty => (Spec => []~down)
<1> SUFFICES ASSUME ~Overlap, PlainOrPlenty
             PROVE  Spec => []~down
  OBVIOUS
<1>1. Orders => ~down
  BY DEF Orders
<1>2. Spec => []Orders
  BY AlwaysOrderly
<1> QED
  BY <1>1, <1>2, PTL
=============================================================================
