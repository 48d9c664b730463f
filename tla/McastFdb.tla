------------------------------ MODULE McastFdb ------------------------------
(* The IPv4 forwarding entries of one bridge of the multicast snooping       *)
(* driver (char/mcast/impl1, bcm_mcast_igmp.c) and their acceleration by     *)
(* flows of the flow cache (bcm_mcast_blog.c, CONFIG_BLOG).                  *)
(*                                                                           *)
(* Every operation runs under mc_igmp_lock and is one action, except that    *)
(* switching acceleration stores the flag before it takes the lock.  The     *)
(* entries are kept in one hash bucket.  The flow cache, the VLAN driver     *)
(* that makes the rules of an entry, and the allocators are external.        *)
(*                                                                           *)
(* A definition marked "slip" is a plausible mistake in the one after it;    *)
(* no behaviour of the model uses it (see README, "Seeded mistakes").        *)
EXTENDS Integers, Sequences, FiniteSets, SequencesExt

CONSTANTS
  Stream,     \* [grp, src, from]: groups, source and filter mode, from_dev
  Port,       \* [dev, info, root]: dst_dev, Wi-Fi info, root device of dst_dev
  Rep,        \* reporters, [addr, mac]
  Bonded,     \* the devices with IFF_BONDING
  Tag,        \* VLAN tags a rule may set on the way out
  MaxRules,   \* bound on the VLAN rules of an entry
  Capacity,   \* flows the flow cache can hold
  Plenty,     \* memory that no call uses up
  Mem,        \* numbers of allocations that may succeed in one call, or Plenty
  Accept,     \* for which entries the flow cache may take a blog in one call
  Overlap     \* may other operations run before a stored blog_enable is applied?

ASSUME McastFdbAssumption ==
  /\ \A s \in Stream : {"grp", "src", "from"} = DOMAIN s
  /\ \A p \in Port : {"dev", "info", "root"} = DOMAIN p
  /\ \A r \in Rep : {"addr", "mac"} = DOMAIN r
  /\ 0 \in Tag /\ MaxRules \in Nat /\ Capacity \in Nat
  /\ Plenty \notin Int /\ Mem \subseteq Nat \cup {Plenty}
  /\ Accept \subseteq SUBSET Nat /\ Overlap \in BOOLEAN

VARIABLES
  fdb,          \* the hash bucket, head last
  live,         \* how many flows the flow cache holds for the bridge
  blog_enable,  \* mcast_ctrl->blog_enable
  applied,      \* the setting bcm_mcast_igmp_process_blog_enable last applied
  rules,        \* VLAN rules of each from_dev that match multicast UDP
  tag,          \* the tag the rules set towards each dst_dev
  dirty,        \* devices whose rules changed, not yet notified
  down          \* the kernel has unlinked an entry it had freed

table == <<fdb, live, down>>
vlan == <<rules, tag, dirty>>
vars == <<fdb, live, down, blog_enable, applied, rules, tag, dirty>>

LanDev == {p.dev : p \in Port}
WanDev == {s.from : s \in Stream}
Entries == Range(fdb)

Init ==
  /\ fdb = <<>> /\ live = 0 /\ down = FALSE
  /\ blog_enable = TRUE /\ applied = TRUE
  /\ rules \in [WanDev -> 0..MaxRules] /\ tag \in [LanDev -> Tag]
  /\ dirty = {}
-----------------------------------------------------------------------------
(* A call works on a record t: the entries, what the allocators and the flow *)
(* cache grant it, and the result of bcm_mcast_blog_process with its count   *)
(* of activations.  In a call t.fdb[id] is the entry at address id; addresses   *)
(* grow towards the head of the bucket, and t.next is that of the next new   *)
(* entry.  Between calls the address is the position in the bucket.          *)

\* mem allocations will succeed, and blog_activate for the entries at the
\* addresses in accept: the flow cache has other clients and may refuse one
\* blog and take a later one.
Grant == [mem : Mem, accept : Accept]
Nothing == [mem |-> 0, accept |-> {}]

Call(g) == [fdb |-> fdb, next |-> Len(fdb) + 1, live |-> live, down |-> down,
            grant |-> g, ret |-> 0, activates |-> 0, stop |-> FALSE]

Place(f, id) == Cardinality({x \in DOMAIN f : x <= id})
Bucket(f) ==
  [i \in 1..Cardinality(DOMAIN f) |-> f[CHOOSE id \in DOMAIN f : Place(f, id) = i]]
Return(t) == fdb' = Bucket(t.fdb) /\ live' = t.live /\ down' = t.down

\* hlist_for_each_entry_safe: what it does to the entries with an id in S, from
\* the head.  It does not see those that are added meanwhile.
ForEach(t, S, Do(_, _)) ==
  LET loop[n \in 0..t.next - 1] ==
        IF n = 0 THEN t
        ELSE IF t.next - n \in S THEN Do(loop[n - 1], t.next - n)
        ELSE loop[n - 1]
  IN  loop[t.next - 1]

\* Allocations
Short(t, n) == t.grant.mem # Plenty /\ t.grant.mem < n
Take(t, n) == [t EXCEPT !.grant.mem = IF @ = Plenty THEN Plenty ELSE @ - n]

SameStream(e, f) == e.stream = f.stream
SameRoot(e, f) == SameStream(e, f) /\ e.port.root = f.port.root
SameKey(e, f) == SameStream(e, f) /\ e.port = f.port
Touches(e, devs) == {e.port.dev, e.stream.from} \cap devs # {}

AddHead(t, e) ==
  [t EXCEPT !.fdb = [x \in DOMAIN @ \cup {t.next} |-> IF x = t.next THEN e ELSE t.fdb[x]],
            !.next = @ + 1]
Unlink(t, id) == [t EXCEPT !.fdb = Restrict(@, DOMAIN @ \ {id})]

\* bcm_mcast_blog_release: the entry gives up its flow.
Release(t, id) ==
  IF t.fdb[id].flow THEN [t EXCEPT !.fdb[id].flow = FALSE, !.live = @ - 1] ELSE t

\* Slip: the entry goes and its flow stays.
DelEntryKeepsFlow(t, id) ==
  IF id \in DOMAIN t.fdb THEN Unlink(t, id) ELSE [t EXCEPT !.down = TRUE]

\* bcm_mcast_igmp_del_entry for all reporters.  Unlinking an entry a second
\* time follows a poisoned pointer.
DelEntry(t, id) ==
  IF id \in DOMAIN t.fdb THEN Unlink(Release(t, id), id) ELSE [t EXCEPT !.down = TRUE]

\* bcm_mcast_igmp_del_entry for the first reporter that is in R; the entry
\* goes with its last reporter.
DelReporter(t, id, R) ==
  LET reps == RemoveFirstMatch(t.fdb[id].reps, LAMBDA x : x \in R)
  IN  IF reps = <<>> THEN DelEntry(t, id) ELSE [t EXCEPT !.fdb[id].reps = reps]

\* bcm_mcast_igmp_fdb_copy: an inactive copy with all the reporters, at the
\* head.  It needs memory for the entry and for each reporter.
CopyCost(t, id) == 1 + Len(t.fdb[id].reps)
\* Slip: the copy has no reporters.
FdbCopyBare(t, id) ==
  AddHead(Take(t, CopyCost(t, id)),
          [t.fdb[id] EXCEPT !.root = FALSE, !.reps = <<>>, !.flow = FALSE])
FdbCopy(t, id) ==
  AddHead(Take(t, CopyCost(t, id)), [t.fdb[id] EXCEPT !.root = FALSE, !.flow = FALSE])

\* blog_activate of a blog for entry id; a copy that gets no flow is deleted.
Activate(t, id) ==
  IF t.live < Capacity /\ id \in t.grant.accept
  THEN [t EXCEPT !.fdb[id].flow = TRUE, !.live = @ + 1, !.activates = @ + 1]
  ELSE IF t.fdb[id].root THEN t ELSE DelEntry(t, id)

\* One turn of the loop of bcm_mcast_blog_vlan_process: the first rule uses
\* the entry itself, every other rule a copy of it.  When blog_get fails for a
\* copy, it is the entry that is deleted and the copy that stays.
VlanRule(t, id, rule) ==
  LET copies == rule > 1
      c == IF copies THEN FdbCopy(t, id) ELSE t
      new == IF copies THEN t.next ELSE id
  IN  IF t.stop THEN t
      ELSE IF copies /\ Short(t, CopyCost(t, id))
      THEN [t EXCEPT !.stop = TRUE, !.grant.mem = 0]
      ELSE IF Short(c, 1)
      THEN [(IF copies THEN DelEntry(c, id) ELSE c) EXCEPT !.stop = TRUE]
      ELSE Activate(Take(c, 1), new)

VlanProcess(t, id) ==
  LET count == rules[t.fdb[id].stream.from]
      loop[n \in 0..count] ==
        IF n = 0 THEN [t EXCEPT !.activates = 0, !.stop = FALSE]
        ELSE VlanRule(loop[n - 1], id, n)
  IN  loop[count]

\* Slip: compares the devices, not their root devices.
ConflictOnDev(t, id) ==
  LET e == t.fdb[id]
  IN  \E x \in DOMAIN t.fdb \ {id} :
        LET dst == t.fdb[x]
        IN  /\ SameStream(e, dst) /\ e.port.dev = dst.port.dev
            /\ e.lan_tci # dst.lan_tci \/ ~dst.flow

\* Another entry of the stream on the same root device has another tag or no
\* flow.
Conflict(t, id) ==
  LET e == t.fdb[id]
  IN  \E x \in DOMAIN t.fdb \ {id} :
        LET dst == t.fdb[x]
        IN  SameRoot(e, dst) /\ (e.lan_tci # dst.lan_tci \/ ~dst.flow)

\* bcm_mcast_blog_process
BlogProcess(t, id) ==
  LET e == t.fdb[id]
      u == [Take(t, 2) EXCEPT !.fdb[id].lan_tci = tag[e.port.dev]]
      v == VlanProcess(u, id)
  IN  IF ~blog_enable THEN [t EXCEPT !.ret = 0]
      ELSE IF e.port.dev \in Bonded THEN [t EXCEPT !.ret = -2]
      ELSE IF Short(t, 2) \/ rules[e.stream.from] = 0 THEN [t EXCEPT !.ret = -1]
      ELSE IF Conflict(u, id) THEN [u EXCEPT !.ret = -2]
      ELSE [v EXCEPT !.ret = IF v.activates = 0 THEN -1 ELSE 0]
-----------------------------------------------------------------------------
(* Joins and leaves, from the messages of the multicast daemon.              *)

\* The one daemon sends its messages in turn.  Other callers may come between
\* the store to blog_enable and the locked processing of it, if Overlap.
Daemon == ~down /\ applied = blog_enable
Calm == ~down /\ (Overlap \/ applied = blog_enable)

\* Root entries lose their flows, copies go.
Unaccelerate(t, S) ==
  ForEach(t, S, LAMBDA u, id : IF u.fdb[id].root THEN Release(u, id) ELSE DelEntry(u, id))

\* The entries of a subscription, copies included.
Subscription(f, s, p) == {id \in DOMAIN f : f[id].stream = s /\ f[id].port = p}

\* bcm_mcast_igmp_update for one matching entry: the reporter is refreshed,
\* or added if there is memory for it.
AddReporter(t, id, r) ==
  IF (\E i \in DOMAIN t.fdb[id].reps : t.fdb[id].reps[i].addr = r.addr) \/ Short(t, 1)
  THEN t
  ELSE [Take(t, 1) EXCEPT !.fdb[id].reps = Append(@, r)]

\* Slip: returns at the first entry that matches.
UpdateFirst(t, s, p, r) == AddReporter(t, Max(Subscription(t.fdb, s, p)), r)

\* bcm_mcast_igmp_update
Update(t, s, p, r) ==
  ForEach(t, Subscription(t.fdb, s, p), LAMBDA u, id : AddReporter(u, id, r))

\* The entry bcm_mcast_igmp_add makes.  Its lan_tci comes from the message;
\* it is overwritten before the entry gets a flow.
NewEntry(s, p, r) ==
  [stream |-> s, port |-> p, root |-> TRUE, reps |-> <<r>>, lan_tci |-> 0, flow |-> FALSE]

\* Slip: clears away the conflicting entries, root or not.
RemoveAllConflicters(t, s) ==
  ForEach(t, {id \in DOMAIN t.fdb : t.fdb[id].stream = s}, DelEntry)

\* The VLAN conflict clean-up: the stream loses all its copies and flows.
RemoveConflicters(t, s) == Unaccelerate(t, {id \in DOMAIN t.fdb : t.fdb[id].stream = s})

AddNew(t, s, p, r) ==
  LET u == BlogProcess(AddHead(Take(t, 2), NewEntry(s, p, r)), t.next)
  IN  IF u.ret = -1 THEN DelEntry(u, t.next)
      ELSE IF u.ret = -2 THEN RemoveConflicters(u, s)
      ELSE u

\* bcm_mcast_igmp_add
Add(t, s, p, r) ==
  IF Subscription(t.fdb, s, p) # {} THEN Update(t, s, p, r)
  ELSE IF Short(t, 2) THEN t
  ELSE AddNew(t, s, p, r)

Join(s, p, r) ==
  /\ Daemon
  /\ \E g \in Grant : Return(Add(Call(g), s, p, r))
  /\ UNCHANGED <<blog_enable, applied, vlan>>

\* Deletes a reporter in R from each entry in S that has one.
DelReporters(t, S, R) == ForEach(t, S, LAMBDA u, id : DelReporter(u, id, R))

Wipe(S, R) ==
  /\ Calm
  /\ Return(DelReporters(Call(Nothing), S, R))
  /\ UNCHANGED <<blog_enable, applied, vlan>>

\* bcm_mcast_igmp_remove; a reporter that times out goes the same way.
Leave(s, p, r) == Wipe(Subscription(fdb, s, p), {x \in Rep : x.addr = r.addr})

\* A Wi-Fi station disconnects.
WipeReporterByMac(r) == Wipe(DOMAIN fdb, {x \in Rep : x.mac = r.mac})

\* A reporter moved away from a port.
WipeReporterForPort(r, dev) ==
  Daemon /\ Wipe({id \in DOMAIN fdb : fdb[id].port.dev = dev}, {x \in Rep : x.addr = r.addr})

\* Deletes the entries in S.
DelEntries(S) ==
  /\ Calm
  /\ Return(ForEach(Call(Nothing), S, DelEntry))
  /\ UNCHANGED <<blog_enable, applied, vlan>>

WipeGroup(grp, dev) ==
  /\ Daemon
  /\ DelEntries({id \in DOMAIN fdb : fdb[id].stream.grp = grp /\ fdb[id].port.dev = dev})
-----------------------------------------------------------------------------
(* Devices, VLAN rules and the acceleration switch.                          *)

\* bcm_mcast_igmp_update_bydev with activate 0: dev went away.
DevGone(dev) == DelEntries({id \in DOMAIN fdb : Touches(fdb[id], {dev})})

\* ... and with no device: snooping is switched off or the bridge goes.
Flush == DelEntries(DOMAIN fdb)

\* A root entry is processed again; if it comes back with an error it goes.
Reactivate(t, id) ==
  LET u == BlogProcess(t, id) IN IF u.ret < 0 THEN DelEntry(u, id) ELSE u

ReactivateRoots(t, devs) ==
  ForEach(t, {id \in DOMAIN t.fdb : t.fdb[id].root /\ Touches(t.fdb[id], devs)}, Reactivate)

Deactivate(t, devs) == Unaccelerate(t, {id \in DOMAIN t.fdb : Touches(t.fdb[id], devs)})

\* vlanctl changes the rules of a device; the entries are told later.
RulesChange(dev) ==
  /\ Calm
  /\ \/ /\ dev \in WanDev
        /\ \E n \in 0..MaxRules : rules' = [rules EXCEPT ![dev] = n]
        /\ UNCHANGED tag
     \/ /\ dev \in LanDev
        /\ \E g \in Tag : tag' = [tag EXCEPT ![dev] = g]
        /\ UNCHANGED rules
  /\ dirty' = dirty \cup {dev}
  /\ UNCHANGED <<table, blog_enable, applied>>

\* bcm_mcast_igmp_update_bydev with activate 1.
VlanNotify(dev) ==
  /\ Calm /\ dev \in dirty
  /\ dirty' = dirty \ {dev}
  /\ \E g \in Grant :
       Return(ReactivateRoots(Deactivate(Call(g), {dev}), {dev}))
  /\ UNCHANGED <<blog_enable, applied, rules, tag>>

\* bcm_mcast_process_blog_enable stores the flag ...
StoreBlogEnable ==
  /\ Daemon
  /\ blog_enable' = ~blog_enable
  /\ UNCHANGED <<table, applied, vlan>>

\* ... and bcm_mcast_igmp_process_blog_enable acts on it under the lock.
ProcessBlogEnable ==
  /\ ~down /\ applied # blog_enable
  /\ applied' = blog_enable
  /\ \E g \in Grant :
       Return(IF blog_enable THEN ReactivateRoots(Call(g), LanDev)
              ELSE Deactivate(Call(g), LanDev))
  /\ UNCHANGED <<blog_enable, vlan>>

Next ==
  \/ \E s \in Stream, p \in Port, r \in Rep : Join(s, p, r) \/ Leave(s, p, r)
  \/ \E r \in Rep : WipeReporterByMac(r)
  \/ \E r \in Rep, dev \in LanDev : WipeReporterForPort(r, dev)
  \/ \E s \in Stream, dev \in LanDev : WipeGroup(s.grp, dev)
  \/ \E dev \in LanDev \cup WanDev :
       DevGone(dev) \/ RulesChange(dev) \/ VlanNotify(dev)
  \/ Flush
  \/ StoreBlogEnable
  \/ ProcessBlogEnable

Spec == Init /\ [][Next]_vars
-----------------------------------------------------------------------------
(* Properties *)

\* Who is subscribed; a copy repeats the reporters of its root.
SubscribersOf(f) ==
  UNION {{<<f[id].stream, f[id].port, f[id].reps[j]>> : j \in DOMAIN f[id].reps} :
           id \in {x \in DOMAIN f : f[x].root}}

EntryType ==
  [stream : Stream, port : Port, root : BOOLEAN, reps : Seq(Rep), lan_tci : Tag,
   flow : BOOLEAN]

\* The entries, the flow cache and the settings keep their types; every entry
\* has a reporter.
TypeOK ==
  /\ fdb \in Seq(EntryType) /\ live \in 0..Capacity
  /\ \A id \in DOMAIN fdb : fdb[id].reps # <<>>
  /\ <<blog_enable, applied, down>> \in BOOLEAN \X BOOLEAN \X BOOLEAN
  /\ rules \in [WanDev -> 0..MaxRules] /\ tag \in [LanDev -> Tag]
  /\ dirty \subseteq LanDev \cup WanDev

\* One port of the switch never gets a stream with two tags, nor with a tag
\* from the flow cache next to entries that are not accelerated: on a root
\* device all entries of a stream have flows that set the same tag, or none
\* has a flow (bcm_mcast_blog.c:1092, "We do not support different egress
\* vlan modifications destined to same root device").  Not so once the flow
\* cache refused an entry its flow and took the one of its copy, or memory ran
\* out for a copy.
OneTagPerRoot ==
  \A e, f \in Entries :
    SameRoot(e, f) /\ e.flow => f.flow /\ f.lan_tci = e.lan_tci

\* A copy made for a further VLAN rule stands beside one root entry with the
\* same reporters and both have a flow, so that what removes or ages the one
\* removes or ages the other; under the same condition.
CopiesFollowRoot ==
  /\ \A e \in Entries : ~e.root =>
       /\ e.flow
       /\ \E f \in Entries :
            f.root /\ SameKey(e, f) /\ f.reps = e.reps /\ f.flow
  /\ \A x, y \in DOMAIN fdb :
       fdb[x].root /\ fdb[y].root /\ SameKey(fdb[x], fdb[y]) => x = y

\* The flow cache holds one flow for each entry that has one: no flow goes on
\* forwarding for an entry that is gone or was processed again.
FlowsAccounted == live = Cardinality({id \in DOMAIN fdb : fdb[id].flow})

\* Whatever join comes next, also one that runs into a VLAN conflict, a full
\* flow cache or a lack of memory: it never ends another subscription.
JoinKeepsOthers ==
  \A s \in Stream, p \in Port, r \in Rep, g \in Grant :
    SubscribersOf(fdb) \subseteq SubscribersOf(Add(Call(g), s, p, r).fdb)

\* The first join of a stream, which nothing can conflict with.
FirstJoinAccelerated(s, p, r) ==
  /\ Join(s, p, r) /\ blog_enable /\ p.dev \notin Bonded /\ ~down'
  /\ \A e \in Entries : e.stream # s

\* Such a join is undone or leaves a flow: bcm_mcast_blog_process reports an
\* error, and the entry goes, or 0, "activated flow" (bcm_mcast_blog.c:754).
ActivatedMeansFlow ==
  [][\A s \in Stream, p \in Port, r \in Rep :
       FirstJoinAccelerated(s, p, r) /\ (\E e \in Entries' : e.stream = s)
       => \E e \in Entries' : e.stream = s /\ e.flow]_vars
=============================================================================
