----------------------------- MODULE McastTimer -----------------------------
(* The timer of one bridge of the multicast snooping driver                  *)
(* (char/mcast/impl1, bcm_mcast_igmp.c; bcm_mcast_mld.c has the same code    *)
(* for IPv6).  One kernel timer ages both the reporters in the forwarding    *)
(* entries and the packets that wait for the daemon's admission verdict.     *)
(*                                                                           *)
(* Times are jiffies that do not wrap.  A reporter here is a reporter of one *)
(* subscription; what the entries are good for is in McastFdb.               *)
(*                                                                           *)
(* A definition marked "slip" is a plausible mistake in the one after it;    *)
(* no behaviour of the model uses it (see README, "Seeded mistakes").        *)
EXTENDS Integers

CONSTANTS
  Rep,          \* reporters
  MaxDelayed,   \* BCM_MCAST_MAX_DELAYED_SKB_COUNT
  Timeouts,     \* membership timeouts the daemon may set, 0 is not refused
  SkbTimeout,   \* BCM_MCAST_NETLINK_SKB_TIMEOUT_MS
  Slack,        \* BCM_MCAST_FDB_TIMER_TIMEOUT
  MaxTime       \* bound on the clock

ASSUME McastTimerAssumption ==
  /\ MaxDelayed \in Nat
  /\ Timeouts \subseteq Nat
  /\ SkbTimeout \in Nat \ {0} /\ Slack \in Nat \ {0} /\ MaxTime \in Nat

VARIABLES
  now,          \* jiffies
  timeout,      \* igmp_general_query_timeout_secs, 0 until the daemon sets it
  snooping,     \* igmp_snooping: disabled, standard, blocking
  tstamp,       \* when each reporter times out, or NoTime
  expiryTime,   \* when the packet in each slot expires, or NoTime: free
  igmp_timer,   \* when the timer fires, or NoTime
  armed         \* for the properties: when bcm_mcast_igmp_set_timer last ran,
                \* and the date before which it looked at reporters

vars == <<now, timeout, snooping, tstamp, expiryTime, igmp_timer, armed>>

Slot == 0..(MaxDelayed - 1)
NoTime == -1
Disabled == 0
Mode == 0..2

\* A daemon that never halves the timeout.  The timer code looks no further
\* ahead than two of the current timeouts.
NeverHalved == \A s, t \in Timeouts \ {0} : s < 2 * t

Init ==
  /\ now = 0 /\ timeout = 0 /\ snooping = 2
  /\ tstamp = [r \in Rep |-> NoTime]
  /\ expiryTime = [i \in Slot |-> NoTime]
  /\ igmp_timer = NoTime
  /\ armed = [at |-> 0, till |-> 0]
-----------------------------------------------------------------------------
\* Slip: one timeout ahead is where a new reporter's date is.
HorizonAtTimeout == now + timeout

\* Slip: no timer for packets while snooping is disabled.
PacketDatesIfSnooping(e) == {e[i] : i \in {j \in Slot : e[j] # NoTime /\ snooping # Disabled}}

\* The dates bcm_mcast_igmp_set_timer finds in the tables it is called with:
\* all packets, and unless snooping is disabled the reporters that time out
\* within the horizon.
Horizon == now + 2 * timeout
PacketDates(e) == {e[i] : i \in {j \in Slot : e[j] # NoTime /\ e[j] < now + 2 * SkbTimeout}}
ReporterDates(t) ==
  {t[r] : r \in {x \in Rep : snooping # Disabled /\ t[x] # NoTime /\ t[x] < Horizon}}

\* bcm_mcast_igmp_set_timer, after an operation that made the tables t and e:
\* off if there is no date, else a little after the earliest, and not after
\* the horizon.
SetTimer(t, e) ==
  /\ LET dates == PacketDates(e) \cup ReporterDates(t)
     IN  IF dates = {} THEN igmp_timer' = NoTime
         ELSE \E d \in dates \cup {Horizon} :
                /\ \A c \in dates \cup {Horizon} : d <= c
                /\ igmp_timer' = d + Slack
  /\ armed' = [at |-> now,
               till |-> IF snooping = Disabled THEN 0 ELSE now + 2 * timeout]
-----------------------------------------------------------------------------
(* The reporters.                                                            *)

\* bcm_mcast_igmp_add and bcm_mcast_igmp_update: a new or refreshed reporter.
\* Before the daemon sets a timeout it is dated now.
Report(r) ==
  /\ tstamp' = [tstamp EXCEPT ![r] = now + timeout]
  /\ SetTimer(tstamp', expiryTime)
  /\ UNCHANGED <<now, timeout, snooping, expiryTime>>

\* Reporters leave, disconnect, or go with their group or device.
Remove(S) ==
  /\ tstamp' = [r \in Rep |-> IF r \in S THEN NoTime ELSE tstamp[r]]
  /\ SetTimer(tstamp', expiryTime)
  /\ UNCHANGED <<now, timeout, snooping, expiryTime>>

\* bcm_mcast_netlink_process_set_timeout stores any timeout and does not look
\* at the timer.
SetTimeout(t) ==
  /\ timeout' = t
  /\ UNCHANGED <<now, snooping, tstamp, expiryTime, igmp_timer, armed>>

\* The snooping mode is stored, nothing else: the timer stays as it is, and so
\* do the reporters when snooping is disabled.
SnoopCfg(mode) ==
  /\ snooping' = mode
  /\ UNCHANGED <<now, timeout, tstamp, expiryTime, igmp_timer, armed>>
-----------------------------------------------------------------------------
(* The packets that wait for admission.                                      *)

\* bcm_mcast_igmp_admission_queue takes the first free slot.
AdmissionQueue(i) ==
  /\ expiryTime[i] = NoTime /\ \A j \in Slot : j < i => expiryTime[j] # NoTime
  /\ expiryTime' = [expiryTime EXCEPT ![i] = now + SkbTimeout]
  /\ SetTimer(tstamp, expiryTime')
  /\ UNCHANGED <<now, timeout, snooping, tstamp>>

\* The daemon's verdict on a packet, or the flush of those of a device: the
\* slots become free and the timer stays as it is.
AdmissionDone(S) ==
  /\ expiryTime' = [i \in Slot |-> IF i \in S THEN NoTime ELSE expiryTime[i]]
  /\ UNCHANGED <<now, timeout, snooping, tstamp, igmp_timer, armed>>
-----------------------------------------------------------------------------
(* Time.                                                                     *)

\* bcm_mcast_igmp_reporter_timeout and bcm_mcast_igmp_admission_timeout
ReportersLeft == [r \in Rep |-> IF now >= tstamp[r] THEN NoTime ELSE tstamp[r]]
PacketsLeft == [i \in Slot |-> IF expiryTime[i] < now THEN NoTime ELSE expiryTime[i]]

\* bcm_mcast_igmp_timer
Timer ==
  /\ igmp_timer # NoTime /\ igmp_timer <= now
  /\ tstamp' = ReportersLeft
  /\ expiryTime' = PacketsLeft
  /\ SetTimer(tstamp', expiryTime')
  /\ UNCHANGED <<now, timeout, snooping>>

\* Time passes; a timer that is due runs before the clock moves on.
Tick ==
  /\ now < MaxTime
  /\ igmp_timer = NoTime \/ now < igmp_timer
  /\ now' = now + 1
  /\ UNCHANGED <<timeout, snooping, tstamp, expiryTime, igmp_timer, armed>>

Next ==
  \/ \E r \in Rep : Report(r)
  \/ \E S \in SUBSET Rep : Remove(S)
  \/ \E t \in Timeouts : SetTimeout(t)
  \/ \E mode \in Mode : SnoopCfg(mode)
  \/ \E i \in Slot : AdmissionQueue(i)
  \/ \E S \in SUBSET Slot : AdmissionDone(S)
  \/ Timer
  \/ Tick

Spec == Init /\ [][Next]_vars
-----------------------------------------------------------------------------
(* Properties *)

TypeOK ==
  /\ now \in Nat /\ timeout \in Timeouts \cup {0} /\ snooping \in Mode
  /\ tstamp \in [Rep -> Nat \cup {NoTime}]
  /\ expiryTime \in [Slot -> Nat \cup {NoTime}]
  /\ igmp_timer \in Nat \cup {NoTime}
  /\ armed \in [at : Nat, till : Nat]

\* bcm_mcast_igmp_set_timer looked at this reporter when it last ran: snooping
\* was not disabled, and the date was less than two of the timeouts then ahead.
LookedAt(r) == tstamp[r] < armed.till

\* No reporter that bcm_mcast_igmp_set_timer looked at stays in the entries
\* longer than the timer's slack after it timed out, whatever operations
\* ignored the timer since; one that was stale already when it looked is gone
\* before time passes.  The reporters it did not look at have no timer until
\* the next operation that sets it: disabling snooping and enabling it again
\* does not, nor does a longer timeout after one that was halved or zero.
NoStaleReporter ==
  \A r \in Rep : tstamp[r] # NoTime /\ LookedAt(r) =>
    now <= tstamp[r] + Slack \/ now = armed.at

\* Set with snooping enabled and a timeout, the timer was set with all
\* reporters in view; so it is with a daemon that never halves the timeout.
AllLookedAt ==
  armed.till > armed.at => \A r \in Rep : tstamp[r] # NoTime => LookedAt(r)

\* A packet without a verdict is freed within the slack after it expired, in
\* every snooping mode and with every timeout.
NoStalePacket ==
  \A i \in Slot : expiryTime[i] # NoTime => now <= expiryTime[i] + Slack
=============================================================================
