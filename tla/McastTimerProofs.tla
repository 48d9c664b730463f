-------------------------- MODULE McastTimerProofs --------------------------
(***************************************************************************)
(* Proofs about module McastTimer, for any reporters, number of slots,     *)
(* timeouts and slack, and whatever the daemon sets.  The bounds on        *)
(* staleness rest on one more fact: the timer covers every packet, and     *)
(* every reporter bcm_mcast_igmp_set_timer looked at when it last ran.     *)
(***************************************************************************)
EXTENDS McastTimer, TLAPS

Dates == Nat \cup {NoTime}

\* The timer fires in time for a date.
Covers(timer, date) == timer # NoTime /\ timer <= date + Slack

PacketsCovered ==
  \A i \in Slot : expiryTime[i] # NoTime =>
    /\ expiryTime[i] <= now + SkbTimeout /\ now <= expiryTime[i] + Slack
    /\ Covers(igmp_timer, expiryTime[i])

ReportersCovered ==
  \A r \in Rep : tstamp[r] # NoTime /\ LookedAt(r) =>
    /\ now <= tstamp[r] + Slack \/ now = armed.at
    /\ Covers(igmp_timer, tstamp[r])

IInv == TypeOK /\ PacketsCovered /\ ReportersCovered

\* Every date was made with one of the timeouts, before the timer was last
\* set, and the timer was set with one of them.
WithinReach ==
  /\ armed.at <= now
  /\ armed.till > armed.at => \E t \in Timeouts : armed.till = armed.at + 2 * t
  /\ \A r \in Rep : tstamp[r] # NoTime =>
       \E t \in Timeouts \cup {0} : tstamp[r] <= armed.at + t

-----------------------------------------------------------------------------
LEMMA Numbers ==
  ASSUME TypeOK
  PROVE  /\ now \in Nat /\ timeout \in Nat /\ Horizon \in Nat
         /\ igmp_timer \in Dates /\ armed.at \in Nat /\ armed.till \in Nat
         /\ tstamp \in [Rep -> Dates] /\ expiryTime \in [Slot -> Dates]
         /\ SkbTimeout \in Nat \ {0} /\ Slack \in Nat \ {0} /\ NoTime = 0 - 1
BY McastTimerAssumption DEF TypeOK, Dates, NoTime, Horizon

LEMMA NotStaleYet ==
  ASSUME IInv
  PROVE  NoStaleReporter /\ NoStalePacket
BY DEF IInv, PacketsCovered, ReportersCovered, NoStaleReporter, NoStalePacket

-----------------------------------------------------------------------------
(* bcm_mcast_igmp_set_timer                                                *)

\* The timer it sets covers all packets that are not past twice their time,
\* and all reporters in its horizon however old they are.
LEMMA SetTimerCovers ==
  ASSUME TypeOK,
         NEW t \in [Rep -> Dates], NEW e \in [Slot -> Dates],
         \A i \in Slot : e[i] # NoTime => e[i] <= now + SkbTimeout,
         SetTimer(t, e)
  PROVE  /\ igmp_timer' \in Dates
         /\ armed' \in [at : Nat, till : Nat] /\ armed'.at = now
         /\ armed'.till = IF snooping = Disabled THEN 0 ELSE now + 2 * timeout
         /\ \A i \in Slot : e[i] # NoTime => Covers(igmp_timer', e[i])
         /\ \A r \in Rep : t[r] # NoTime /\ t[r] < armed'.till =>
              Covers(igmp_timer', t[r])
<1> DEFINE dates == PacketDates(e) \cup ReporterDates(t)
<1>1. /\ now \in Nat /\ timeout \in Nat /\ Horizon \in Nat /\ Horizon = now + 2 * timeout
      /\ SkbTimeout \in Nat \ {0} /\ Slack \in Nat \ {0} /\ NoTime = 0 - 1
  BY Numbers DEF Horizon
<1>2. ASSUME NEW d \in dates
      PROVE  d \in Nat
  BY DEF PacketDates, ReporterDates, Dates
<1>3. /\ armed' = [at |-> now,
                   till |-> IF snooping = Disabled THEN 0 ELSE now + 2 * timeout]
      /\ armed'.till \in Nat
  BY <1>1 DEF SetTimer
<1>4. ASSUME NEW i \in Slot, e[i] # NoTime
      PROVE  e[i] \in dates
  <2>1. e[i] \in Nat /\ e[i] <= now + SkbTimeout
    BY <1>4 DEF Dates
  <2>2. e[i] < now + 2 * SkbTimeout
    BY <1>1, <2>1
  <2> QED BY <1>4, <2>2 DEF PacketDates
<1>5. ASSUME NEW r \in Rep, t[r] # NoTime, t[r] < armed'.till
      PROVE  t[r] \in dates
  <2>1. t[r] \in Nat
    BY <1>5 DEF Dates
  <2>2. snooping # Disabled
    BY <1>3, <1>5, <2>1
  <2>3. t[r] < Horizon
    BY <1>1, <1>3, <1>5, <2>2
  <2> QED BY <1>5, <2>2, <2>3 DEF ReporterDates
<1>6. CASE dates = {}
  <2>1. igmp_timer' = NoTime
    BY <1>6 DEF SetTimer
  <2> QED BY <1>1, <1>3, <1>4, <1>5, <1>6, <2>1 DEF Dates
<1>7. CASE dates # {}
  <2>1. PICK d \in dates \cup {Horizon} :
          (\A c \in dates \cup {Horizon} : d <= c) /\ igmp_timer' = d + Slack
    BY <1>7 DEF SetTimer
  <2>2. d \in Nat
    BY <1>1, <1>2, <2>1
  <2> HIDE DEF dates
  <2>3. igmp_timer' \in Nat
    BY <1>1, <2>1, <2>2
  <2>4. ASSUME NEW c \in dates
        PROVE  Covers(igmp_timer', c)
    <3>1. d <= c /\ c \in Nat
      BY <1>2, <2>1
    <3> QED BY <1>1, <2>1, <2>2, <2>3, <3>1 DEF Covers
  <2> QED BY <1>1, <1>3, <1>4, <1>5, <2>3, <2>4 DEF Dates
<1> QED BY <1>6, <1>7
-----------------------------------------------------------------------------
(* The invariant is inductive.                                             *)

\* Operations that put new dates in the tables, or take dates out, and then
\* set the timer.
LEMMA TablesChanged ==
  ASSUME IInv, now' = now, timeout' = timeout, snooping' = snooping,
         tstamp' \in [Rep -> Dates], expiryTime' \in [Slot -> Dates],
         \A i \in Slot : expiryTime'[i] # NoTime =>
           expiryTime'[i] = expiryTime[i] \/ expiryTime'[i] = now + SkbTimeout,
         SetTimer(tstamp', expiryTime')
  PROVE  IInv'
<1>1. TypeOK
  BY DEF IInv
<1>2. now \in Nat /\ SkbTimeout \in Nat \ {0} /\ Slack \in Nat \ {0}
  BY <1>1, Numbers
<1>3. ASSUME NEW i \in Slot, expiryTime'[i] # NoTime
      PROVE  expiryTime'[i] <= now + SkbTimeout /\ now <= expiryTime'[i] + Slack
  <2>1. CASE expiryTime'[i] = expiryTime[i]
    BY <1>3, <2>1 DEF IInv, PacketsCovered
  <2>2. CASE expiryTime'[i] = now + SkbTimeout
    BY <1>2, <2>2
  <2> QED BY <1>3, <2>1, <2>2
<1>4. /\ igmp_timer' \in Dates
      /\ armed' \in [at : Nat, till : Nat] /\ armed'.at = now
      /\ \A i \in Slot : expiryTime'[i] # NoTime => Covers(igmp_timer', expiryTime'[i])
      /\ \A r \in Rep : tstamp'[r] # NoTime /\ tstamp'[r] < armed'.till =>
           Covers(igmp_timer', tstamp'[r])
  BY <1>1, <1>3, SetTimerCovers
<1>5. TypeOK'
  BY <1>1, <1>4 DEF TypeOK, Dates
<1>6. PacketsCovered'
  BY <1>3, <1>4 DEF PacketsCovered, Covers
<1>7. ReportersCovered'
  BY <1>4 DEF ReportersCovered, LookedAt, Covers
<1> QED
  BY <1>5, <1>6, <1>7 DEF IInv

LEMMA InitIInv ==
  Init => IInv
BY McastTimerAssumption
DEF Init, IInv, TypeOK, PacketsCovered, ReportersCovered, Mode, NoTime

LEMMA StepIInv ==
  ASSUME IInv, [Next]_vars
  PROVE  IInv'
<1>1. /\ TypeOK /\ PacketsCovered /\ ReportersCovered
      /\ tstamp \in [Rep -> Dates] /\ expiryTime \in [Slot -> Dates]
      /\ now \in Nat /\ timeout \in Nat /\ igmp_timer \in Dates
      /\ SkbTimeout \in Nat \ {0} /\ Slack \in Nat \ {0} /\ NoTime = 0 - 1
  BY Numbers DEF IInv
<1>2. ASSUME NEW r \in Rep, Report(r)
      PROVE  IInv'
  <2>1. tstamp' \in [Rep -> Dates]
    BY <1>1, <1>2 DEF Report, Dates
  <2> QED BY <1>1, <1>2, <2>1, TablesChanged DEF Report
<1>3. ASSUME NEW S \in SUBSET Rep, Remove(S)
      PROVE  IInv'
  <2>1. tstamp' \in [Rep -> Dates]
    BY <1>1, <1>3 DEF Remove, Dates
  <2> QED BY <1>1, <1>3, <2>1, TablesChanged DEF Remove
<1>4. ASSUME NEW t \in Timeouts, SetTimeout(t)
      PROVE  IInv'
  BY <1>1, <1>4, McastTimerAssumption
  DEF SetTimeout, IInv, TypeOK, PacketsCovered, ReportersCovered, LookedAt, Covers
<1>5. ASSUME NEW mode \in Mode, SnoopCfg(mode)
      PROVE  IInv'
  BY <1>1, <1>5
  DEF SnoopCfg, IInv, TypeOK, PacketsCovered, ReportersCovered, LookedAt, Covers
<1>6. ASSUME NEW i \in Slot, AdmissionQueue(i)
      PROVE  IInv'
  <2>1. /\ expiryTime' \in [Slot -> Dates]
        /\ \A j \in Slot : expiryTime'[j] = expiryTime[j] \/ expiryTime'[j] = now + SkbTimeout
    BY <1>1, <1>6 DEF AdmissionQueue, Dates
  <2>2. /\ tstamp' = tstamp /\ SetTimer(tstamp', expiryTime')
        /\ now' = now /\ timeout' = timeout /\ snooping' = snooping
    BY <1>6 DEF AdmissionQueue
  <2> QED BY <1>1, <2>1, <2>2, TablesChanged
<1>7. ASSUME NEW S \in SUBSET Slot, AdmissionDone(S)
      PROVE  IInv'
  <2>1. /\ expiryTime' \in [Slot -> Dates]
        /\ \A j \in Slot : expiryTime'[j] # NoTime => expiryTime'[j] = expiryTime[j]
        /\ UNCHANGED <<now, timeout, snooping, tstamp, igmp_timer, armed>>
    BY <1>1, <1>7 DEF AdmissionDone, Dates
  <2> QED
    BY <1>1, <2>1
    DEF IInv, TypeOK, PacketsCovered, ReportersCovered, LookedAt, Covers, Dates
<1>8. CASE Timer
  <2>1. tstamp' \in [Rep -> Dates]
    BY <1>1, <1>8 DEF Timer, ReportersLeft, Dates
  <2>2. /\ expiryTime' \in [Slot -> Dates]
        /\ \A j \in Slot : expiryTime'[j] # NoTime => expiryTime'[j] = expiryTime[j]
    BY <1>1, <1>8 DEF Timer, PacketsLeft, Dates
  <2> QED BY <1>1, <1>8, <2>1, <2>2, TablesChanged DEF Timer
<1>9. CASE Tick
  <2>1. /\ UNCHANGED <<timeout, snooping, tstamp, expiryTime, igmp_timer, armed>>
        /\ now' = now + 1 /\ (igmp_timer # NoTime => now < igmp_timer)
    BY <1>9 DEF Tick
  <2>2. TypeOK'
    BY <1>1, <2>1 DEF TypeOK
  \* The timer is ahead of the clock, and covers the date.
  <2>3. ASSUME NEW date \in Dates, Covers(igmp_timer, date)
        PROVE  now' <= date + Slack
    BY <1>1, <2>1, <2>3 DEF Covers, Dates
  <2>4. PacketsCovered'
    <3>1. ASSUME NEW i \in Slot, expiryTime[i] # NoTime
          PROVE  expiryTime[i] <= now' + SkbTimeout
      BY <1>1, <2>1, <3>1 DEF PacketsCovered, Dates
    <3> QED BY <1>1, <2>1, <2>3, <3>1 DEF PacketsCovered, Covers
  <2>5. ReportersCovered'
    BY <1>1, <2>1, <2>3 DEF ReportersCovered, LookedAt, Covers
  <2> QED BY <2>2, <2>4, <2>5 DEF IInv
<1>10. CASE UNCHANGED vars
  BY <1>1, <1>10
  DEF vars, IInv, TypeOK, PacketsCovered, ReportersCovered, LookedAt, Covers
<1> QED
  BY <1>2, <1>3, <1>4, <1>5, <1>6, <1>7, <1>8, <1>9, <1>10 DEF Next

-----------------------------------------------------------------------------
(* How far ahead the dates lie.                                            *)

\* Operations that set the timer, after they dated a reporter or none.
LEMMA ReachAtSetTimer ==
  ASSUME TypeOK, WithinReach, now' = now,
         \A r \in Rep : tstamp'[r] # NoTime =>
           tstamp'[r] = tstamp[r] \/ tstamp'[r] = now + timeout,
         SetTimer(tstamp', expiryTime')
  PROVE  WithinReach'
<1>1. /\ now \in Nat /\ timeout \in Nat /\ armed.at \in Nat
      /\ tstamp \in [Rep -> Dates] /\ NoTime = 0 - 1
      /\ Timeouts \subseteq Nat /\ timeout \in Timeouts \cup {0}
  BY Numbers, McastTimerAssumption DEF TypeOK
<1>2. /\ armed'.at = now
      /\ armed'.till = IF snooping = Disabled THEN 0 ELSE now + 2 * timeout
  BY DEF SetTimer
<1>3. armed'.till > armed'.at => \E t \in Timeouts : armed'.till = armed'.at + 2 * t
  BY <1>1, <1>2
<1>4. ASSUME NEW r \in Rep, tstamp'[r] # NoTime
      PROVE  \E t \in Timeouts \cup {0} : tstamp'[r] <= now + t
  <2>1. CASE tstamp'[r] = tstamp[r]
    <3>1. PICK t \in Timeouts \cup {0} : tstamp[r] <= armed.at + t
      BY <1>4, <2>1 DEF WithinReach
    <3>2. tstamp[r] \in Int /\ t \in Nat /\ armed.at <= now
      BY <1>1, <3>1 DEF WithinReach, Dates
    <3>3. tstamp[r] <= now + t
      BY <1>1, <3>1, <3>2
    <3> QED BY <2>1, <3>1, <3>3
  <2>2. CASE tstamp'[r] = now + timeout
    BY <1>1, <2>2
  <2> QED BY <1>4, <2>1, <2>2
<1> QED
  BY <1>1, <1>2, <1>3, <1>4 DEF WithinReach

LEMMA InitReach ==
  Init => WithinReach
BY DEF Init, WithinReach

LEMMA StepReach ==
  ASSUME TypeOK, WithinReach, [Next]_vars
  PROVE  WithinReach'
<1>1. now \in Nat /\ armed.at \in Nat /\ tstamp \in [Rep -> Dates]
  BY Numbers
<1>2. ASSUME NEW r \in Rep, Report(r)
      PROVE  WithinReach'
  <2>1. \A x \in Rep : tstamp'[x] = tstamp[x] \/ tstamp'[x] = now + timeout
    BY <1>1, <1>2 DEF Report
  <2> QED BY <1>2, <2>1, ReachAtSetTimer DEF Report
<1>3. ASSUME NEW S \in SUBSET Rep, Remove(S)
      PROVE  WithinReach'
  <2>1. \A x \in Rep : tstamp'[x] # NoTime => tstamp'[x] = tstamp[x]
    BY <1>1, <1>3 DEF Remove
  <2> QED BY <1>3, <2>1, ReachAtSetTimer DEF Remove
<1>4. ASSUME NEW i \in Slot, AdmissionQueue(i)
      PROVE  WithinReach'
  BY <1>4, ReachAtSetTimer DEF AdmissionQueue
<1>5. CASE Timer
  <2>1. \A x \in Rep : tstamp'[x] # NoTime => tstamp'[x] = tstamp[x]
    BY <1>1, <1>5 DEF Timer, ReportersLeft
  <2> QED BY <1>5, <2>1, ReachAtSetTimer DEF Timer
<1>6. CASE \/ \E t \in Timeouts : SetTimeout(t)
           \/ \E mode \in Mode : SnoopCfg(mode)
           \/ \E S \in SUBSET Slot : AdmissionDone(S)
           \/ UNCHANGED vars
  BY <1>6 DEF SetTimeout, SnoopCfg, AdmissionDone, vars, WithinReach
<1>7. CASE Tick
  BY <1>1, <1>7 DEF Tick, WithinReach
<1> QED
  BY <1>2, <1>3, <1>4, <1>5, <1>6, <1>7 DEF Next

\* With a daemon that never halves the timeout, every reach is in every view.
LEMMA ReachIsInView ==
  ASSUME NeverHalved, TypeOK, WithinReach
  PROVE  AllLookedAt
<1> SUFFICES ASSUME armed.till > armed.at, NEW r \in Rep, tstamp[r] # NoTime
             PROVE  LookedAt(r)
  BY DEF AllLookedAt
<1>1. /\ armed.at \in Nat /\ armed.till \in Nat /\ tstamp[r] \in Nat
      /\ Timeouts \subseteq Nat
  BY Numbers, McastTimerAssumption DEF Dates
<1>2. PICK t \in Timeouts : armed.till = armed.at + 2 * t
  BY DEF WithinReach
<1>3. PICK s \in Timeouts \cup {0} : tstamp[r] <= armed.at + s
  BY DEF WithinReach
<1>4. t \in Nat /\ s \in Nat
  BY <1>1, <1>2, <1>3
<1>5. t # 0
  BY <1>1, <1>2, <1>4
<1>6. s < 2 * t
  <2>1. CASE s = 0
    BY <1>4, <1>5, <2>1
  <2>2. CASE s # 0
    BY <1>2, <1>3, <1>5, <2>2 DEF NeverHalved
  <2> QED BY <2>1, <2>2
<1> QED
  BY <1>1, <1>2, <1>3, <1>4, <1>6 DEF LookedAt

-----------------------------------------------------------------------------
\* The operations keep the tables and the timer well formed, and the timer
\* covers what bcm_mcast_igmp_set_timer is there for, whatever the modes and
\* timeouts the daemon sets.
THEOREM Covered == Spec => []IInv
<1>1. Init => IInv
  BY InitIInv
<1>2. IInv /\ [Next]_vars => IInv'
  BY StepIInv
<1> QED
  BY <1>1, <1>2, PTL DEF Spec

\* No reporter bcm_mcast_igmp_set_timer looked at outlives its date by more
\* than the slack of the timer.
THEOREM ReportersAge == Spec => []NoStaleReporter
<1>1. IInv => NoStaleReporter
  BY NotStaleYet
<1> QED
  BY <1>1, Covered, PTL

\* With a daemon that never halves the timeout, bcm_mcast_igmp_set_timer looks
\* at every reporter, unless snooping is disabled or the timeout is zero.
THEOREM AllSeen == NeverHalved => (Spec => []AllLookedAt)
<1> SUFFICES ASSUME NeverHalved
             PROVE  Spec => []AllLookedAt
  OBVIOUS
<1>1. Init => WithinReach
  BY InitReach
<1>2. IInv /\ WithinReach /\ [Next]_vars => WithinReach'
  BY StepReach DEF IInv
<1>3. IInv /\ WithinReach => AllLookedAt
  BY ReachIsInView DEF IInv
<1> QED
  BY <1>1, <1>2, <1>3, Covered, PTL DEF Spec

\* No packet waits for a verdict longer than its time and the slack of the
\* timer, whatever the snooping mode and the timeouts.
THEOREM PacketsAge == Spec => []NoStalePacket
<1>1. IInv => NoStalePacket
  BY NotStaleYet
<1> QED
  BY <1>1, Covered, PTL
=============================================================================
