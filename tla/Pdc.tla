-------------------------------- MODULE Pdc --------------------------------
(***************************************************************************)
(* The crypto DMA driver, bcmdrivers/opensource/char/pdc/impl1/pdc.c.      *)
(* Clients (the SPU crypto driver, from any CPU) hand requests to a        *)
(* channel with pdc_send_data; the DMA engine answers each channel's       *)
(* requests in ring order; one interrupt handler and one kernel thread     *)
(* (pdc_work_thread) serve all channels and run the clients' callbacks.    *)
(*                                                                         *)
(* A step of the model is what runs under one channel's pdc_lock, one      *)
(* access to a register or variable shared by the interrupt handler, the   *)
(* work thread and the hardware, or one step of the hardware itself.       *)
(*                                                                         *)
(* A definition marked "slip" is a plausible mistake in the one after it;  *)
(* no behaviour of the model uses it (see README, "Seeded mistakes").      *)
(***************************************************************************)
EXTENDS Integers, Sequences

CONSTANTS
  NumChan,       \* pdcg->num_chan, from the device tree
  RingEntries,   \* PDC_RING_ENTRIES
  RxBudget,      \* PDC_RX_BUDGET
  MaxQueued,     \* pdc_send_data refuses a request when msg_count exceeds it
  Msg,           \* the requests (struct brcm_message) clients own
  NoMsg,         \* a NULL message
  Cost           \* Cost[m]: the descriptors m needs, the header one included

ASSUME PdcAssumption ==
  /\ NumChan \in Nat \ {0}
  /\ RingEntries \in Nat \ {0, 1}
  /\ RxBudget \in Nat \ {0}
  /\ MaxQueued \in Nat
  /\ NoMsg \notin Msg
  \* A request that needs more than a whole ring is never posted (it stays
  \* at the head of msg_list for good): clients are assumed not to build one.
  /\ Cost \in [Msg -> [rx : 1..RingEntries-1, tx : 1..RingEntries-1]]

Chan == 0 .. NumChan-1
Idx  == 0 .. RingEntries-1

VARIABLES
  pdc,         \* pdc[c]: struct pdc_state of channel c
  hwrx,        \* hwrx[c]: the engine's current rx descriptor (status0)
  intstatus,   \* channels whose bit is set in the interrupt status register
  intmask,     \* TRUE when the interrupt mask register holds int_mask
  work_avail,  \* pdcg->work_avail
  worker,      \* the locals of pdc_work_thread and where it stands
  irq          \* the locals of pdc_irq_handler and where it stands

vars == <<pdc, hwrx, intstatus, intmask, work_avail, worker, irq>>

-----------------------------------------------------------------------------
(* Ring arithmetic: the macros of pdc.h. The code masks with              *)
(* RingEntries-1, a power of two minus one.                                *)

IncrdNoMask(i, n)  == i + n   \* slip: the mask forgotten
Incrd(i, n)        == (i + n) % RingEntries
Nextd(i)           == Incrd(i, 1)
DescrCount(hd, tl) == (hd - tl) % RingEntries
DescrSpaceAll(hd, tl) == RingEntries - DescrCount(hd, tl)   \* slip: no gap kept
DescrSpace(hd, tl) == DescrCount(tl, hd + 1)

(***************************************************************************)
(* One channel. rxp_ctx, numd and sof are indexed by descriptor; a         *)
(* descriptor is written when a request is posted and never cleared.       *)
(* posted is a history variable: the requests posted and not yet taken     *)
(* back, oldest first, with the descriptors each one starts at.            *)
(***************************************************************************)
InitState ==
  [rxin |-> 0, rxout |-> 0, txin |-> 0, txout |-> 0, last_rx_curr |-> 0,
   rxp_ctx  |-> [i \in Idx |-> NoMsg],
   numd     |-> [i \in Idx |-> [rx |-> 0, tx |-> 0]],
   sof      |-> [i \in Idx |-> FALSE],
   msg_list |-> << >>,
   posted   |-> << >>]

\* Slip: a request that exactly fills the ring is refused.
DescrCheckStrict(s, m) ==
  /\ Cost[m].rx < DescrSpace(s.rxout, s.rxin)
  /\ Cost[m].tx < DescrSpace(s.txout, s.txin)

\* pdc_descr_check: the rx ring, then the tx ring, has room for m.
DescrCheck(s, m) ==
  /\ Cost[m].rx <= DescrSpace(s.rxout, s.rxin)
  /\ Cost[m].tx <= DescrSpace(s.txout, s.txin)

\* The start-of-frame flags once n rx descriptors are written from start on:
\* pdc_rx_list_init flags the first, pdc_rx_list_sg_add leaves the others bare.
SofAfter(s, n) ==
  [i \in Idx |-> IF i = s.rxout THEN TRUE
                 ELSE IF DescrCount(i, s.rxout) < n THEN FALSE
                 ELSE s.sof[i]]

\* Post m: build its rx and tx descriptors and ring the doorbell.
Post(s, m) ==
  [s EXCEPT !.rxp_ctx[s.rxout] = m,
            !.numd[s.rxout]    = Cost[m],
            !.sof              = SofAfter(s, Cost[m].rx),
            !.rxout            = Incrd(@, Cost[m].rx),
            !.txout            = Incrd(@, Cost[m].tx),
            !.posted           = Append(@, [msg |-> m, rx |-> s.rxout, tx |-> s.txout])]

Enqueue(s, m) == [s EXCEPT !.msg_list = Append(@, m)]

\* pdc_send_queued_data: post the request at the head of msg_list if there
\* is one and it fits.
SendQueuedData(s) ==
  IF s.msg_list # << >> /\ DescrCheck(s, Head(s.msg_list))
  THEN Post([s EXCEPT !.msg_list = Tail(@)], Head(s.msg_list))
  ELSE s

\* Slip: the tx ring is given back the rx count.
ReclaimTxByRx(s) ==
  LET n == s.numd[s.rxin]
  IN  [s EXCEPT !.txin   = Incrd(@, n.rx),
                !.rxin   = Incrd(@, n.rx),
                !.posted = Tail(@)]

\* The completed request at rxin is taken back and its descriptors reclaimed.
Reclaim(s) ==
  LET n == s.numd[s.rxin]
  IN  [s EXCEPT !.txin   = Incrd(@, n.tx),
                !.rxin   = Incrd(@, n.rx),
                !.posted = Tail(@)]

\* Slip: any finished descriptor counts as the whole request.
ReadyAny(s) == DescrCount(s.last_rx_curr, s.rxin) # 0

\* Whether the descriptors the driver knows to be done cover the oldest request.
Ready(s) ==
  LET n == DescrCount(s.last_rx_curr, s.rxin)
  IN  n # 0 /\ n >= s.numd[s.rxin].rx

\* The engine's position is read again only when the saved one shows nothing.
Refresh(s, h) == IF Ready(s) THEN s ELSE [s EXCEPT !.last_rx_curr = h]

-----------------------------------------------------------------------------
Queued(c) == {pdc[c].msg_list[i] : i \in DOMAIN pdc[c].msg_list}
Posted(c) == {pdc[c].posted[i].msg : i \in DOMAIN pdc[c].posted}

\* A client sends its message again no sooner than in the message's callback
\* (spu_rx_callback sends the next chunk of a long request there).
Idle(m) == \A c \in Chan : m \notin Queued(c) \cup Posted(c)

Init ==
  /\ pdc = [c \in Chan |-> InitState]
  /\ hwrx = [c \in Chan |-> 0]
  /\ intstatus = {}
  /\ intmask = TRUE
  /\ work_avail = FALSE
  /\ worker = [at |-> "wait", ch |-> 0, msg_rcvd |-> 0, count |-> 0,
               msg |-> NoMsg, status |-> {}]
  /\ irq = [at |-> "idle", status |-> {}]

\* Slip: a request that fits is posted past those waiting on msg_list.
SendDataOvertake(c, m) ==
  /\ Idle(m)
  /\ Len(pdc[c].msg_list) <= MaxQueued
  /\ pdc' = [pdc EXCEPT ![c] =
               IF DescrCheck(@, m) THEN Post(@, m) ELSE Enqueue(@, m)]
  /\ UNCHANGED <<hwrx, intstatus, intmask, work_avail, worker, irq>>

\* pdc_send_data: a client queues m on channel c. (A refused request, when
\* msg_count is over the limit, changes nothing.)
SendData(c, m) ==
  /\ Idle(m)
  /\ Len(pdc[c].msg_list) <= MaxQueued
  /\ pdc' = [pdc EXCEPT ![c] =
               SendQueuedData(Enqueue(@, m))]
  /\ UNCHANGED <<hwrx, intstatus, intmask, work_avail, worker, irq>>

-----------------------------------------------------------------------------
(* The DMA engine (external): it fills the posted rx descriptors in order  *)
(* and raises the channel's interrupt at the end of each frame, that is    *)
(* when the next descriptor starts a frame or is not posted yet            *)
(* (PDC_LAZY_FRAMECOUNT is 1).                                             *)

HwAdvance(c) ==
  /\ hwrx[c] # pdc[c].rxout
  /\ LET h == Nextd(hwrx[c])
     IN  /\ hwrx' = [hwrx EXCEPT ![c] = h]
         /\ intstatus' = IF h = pdc[c].rxout \/ pdc[c].sof[h]
                         THEN intstatus \cup {c} ELSE intstatus
  /\ UNCHANGED <<pdc, intmask, work_avail, worker, irq>>

-----------------------------------------------------------------------------
(* pdc_irq_handler, one step per access to shared state.                   *)

IrqMask ==
  /\ irq.at = "idle"
  /\ intmask /\ intstatus # {}
  /\ intmask' = FALSE
  /\ irq' = [irq EXCEPT !.at = "read"]
  /\ UNCHANGED <<pdc, hwrx, intstatus, work_avail, worker>>

IrqRead ==
  /\ irq.at = "read"
  /\ irq' = [at |-> "ack", status |-> intstatus]
  /\ UNCHANGED <<pdc, hwrx, intstatus, intmask, work_avail, worker>>

IrqAck ==
  /\ irq.at = "ack"
  /\ intstatus' = intstatus \ irq.status
  /\ irq' = [at |-> "wake", status |-> {}]
  /\ UNCHANGED <<pdc, hwrx, intmask, work_avail, worker>>

IrqWake ==
  /\ irq.at = "wake"
  /\ work_avail' = TRUE
  /\ irq' = [irq EXCEPT !.at = "idle"]
  /\ UNCHANGED <<pdc, hwrx, intstatus, intmask, worker>>

-----------------------------------------------------------------------------
(* pdc_work_thread.                                                        *)

WorkerWake ==
  /\ worker.at = "wait"
  /\ work_avail
  /\ worker' = [worker EXCEPT !.at = "poll", !.ch = 0, !.msg_rcvd = 0, !.count = 0]
  /\ UNCHANGED <<pdc, hwrx, intstatus, intmask, work_avail, irq>>

\* pdc_crypto_engine_poll finds the oldest request of the channel done.
PollReady ==
  /\ worker.at = "poll" /\ worker.ch < NumChan
  /\ LET c == worker.ch
         s == Refresh(pdc[c], hwrx[c])
     IN  /\ Ready(s)
         /\ pdc' = [pdc EXCEPT ![c] = SendQueuedData(Reclaim(s))]
         /\ worker' = [worker EXCEPT !.at = "callback", !.msg = s.rxp_ctx[s.rxin]]
  /\ UNCHANGED <<hwrx, intstatus, intmask, work_avail, irq>>

\* pdc_crypto_engine_poll finds nothing and only remembers what it read.
PollEmpty ==
  /\ worker.at = "poll" /\ worker.ch < NumChan
  /\ LET c == worker.ch
         s == Refresh(pdc[c], hwrx[c])
     IN  /\ ~Ready(s)
         /\ pdc' = [pdc EXCEPT ![c] = s]
         /\ worker' = [worker EXCEPT !.ch = @ + 1]
  /\ UNCHANGED <<hwrx, intstatus, intmask, work_avail, irq>>

\* Slip: the for loop is left after a message, so channel 0 goes first again.
CallbackBreak ==
  /\ worker.at = "callback"
  /\ worker' = [worker EXCEPT !.at = "poll", !.msg = NoMsg, !.ch = NumChan,
                              !.msg_rcvd = @ + 1]
  /\ UNCHANGED <<pdc, hwrx, intstatus, intmask, work_avail, irq>>

\* msg->rx_callback: the client has its message back.
Callback ==
  /\ worker.at = "callback"
  /\ worker' = [worker EXCEPT !.at = "poll", !.msg = NoMsg, !.ch = @ + 1,
                              !.msg_rcvd = @ + 1]
  /\ UNCHANGED <<pdc, hwrx, intstatus, intmask, work_avail, irq>>

AfterPollingAlways(count) == "read"   \* slip: the budget is not looked at

\* Where the thread goes when the polling loop is left with count frames done.
AfterPolling(count) == IF count = RxBudget THEN "wait" ELSE "read"

\* All channels were polled once: poll them again, or leave the loop.
PollRound ==
  /\ worker.at = "poll" /\ worker.ch = NumChan
  /\ LET total == worker.count + worker.msg_rcvd
         again == worker.msg_rcvd # 0 /\ total < RxBudget
     IN  worker' = [worker EXCEPT !.at = IF again THEN "poll" ELSE AfterPolling(total),
                                  !.ch = 0, !.msg_rcvd = 0,
                                  !.count = IF again THEN total ELSE 0]
  /\ UNCHANGED <<pdc, hwrx, intstatus, intmask, work_avail, irq>>

WorkerReadStatus ==
  /\ worker.at = "read"
  /\ worker' = [worker EXCEPT !.at = "ack", !.status = intstatus]
  /\ UNCHANGED <<pdc, hwrx, intstatus, intmask, work_avail, irq>>

\* The bits read are cleared; the thread is done only if none was set.
WorkerAckStatus ==
  /\ worker.at = "ack"
  /\ intstatus' = intstatus \ worker.status
  /\ worker' = [worker EXCEPT !.at = IF worker.status = {} THEN "done" ELSE "wait",
                              !.status = {}]
  /\ UNCHANGED <<pdc, hwrx, intmask, work_avail, irq>>

\* Slip: the interrupts are enabled before work_avail is cleared.
WorkerUnmaskFirst ==
  /\ worker.at = "done"
  /\ intmask' = TRUE
  /\ worker' = [worker EXCEPT !.at = "unmask"]
  /\ UNCHANGED <<pdc, hwrx, intstatus, work_avail, irq>>

WorkerClear ==
  /\ worker.at = "done"
  /\ work_avail' = FALSE
  /\ worker' = [worker EXCEPT !.at = "unmask"]
  /\ UNCHANGED <<pdc, hwrx, intstatus, intmask, irq>>

WorkerUnmask ==
  /\ worker.at = "unmask"
  /\ intmask' = TRUE
  /\ worker' = [worker EXCEPT !.at = "wait"]
  /\ UNCHANGED <<pdc, hwrx, intstatus, work_avail, irq>>

-----------------------------------------------------------------------------
Irq == IrqMask \/ IrqRead \/ IrqAck \/ IrqWake

Worker ==
  \/ WorkerWake \/ PollReady \/ PollEmpty \/ Callback \/ PollRound
  \/ WorkerReadStatus \/ WorkerAckStatus \/ WorkerClear \/ WorkerUnmask

Next ==
  \/ \E c \in Chan, m \in Msg : SendData(c, m)
  \/ \E c \in Chan : HwAdvance(c)
  \/ Irq
  \/ Worker

Spec == Init /\ [][Next]_vars

\* The engine keeps working on posted descriptors, a raised interrupt is
\* taken, and the scheduler runs the work thread. Clients need not send.
Fairness ==
  /\ \A c \in Chan : WF_vars(HwAdvance(c))
  /\ WF_vars(Irq)
  /\ WF_vars(Worker)

FairSpec == Spec /\ Fairness

-----------------------------------------------------------------------------
(* Properties.                                                             *)

Entry == [msg : Msg, rx : Idx, tx : Idx]
Numd  == [rx : 0 .. RingEntries-1, tx : 0 .. RingEntries-1]

ChanState ==
  [rxin : Idx, rxout : Idx, txin : Idx, txout : Idx, last_rx_curr : Idx,
   rxp_ctx : [Idx -> Msg \cup {NoMsg}], numd : [Idx -> Numd],
   sof : [Idx -> BOOLEAN], msg_list : Seq(Msg), posted : Seq(Entry)]

WorkerState ==
  [at : {"wait", "poll", "callback", "read", "ack", "done", "unmask"},
   ch : 0 .. NumChan, msg_rcvd : Nat, count : Nat, msg : Msg \cup {NoMsg},
   status : SUBSET Chan]

\* Every variable holds a value of its C type: all ring indices stay inside
\* the ring (pdc_build_rxd, pdc_build_txd, pdc_crypto_engine_poll).
TypeOK ==
  /\ pdc \in [Chan -> ChanState]
  /\ hwrx \in [Chan -> Idx]
  /\ intstatus \in SUBSET Chan
  /\ intmask \in BOOLEAN
  /\ work_avail \in BOOLEAN
  /\ worker \in WorkerState
  /\ irq \in [at : {"idle", "read", "ack", "wake"}, status : SUBSET Chan]

\* How many descriptors past the oldest outstanding one an index lies.
RxDist(s, i) == DescrCount(i, s.rxin)
TxDist(s, i) == DescrCount(i, s.txin)

\* Where the run of descriptors of an outstanding request ends.
RxEnd(s, e) == RxDist(s, e.rx) + Cost[e.msg].rx
TxEnd(s, e) == TxDist(s, e.tx) + Cost[e.msg].tx

Layout(s) ==
  LET p == s.posted
  IN  /\ p = << >> => s.rxin = s.rxout /\ s.txin = s.txout
      /\ p # << >> => p[1].rx = s.rxin /\ p[1].tx = s.txin
      /\ \A i \in DOMAIN p :
           IF i = Len(p)
           THEN RxEnd(s, p[i]) = RxDist(s, s.rxout) /\ TxEnd(s, p[i]) = TxDist(s, s.txout)
           ELSE RxEnd(s, p[i]) = RxDist(s, p[i+1].rx) /\ TxEnd(s, p[i]) = TxDist(s, p[i+1].tx)

\* The outstanding requests of a channel occupy consecutive, disjoint runs of
\* both rings, from rxin and txin up to rxout and txout: the ring indices,
\* which pdc_descr_check and the poll move independently, never let a new
\* request overlap one the engine still owns.
RingLayout == \A c \in Chan : Layout(pdc[c])

Slots(s) ==
  \A i \in DOMAIN s.posted :
    LET e == s.posted[i]
    IN  s.rxp_ctx[e.rx] = e.msg /\ s.numd[e.rx] = Cost[e.msg]

\* What the poll will read at the first descriptor of each outstanding request,
\* the message and its descriptor counts, is still what was written when it
\* was posted: the slots are reused but never while their request is out.
SlotsIntact == \A c \in Chan : Slots(pdc[c])

Between(s, h) ==
  /\ RxDist(s, s.last_rx_curr) <= RxDist(s, h)
  /\ RxDist(s, h) <= RxDist(s, s.rxout)

\* The driver's saved engine position never runs ahead of the engine, and the
\* engine never runs ahead of what is posted; so pdc_crypto_engine_poll only
\* takes back a request the engine has finished.
EngineBetween == \A c \in Chan : Between(pdc[c], hwrx[c])

\* A request left on msg_list always has an outstanding one ahead of it, whose
\* completion will call pdc_send_queued_data: nothing else would ever post it.
NoStrandedQueue ==
  \A c \in Chan : pdc[c].msg_list # << >> => pdc[c].posted # << >>

\* The engine has filled every descriptor of the oldest outstanding request.
Complete(c) ==
  /\ pdc[c].posted # << >>
  /\ DescrCount(hwrx[c], pdc[c].rxin) >= Cost[Head(pdc[c].posted).msg].rx

\* When the thread has "finished work" and enabled the interrupts again, every
\* finished request is either taken back or has an interrupt pending: the
\* thread does not go to sleep on an answer.
NoLostWork ==
  (worker.at = "wait" /\ ~work_avail /\ irq.at = "idle" /\ intmask)
     => \A c \in Chan : Complete(c) => intstatus # {}

\* The interrupt stays masked while the thread has work, so the handler and
\* the thread never both acknowledge the interrupt status.
OneAcknowledger ==
  irq.at # "idle" => worker.at = "wait" /\ ~intmask /\ ~work_avail

\* Every request pdc_send_data accepts is given back through its callback.
EveryRequestAnswered ==
  \A m \in Msg : (\E c \in Chan : m \in Queued(c) \cup Posted(c)) ~> worker.msg = m

-----------------------------------------------------------------------------
(* What the driver promises its clients (module PdcService): a request is   *)
(* outstanding on its channel whether it sits in the rings or on msg_list. *)

Outstanding(s) == [i \in DOMAIN s.posted |-> s.posted[i].msg] \o s.msg_list

Service == INSTANCE PdcService WITH
  queue     <- [c \in Chan |-> Outstanding(pdc[c])],
  answering <- worker.msg

ServiceSpec == Service!Spec
=============================================================================
