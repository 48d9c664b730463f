# TLA+ models of the BCM963xx drivers

The repository is the open part of Broadcom's Linux driver tree for home
gateways: some 970 files of C, most of them independent drivers that meet only
in the kernel, next to register maps and tables. This directory holds models of
the drivers whose own logic is concurrent or stateful, the TLC configurations
that check them on small instances, and theorems about them that TLAPS checks
for every size.

Contents: [the system](#the-system), [modules](#modules), [the PDC
driver](#the-pdc-driver), [multicast forwarding
entries](#multicast-forwarding-entries), [the multicast
timer](#the-multicast-timer), [the push button](#the-push-button), [the SPU
crypto driver](#the-spu-crypto-driver), [the flash layout](#the-flash-layout),
[flash stores](#flash-stores), [image update](#image-update), [runs](#runs),
[bounds](#bounds), [fairness](#fairness), [findings](#findings),
[proofs](#proofs), [seeded mistakes](#seeded-mistakes), [not
modelled](#not-modelled), [plan](#plan).

Paths below are relative to `src/bcmdrivers/opensource` unless they start with
`shared`, which is `src/shared`.

## The system

| Part | State it keeps | Operations | What is hard, what makes it right |
|---|---|---|---|
| **pdc** `char/pdc/impl1` | per channel: two descriptor rings, contexts by descriptor, a list of requests that wait; globally: an interrupt mask, `work_avail`, one thread | `pdc_send_data`, interrupt handler, work thread | ring full/empty accounting, the sleep/wake protocol between interrupt, thread and hardware. No slot is reused early, no completion is lost, answers keep order |
| **spudd** `char/spudd/impl4` | one request context per crypto operation, a table of hash handles | crypto API calls, `spu_rx_callback` | a request longer than a message is cut in chunks, each sent from the callback of the one before; every chunk accounted for once, each request completed once |
| **timer** `char/timer/impl1` | a table of up to four hardware timers | alloc, start, read, free, the interrupt | the interrupt reads the table without the lock; a freed timer must not call back |
| **mcast** `char/mcast/impl1` | per bridge: forwarding entries for IGMP and MLD with reporters, expiry times and accelerated flows; packets that wait for an admission verdict; a timer | join, leave, timer, netlink commands, verdicts, VLAN rule changes, device down | operations that fail half way, entries judged against one another, one timer for all dates; a port gets a stream with one tag, entries and flows agree, nothing outlives its timeout |
| **wfd** `net/wfd/impl1` | table of radios, one queue and one thread each | bind, unbind, interrupt, drain thread | queue drained while it is unbound |
| **btusb / GKI** `char/btusb/impl1` | pools of buffers, linked queues | get, free, enqueue, dequeue | buffer conservation, double free |
| **flash areas** `shared/opensource/flash/flash_common.c` | start, offset and number of sectors of each area | `flash_init_info` | rounding to sectors, one sector shared by two areas; no area or image reaches into another |
| **flash stores** `char/board/bcm963xx/impl1/bcm63xx_flash.c`, `board_image.c`, `board_ioctl.c` | configuration and its backup, scratch pad, boot image state, nvram, the nvram's copy in memory, four locks | set, clear, back up, restore, update the boot loader | every write reads whole sectors and writes them back, with several locks that each cover a part; power cuts between two sectors. Nobody's data is undone by somebody else, one copy of the configuration remains, memory and flash agree |
| **image update** `char/board/bcm963xx/impl1/board_image.c` | two images with sequence numbers, the boot image state, the booted partition | flash an image, choose the next one, ask which one runs | a power cut between any two writes leaves a bootable image; what was asked for is what boots |
| **push buttons** `char/board/bcm963xx/impl1/board_button.c`, `pushbutton.c` | per button: events and times, a timer, a thread, three arrays of hooks | interrupt, poll, thread, register, deregister | times and events left for a late thread, an interrupt that only the thread enables again; hooks are called for what the button really did, and it never goes dead |
| **board** `char/board/bcm963xx/impl1` | watchdog, list of dying-gasp listeners, flash and LED state | interrupts, ioctl, timers | requests from several callers, listeners at power loss |
| **dpicore** `char/dpicore/impl1` | tables of applications and devices with reference counts | lookup, add, remove | count reaches zero while in use |
| **enet, pktdma, xtmrt** `net/...` | descriptor rings between CPU and DMA engine, buffers lent to the accelerator | transmit, receive poll, open, stop | hand-over and return of buffers |
| **tzdrv, fpm, pmc, moca** | rings and mailboxes to firmware or hardware | message exchange | the peer is not in the repository |
| **serial, i2s, sim_card, board parameters, register maps...** | registers, tables | access | nothing stateful enough to model |

The parts meet in few places, all through the kernel:

* spudd hands messages to pdc with `pdc_send_data` and gets them back, on pdc's
  thread, through `msg->rx_callback`; the callback may send again at once. Both
  are modelled, and meet in `PdcService`.
* the flash stores and the image update share the flash, by the layout that
  `flash_init_info` computes at boot: the update needs its two images apart
  from each other and from the stores. The stores also share the ioctl's mutex
  with it.
* the button that restores the defaults writes the configuration from the
  button's thread (`btnHook_RestoreToDefault`), beside whoever uses the ioctl.
* mcast is called from the bridge's receive path for every IGMP or MLD packet,
  talks to a daemon over netlink, asks the VLAN driver for the rules of an
  entry and puts flows into the flow cache.
* enet, wfd and xtmrt pass buffers to the accelerator through callbacks
  registered at start-up.
* timer, board and pmc export plain functions called by everyone.

There is no state shared by all drivers, so one model per driver loses nothing,
if what drivers promise each other is stated apart. The pdc driver comes first:
it is small, complete in the repository, every line of it is about concurrency,
and everything that encrypts depends on it; its client, spudd, is checked
against the same abstract service. The multicast driver's tables are changed by
more kinds of event than any other driver's. The push buttons are the smallest
complete example of what the tree does everywhere, an interrupt, a timer and a
thread that share a few variables. The flash is where mistakes last: what is
written wrongly is still wrong after a restart, or there is none.

## Modules

| Module | Role |
|---|---|
| `Pdc` | the pdc driver: rings, interrupt handler, work thread, engine; its properties |
| `PdcService` | what the driver promises its clients: a FIFO per channel, one callback at a time |
| `PdcProofs` | the theorems about `Pdc`, among them that it implements `PdcService` |
| `McastFdb` | the multicast driver's IPv4 forwarding entries and their flows; its properties |
| `McastFdbProofs` | the theorems about `McastFdb` |
| `McastTimer` | the timer of the same driver, its dates and its packets; its properties |
| `McastTimerProofs` | the theorems about `McastTimer` |
| `PushButton` | the hooks of one push button, and which of them an event calls |
| `Button` | the button itself: interrupt, timer, thread, on top of `PushButton` |
| `ButtonProofs` | the theorems about both |
| `Spu` | requests for hashes and block ciphers, cut into messages; composed with `PdcService` |
| `SpuProofs` | the theorems about `Spu` |
| `FlashLayout` | where areas and images lie in a NOR flash: pure arithmetic |
| `FlashStore` | the stores in those areas, who writes them, under which locks |
| `FlashStoreProofs`, `FlashCopyProofs` | the theorems about both: the layout and the nvram; the copies of the configuration and the data of others |
| `ImageUpdate` | updating and choosing the software image |
| `ImageUpdateProofs` | the theorems about it |
| `MCPdc`, `MCMcastFdb`, `MCMcastTimer`, `MCButton`, `MCSpu`, `MCFlashStore`, `MCImageUpdate` | the instances TLC checks |

`Pdc` implements `PdcService` (`ImplementsService`), and `Spu` uses
`PdcService` for its channels, so what is shown of `Spu` holds on top of the
real driver. `FlashStore` extends `FlashLayout`. `ImageUpdate` takes from the
layout only three sizes and the facts, proved there, that the stores are apart
and that two images of which each fits in `AvailableTwo` are, on a flash with
`RoomForTwo`.

`McastFdb` and `McastTimer` are two views of one driver that share no state:
the dates of reporters do not decide what joins and leaves do to the entries,
and the timer does not look at anything else of an entry. A reporter that times
out is deleted by the function that a leave calls, so `Leave` in `McastFdb`,
which may happen at any time, covers it.

## The PDC driver

`pdc_state` (one per channel) is the record `pdc[c]`, field for field: `rxin`,
`rxout`, `txin`, `txout`, `last_rx_curr`, the array `rxp_ctx`, the counts kept
in the context of each request's first descriptor (`numd`) and the list
`msg_list`. `sof` is the start-of-frame flag written to each rx descriptor,
which only the hardware reads. `posted` is a history variable: the requests in
the rings, oldest first, with the descriptors they were given. Nothing in the
model's steps reads it except to keep it up to date; the properties compare
what the code's indices say with it.

`pdc_global` is `work_avail` and the two register images `intstatus` and
`intmask`. `hwrx[c]` is where the engine stands in the rx ring. `worker` and
`irq` hold the program counters and locals of the thread and of the handler.

A message is a model value with a cost: how many rx and tx descriptors its
scatterlists take, the header descriptor included. Nothing else about its
contents matters to the driver.

| Code | Action | Atomic because |
|---|---|---|
| `pdc_send_data` | `SendData` | it runs under the channel's `pdc_lock` from the check of `msg_count` to the doorbell |
| `pdc_crypto_engine_poll` | `PollReady`, `PollEmpty` | same lock; the call of `pdc_send_queued_data` at the end belongs to `PollReady` |
| `pdc_work_thread`, the callback | `Callback` | outside any lock, so it is a step of its own and any `SendData` may come before it, the client's own next chunk included |
| `pdc_work_thread`, loop ends | `PollRound` | locals only |
| `pdc_work_thread`, after the loop | `WorkerReadStatus`, `WorkerAckStatus`, `WorkerClear`, `WorkerUnmask` | one register or shared variable each |
| `pdc_irq_handler` | `IrqMask`, `IrqRead`, `IrqAck`, `IrqWake` | one access each |
| the engine (external) | `HwAdvance` | one descriptor filled; at the end of a frame the interrupt status bit is set |

The handler and the thread run on different CPUs, so their steps interleave.
Clients call from anywhere at any time. A client owns its message: it sends it
again only after it got it back (`Idle`), which in `spu_rx_callback` is inside
the callback.

What makes the driver right:

* `RingLayout`, `SlotsIntact`: the four indices, moved by different code paths,
  always describe consecutive disjoint runs of descriptors, and the context at
  the start of each run is the one written when it was posted. The arrays are
  never cleared, so an index out of step would silently return an old message.
* `EngineBetween`: the cached engine position never claims more than the engine
  did, although it is refreshed only when it shows nothing.
* `NoStrandedQueue`: a request that waits always has one ahead of it in the
  rings. `pdc_send_queued_data` posts one request at a time, and only from a
  completion or another send; without this a request could wait for ever.
* `NoLostWork`: when the thread sleeps and interrupts are on, no finished
  request is without an interrupt.
* `OneAcknowledger`: the handler and the thread never clear the interrupt
  status at the same time.
* `ServiceSpec`: seen from the clients the whole is `PdcService`.
* `EveryRequestAnswered`: what was accepted is given back.

## Multicast forwarding entries

A subscription is a stream (groups, source and filter mode, the device it comes
from) wanted at a port (destination device, Wi-Fi info) by a reporter. The
driver keeps an entry for each stream and port in a hash table, with a list of
reporters. If acceleration is on, an entry owns a flow in the flow cache, with
the VLAN tags the rules of the VLAN driver give. An entry with more than one
rule gets a copy of itself, with `root` 0, for each further rule, and each copy
owns a flow.

`fdb` is the hash bucket as a sequence, newest last, of records with the fields
of `t_igmp_grp_entry` that control anything. `live` counts the flows the flow
cache holds for the bridge, independently of what the entries say (`flow`
stands for a valid `blog_idx`). `rules[dev]` is how many VLAN rules apply to
streams from `dev`, `tag[dev]` the tag they set towards a destination; `dirty`
are the devices whose rules changed without the driver having been told.
`applied` lags behind `blog_enable` between the store to the flag and its
processing. `down` becomes true if the code unlinks an entry it already freed,
after which nothing is modelled.

Each operation takes `mc_igmp_lock` and is an action. Inside, it is a function
on a record of the call (`Call`): the entries, what the rest of the system will
grant it (`grant`: the allocations that may still succeed, and the entries
whose activation the flow cache accepts), and the result and count of
activations of `bcm_mcast_blog_process`. In it the entries have addresses that
stay the same while others come and go, as pointers do: `t.fdb` is a function
of addresses, and a new entry gets the address `t.next`. `Return` makes a
bucket of them again. `ForEach` is the kernel's loop over a bucket that may
delete the entry it is at: from the head on, without the entries that are added
meanwhile. So one join covers the search, the entry, the loop over the rules
with a copy, an allocation and an activation for each, the conflict check, and
the clean-up after each way to fail.

| Code | Action or operator |
|---|---|
| `bcm_mcast_igmp_add`, `_update` | `Join`: `Add`, `AddNew`, `Update`, `RemoveConflicters` |
| `bcm_mcast_igmp_remove`, a reporter's timeout | `Leave` |
| `bcm_mcast_igmp_wipe_reporter_by_mac`, `_for_port`, `_wipe_group` | `WipeReporterByMac`, `WipeReporterForPort`, `WipeGroup` |
| `bcm_mcast_igmp_update_bydev` | `DevGone`, `Flush` (activate 0), `VlanNotify` (activate 1) |
| `bcm_mcast_process_blog_enable`, `bcm_mcast_igmp_process_blog_enable` | `StoreBlogEnable`, `ProcessBlogEnable` |
| `bcm_mcast_blog_process`, `_vlan_process`, `_release` | `BlogProcess`, `VlanProcess`, `Release` |
| the VLAN driver (external) | `RulesChange` |

`bcm_mcast_igmp_wipe_reporter_for_port` does not take the lock in the code; the
model runs it as if it did (see "Weaknesses" below).

What makes it right: `OneTagPerRoot`, the reason for the conflict check;
`CopiesFollowRoot`, on which the removal and ageing of copies rests;
`FlowsAccounted`, that entries and flow cache agree; `JoinKeepsOthers`, that
the clean-up after a failed join ends with the join; `ActivatedMeansFlow`,
which a comment claims and the code breaks (findings).

Abstractions. All streams are in one bucket, which is the case with most
interference and makes no other difference. Flow cache entries are counted, not
named. The flow cache is shared with everyone else who forwards packets, so it
may refuse one activation of a call and accept a later one, whatever this
bridge has in it; `Accept` says which of the entries of a call can be refused
together. An allocation fails when the call's budget is used up, so every
allocation can be the first to fail, and then all later ones of the call fail
too. The daemon sends its messages one after the other (`Daemon`); the other
callers come at any time, between the two steps of `StoreBlogEnable` and
`ProcessBlogEnable` only if `Overlap`, which is `FALSE` in the runs (see the
departures under "Findings"). `BLOG_KEY_INVALID` and `BLOG_KEY_MCAST_INVALID`
are both "no flow". The tag in a join message is overwritten before it is read,
so it is left out. At boot rules and tags are arbitrary.

## The multicast timer

One kernel timer per bridge and protocol serves the reporters (`tstamp`, set to
now plus the membership timeout by each report) and the packets in
`igmp_delayed_skb` (`expiryTime`). After most operations
`bcm_mcast_igmp_set_timer` looks through both tables and sets the timer for the
earliest date, or deletes it if it sees none. It looks no further ahead than
two of the current timeouts, and at reporters only while snooping is enabled.
Verdicts, mode changes and timeout changes do not call it.

`now`, `timeout`, `snooping`, `tstamp`, `expiryTime` and `igmp_timer` are the
variables; `SetTimer` is the function, and `Report`, `Remove`, `SetTimeout`,
`SnoopCfg`, `AdmissionQueue`, `AdmissionDone` and `Timer` the operations, each
with the call of `SetTimer` where the code has it and none where the code has
none. `Tick` lets time pass and, in the manner of Lamport's clocks, not beyond
a timer that is due. A real timer may be late; what the properties bound is
then late by the same amount.

`NoStaleReporter` and `NoStalePacket` say what the timer is for. The second has
no exception: a packet is freed in time in every snooping mode, with any
timeout and after any sequence of operations. The first is about the reporters
that `bcm_mcast_igmp_set_timer` looked at when it last ran, which `LookedAt`
tells from the history variable `armed`: when it ran, and the date before which
it looked, 0 if snooping was disabled. They go in time whatever happens after
that to mode, timeout and the other reporters. The others have no timer, and
stay until an operation sets it again:

* Disabling snooping leaves reporters in the table, and the next operation
  deletes the timer. Enabling it again only stores the mode
  (`bcm_mcast_netlink.c:899`).
* A timeout of which another is the double or more, 0 included, is stored as it
  comes (`bcm_mcast_netlink.c:1073`), and a reporter that joined under the
  longer one is beyond the horizon (`bcm_mcast_igmp.c:158`).

There are no others: with a daemon that never sets one timeout to half of
another or less (`NeverHalved`) every setting of the timer with snooping on and
a timeout sees all reporters, which is the theorem `AllSeen`. A reporter that
is stale already when the timer is set, as after the first of the two, is gone
before time passes (`now = armed.at` in the property).

## The push button

A button pulls a GPIO and an external interrupt. Its press interrupt notes the
time and an event, starts a timer and turns itself off. The timer polls the
GPIO every `BTN_POLLFREQ`: while the button is down it notes a hold and goes
on, once it is up it notes the release and stops. The button's thread waits for
events, calls the hooks for them with the times that were noted, and after the
release turns the interrupt on again.

`PushButton` is `pushbutton.c` for one button: the arrays `btnPressedInfo`,
`btnHeldInfo` and `btnReleasedInfo`, the index `btnHeldIdx` of the next hold
hook, and `callInfo`, the hooks an event has chosen, which are called after the
unlock. `Button` extends it with `BtnInfo` (`active`, `timer`, `events` and the
three times), the interrupt (`irq`), the thread's place in its code (`pc`), and
the person and the clock: `down`, `dwell`, `jiffies`.

| Code | Action | Atomic because |
|---|---|---|
| the six register and deregister functions | `RegisterPress` ... `DeregisterRelease` | the module's lock |
| `doPushButtonPress`, `-Hold`, `-Release` | `DoPress`, `DoHold`, `DoRelease`, `HooksCalled` | the choice is under the lock, the calls are a step of their own |
| `btnPressIsr` | `btnPressIsr` | the button's lock |
| `btnPoll` | `PollDown`, `PollUp` | the button's lock |
| `btnThread` | `TakePress`, `Wake`, `TakeHold`, `NoHold`, `TakeRelease`, `NoRelease` | one test of `events`, with the clearing under the lock: only the thread clears events |
| `btnDoPress`, `btnDoHold`, `btnDoRelease` | `Press`, `Hold`, `Release`, `EnableIrq` | the call that takes the module's lock, with the times read just before it; enabling the interrupt is apart |
| `registerBtns` | `Init`, `Register`, `MapInterrupt` | start-up: hooks, then the interrupt |
| the person, the clock (external) | `PushDown`, `LetGo`, `Tick` | |

The thread may stop for any time between any two steps. The button stays up for
longer than the timer's period and delay between two presses (`MinUp`), so that
the timer cannot miss a release; contact bounce is not modelled. It is held for
less than the range of `jiffies`. `btnHeldIdx` can become -1, outside of the
array: what is read there is any hold hook or an empty element (a stray value,
undefined behaviour).

That index is why `HotPlug` is `FALSE` in the runs: hooks are registered before
the button is used, as `registerBtns` does.
`deregisterPushButtonHoldNotifyHook` moves `btnHeldIdx` down when it removes a
hook at or before it. At it is wrong: that hook is the next to come, and the
index then points at the one that was called last, which is called again (with
`HotPlug`, `HeldOnce` is false); from 0 it becomes -1. The registration of a
hold hook does not move the index at all: the test meant for it asks for a
`NULL` hook, which was refused above. Nothing in this tree deregisters a hold
hook, but the function is in the public header.

`btnPressIsr` is modelled without its first test, which is about shared
interrupts: `registerBtns` refuses those. `releaseIsr` is `NULL` for every
button ("not supported as of yet"), so `btnReleaseIsr` and the branches for it
are left out. Turning an interrupt off twice is the same as once, as on the
mask registers the ARM boards use.

What makes it right: `NeverDead` and `Recovers`, since the interrupt is off
from press to release and only the thread turns it on; `HeldLongEnough`,
`HeldOnce` and `ReleaseTimely`, that the hooks called are those for what the
button did; `ListsOrdered` for the arrays. `OnePress`, and `PollOnlyActive`,
where `btnPoll` has a branch commented "we should not get here", are stated and
proved without a run of their own.

## The SPU crypto driver

A request of the crypto API is cut into messages, since the engine takes at
most `max_payload` bytes in one. Only one message of a request is out at any
time: its callback, on the DMA driver's thread, sends the next, or completes
the request. A hash is more than one request: it is given data in any number of
pieces, each a request that completes, and what does not fill whole blocks is
carried over to the next of them.

`Spu` represents data by where it comes from. The bytes a hash is given, or
those of one cipher request, are a stream; a scatterlist is the sequence of the
offsets at which its entries end; a position in it is an entry and bytes to
skip, as `src_sg` and `src_skip`; an IV is the offset for which it is the right
one. So "the right bytes under the right IV" is an equation between offsets,
which the ghost `good` of a context accumulates over all its messages. The rest
of a context is the fields of `struct iproc_reqctx_s`: `todo` (`total_todo`),
`sent` (`total_sent`), `carry` (`hash_carry_len`), `final` (`is_final`), and so
on; `type` and `len` are those of the last message. `queue` and `answering`
belong to `PdcService`.

| Code | Action or operator | Atomic because |
|---|---|---|
| `ahash_init`, `ahash_hmac_init` | `AhashInit` | the caller owns the context between requests |
| `ahash_update`, `ahash_finup`, `ahash_final` | `AhashData`, `AhashFinal` | as above; the request's first message is sent by the caller |
| `ablkcipher_enqueue` | `AblkcipherEnqueue` | as above |
| `handle_ahash_req`, `handle_ablkcipher_req` | `Handle`, with `HashSent`, `Carried`, `CipherSent` | from reading the context to `pdc_send_data`, whose success hands the context to the callback |
| `spu_rx_callback`, `finish_req` | `SpuRxCallback`, `Finished` | nobody else touches the context meanwhile: that is `LockStep` |
| `spu_msg_sg_add` | `SgAdd` | |
| the DMA driver | `Answer`, `Return` | steps of `PdcService` |

Every `Handle` may also fail: no memory for the message, no mapping, no room in
the channel. The request is then completed with an error, which for a hash
means to begin again.

What makes it right: `LockStep`, that a context is with the DMA driver exactly
once while its request is open, which is why none of its fields has a lock;
`TypesRight`, the engine must be told which messages begin and end a hash, and
all but the last must be whole blocks; `NothingLost`, between two requests
everything that was not sent is carried over; `InOrder`, all bytes come once,
in order and under the right IV; `EachCompletes`. `InOrder` has two exceptions,
both in the code: requests with several scatterlist entries after their first
message (finding 3), and OFB and XTS requests that need more than one message,
which go on under the first message's IV.

## The flash layout

`FlashLayout` is `flash_init_info` and the arithmetic of `flashFsKernelImage`
as operators on a board's geometry, one operator for each field that is
computed. `AreasDisjoint` and `ImagesDisjoint` say what the results are for.
`Fits` is what the code takes for granted of a board: even sectors with room
for two tags, a first image that starts at a sector, and a flash not smaller
than what its nvram asks for and less than a quarter of what an unsigned int
can tell.

The rooms for one and for two images are unsigned in the code, and so they are
here (`% Word`). Where the areas before the first image, or those at the end,
and one sector more take over half of the flash, the room for two wraps around
to some 4 GB, and the tests at `board_image.c:964` and `:971` let any image
that has room alone be one of two. `ImagesDisjoint` says both sides of it: the
largest two images that are let in lie apart from each other and from the areas
if the room does not wrap (`RoomForTwo`), and if it does, they do not. The
scratch pad and the PSI may share a sector, which is what makes the next module
interesting.

## Flash stores

All writers of board data go the same way: `getSharedBlks` reads whole sectors
into a buffer, the caller changes its part, `setSharedBlks` erases and writes
the sectors one after the other. `semflash` is held during each of the two, not
between; what protects the data in between are four other locks with different
reach. Users come through the ioctl, one at a time; the button's thread, proc
files and drivers call the same functions at any time.

`flash[b]` is what sector `b` holds of each store that has a part in it;
`inMemNvramData` is the copy that all readers of the nvram use. A process is in
one call, whose record has its place, its argument, its buffer and the sectors
still to be written.

| Code | Action |
|---|---|
| `board_unlocked_ioctl`, the functions' first lines | `Start` |
| `mutex_lock(&spMutex)` in `kerSysScratchPadSet`, `...ClearAll`, `writeBootImageState` | `LockSp` |
| `setUserNvRam`, `commonImageWrite`, `kerSysSetOpticalPowerValues`, `__proc_set_param` up to `kerSysNvRamSet` | `LockNvram` |
| `getSharedBlks` and the change of the buffer | `Get`, `NoMemory` |
| one sector of `setSharedBlks`, or of `kerSysBcmImageSet` | `WriteBlk`, `WriteFails` |
| `updateInMemNvramData`; storing the nvram after an update of the boot loader | `Update` |
| `btnHook_RestoreToDefault`, its restart | `Restart` |
| the power (external) | `PowerCut`, which may leave one sector torn |

An operation is named for what it writes: `psi` and `default` (the button) the
configuration, `backup` its backup, `token`, `delete`, `clear` and `boot` the
scratch pad, `wlan`, `proc` and `optic` fields of the nvram, `cfe` the boot
loader, in whose sector the nvram lies.

What makes it right: `OthersKept`, that no call undoes what another changed in
the same sector meanwhile; `OneCopyLeft`, that of configuration and backup one
is whole after any single fault; `NvramMatchesMemory` and `NvramGood`, that
memory and flash agree and that an update of the boot loader leaves the nvram
as it was; `AreasApart` for the layout. `OthersKept` names what the code does
not guard, in `Unguarded`, so that the rest is strict:

* `kerSysPersistentSet` takes no lock but `semflash`. Where PSI and scratch pad
  share a sector, each may undo what the other wrote.
* `kerSysSetOpticalPowerValues` and `__proc_set_param` copy the nvram before
  they take `flashImageMutex`, and may undo a change that was made in between.
* where the scratch pad begins with its sector, the boot image state is in its
  header, and is lost when the header is written anew.
* after a failed write of the nvram, memory is behind the flash.

## Image update

`part[k]` is what is in partition `k`: a sequence number, or no valid tag, the
image's size, and whether it is complete. The tag, with the new highest number,
is written with the first sector; the rest follows over minutes. So a cut
leaves a tag that wins without an image behind it, and it is the boot loader
that falls back to the other one. `running`, `imgid` and `bootedPartition` are
what was booted, what the boot loader says of it, and what `getBootedValue` has
worked out.

| Code | Action |
|---|---|
| `flashFsKernelImage` to the end of the first sector | `Flash` |
| the other sectors, `board_ioctl`'s restart | `Overrun`, `Written`, `WriteFails` |
| `kerSysSetBootImageState` to the write of the state | `SetBootImageState`, `SetBootImageStateFails` |
| `updateSequenceNumber`, which follows either | `UpdateSeq`, `UpdateSeqFails`: no memory, or a torn tag |
| `kerSysScratchPadClearAll` | `ScratchPadClearAll` |
| `getBootedValue` | `GetBootedValue` |
| boot loader, power (external) | `Restart`, `Recover`, `PowerCut` |

All of them come by the ioctl and hold `ioctlMutex`, so calls do not
interleave; what comes in between are faults. Which partition is written
depends on which one the code takes for the current one, and that is derived
from tags and `imgid`, not remembered. That the derivation agrees with what
runs is the heart of `BootableAlways`. What the property excepts (`risk`) is
named, each case where it arises:

* an update with images of which two do not fit (`~TwoFit`);
* an update that asks for the running partition by number;
* an update which leaves alone an image that is no good (`Misled`). The comment
  at `board_image.c:968` says that the new image goes "in the partition that is
  not currently being used to boot from", and in two orders of legal calls it
  does not. In one a second update comes without a restart in between: the
  first gave the other partition the highest number, so it is the current one
  now, and the default is the running one; if the first failed half way, that
  is the only image. In the other the board runs the older partition because
  the newer one is torn, and `kerSysSetBootImageState` then makes the running
  one the newest: the code, which still thinks it runs the old one, takes the
  torn partition for the current one, and the next update writes over the
  running one. A cut there leaves nothing. Both need tags that were written
  since the boot (`moved`): the first thing done after a boot is never misled,
  which the property shows, since `Misled` does not excuse it;
* a torn tag of the only whole image, when its number is raised (`SeqTorn`).

`RequestHonoured` says that after `kerSysSetBootImageState` has granted a
partition, `kerSysGetBootImageState` tells which one the boot loader will
select, and that it is the one granted; but not if the sequence number could
not be written (`unranked`). The code ignores the result of
`updateSequenceNumber` (`:639`) and reports success, with or without memory for
the sector (`:524`), so the caller is told that the partition will boot, and
another one will. The first half of the property holds even then. `SeqDistinct`
and `BootedRight` are the other properties. Without a valid tag
`updateSequenceNumber` never ends; `Restart` is all that is left then.

## Runs

| Run | Instance | Shows |
|---|---|---|
| `pdc_rings` | one channel, 3 descriptors (2 usable), requests of different and unequal rx/tx costs, budget 1 | ring accounting through wrap-around, full rings and a waiting list; nothing lost where the budget ends a session; refinement of `PdcService` |
| `pdc_work` | two channels, two short requests, budget 2, fairness | every interleaving of engine, handler and thread around sleeping and waking; every accepted request is answered |
| `pdc_overshoot` | three channels, budget 2 | finding 1: `NoLostWork` fails |
| `mcast_ports` | one stream, two VLAN devices on one switch port, two reporters of one station; the flow cache refuses from any activation on | types; `OneTagPerRoot` through joins, conflicts, rule changes, the switch; `CopiesFollowRoot` while reporters come and go by either key |
| `mcast_memory` | two VLAN devices and a bonded one, scarce memory, room for two flows, and the flow cache refuses any one activation | `FlowsAccounted`, `JoinKeepsOthers` through every partial failure |
| `mcast_activated` | two devices on one switch port, memory fails anywhere | finding 2: `ActivatedMeansFlow` fails |
| `mcast_ageing` | two reporters, two packets, timeouts 0, 1 and 3, any order of modes | `NoStaleReporter`, `NoStalePacket` |
| `button_press` | one button with two hold hooks and two release hooks, registered in any order; fairness | `ListsOrdered`; types; `NeverDead`; hooks are called once and for true times; `Recovers` |
| `spu_chunks` | one hash and one cipher on one channel, scatterlists of one to three entries; fairness | `LockStep`, `TypesRight`, `NothingLost`, `InOrder`; `EachCompletes` |
| `spu_scatter` | one hash, one scatterlist of two entries | finding 3: `AllInOrder` fails |
| `flash_store` | some 800 layouts; on five of them a user and a kernel thread, one fault | `AreasApart` on all, those where the rooms wrap included; `OthersKept`, `OneCopyLeft`, `NvramMatchesMemory`, `NvramGood` |
| `image_update` | images of three sizes, six sequence numbers, two faults, updates and boot states in any order with and without restarts | `BootableAlways`, `SeqDistinct`, `RequestHonoured`, `BootedRight` |

Deadlock checking is off in `mcast_memory`, where the code can reach `down`,
and in `mcast_ageing`, where the clock stops at `MaxTime`.

## Bounds

`RingEntries` is 3 in `pdc_rings`: with requests of 1 or 2 descriptors in
either ring, each ring is empty, half full, exactly full and wrapped, one ring
has room when the other has not, and a request waits on `msg_list` while a
shorter one could fit. The code's 512 adds no case: all arithmetic is modulo
the ring size, and the theorems hold for every size anyway. `MaxQueued` stands
for 64 (`pdc_send_data` returns an error beyond); the limit is met in the
instances. `Msg` bounds how many requests exist at once; each is sent any
number of times, so no counter in the model needs a cap except the thread's
`count` and `msg_rcvd`, which the code bounds itself (budget plus one round).

`RxBudget` is 32 in the code, 1 in `pdc_rings` and 2 in `pdc_work`, and its
parity matters. The finished frames a polling session finds with their status
bit already acknowledged are a snapshot, and each round takes one from each
channel that has any, so the number taken per round never grows during the
session. With at most two busy channels and an even budget the count therefore
meets the budget exactly if it reaches it, and the test `PDC_RX_BUDGET ==
count` works. `pdc_rings` has the case of one channel whose session ends with
finished frames left over; three channels are the smallest instance where the
test goes wrong. For two channels with more frames than the budget there is
only this argument: that instance is too large to be checked together with
liveness.

In `McastFdb` all that entries do to one another goes through `SameStream` and
`SameRoot`. Two devices on one root are the smallest conflict; a third on
another root, in `mcast_memory`, is a bystander that must not be touched, and
being bonded it is never accelerated. `MaxRules` 2 gives an entry with a copy,
none, and no entry. `Capacity` is 6 where the cache shall not matter (two ports
with two rules) and 2 where it shall fill up between the rules of one entry.
`Mem` holds the budgets at which a different allocation of a join, a refresh or
a reactivation fails first (a join of an entry with two rules makes eight at
most: two for entry and reporter, two in `bcm_mcast_blog_process`, one for each
flow, two for the copy), or `Plenty`, which no call uses up. In `mcast_memory`
it is 2, 4, 5, 7 and 8, at which all kinds of allocation fail; 8 leaves none to
fail in a join. `Accept` is the flow cache: in `mcast_ports` it refuses every
activation from one on, in `mcast_memory` the activation of any one entry,
which may be an entry whose copy it then takes. One stream is enough since
entries of different streams never look at each other, except on removal of a
device or a reporter, which deletes one by one. The theorems hold for any
number of each.

In `McastTimer` the timeouts are 0, which nothing refuses, 1, and 3, which is
more than the double of it, so that reporters with dates beyond the horizon
occur; the packets' timeout 2 makes packets and reporters come first by turns.
`MaxTime` 8 lets a reporter time out, report again under another timeout and
time out again. `MaxDelayed` is 64 in the code, 2 here; slots are independent
but for the choice of the first free one. Without any one of the exceptions in
`NoStaleReporter` TLC finds the instance violating it, so each of them occurs.

In `Button` a press of up to 2 jiffies is polled every jiffy, so it ends before
the first poll, after it or after the second, and hold hooks at 1 and 2 become
due one by one or, with a late thread, together; of the release hooks at 1 and
3, the second is due only for the longest press, whose release the poll finds
one jiffy late. The timer is punctual in the runs (`Late` 0); the thread is as
late as it likes. `Wrap` is the least that `ButtonAssumption` allows, so that a
press spans the wrap of `jiffies` at every place. Nothing bounds the number of
presses. Press hooks, which are all called at once, play no part in the
properties and are left out of the instance. The arrays have room for two
hooks; the code's five add nothing, and the theorems hold for any number and
any delay of the timer.

In `Spu` the numbers keep their order and their divisibility: a block (2) is
less than the carry's limit (4, 2048 in the code), that less than a message (6,
some 64 KB), and both are whole blocks. Requests of 1 to 13 bytes in pieces up
to `MaxTotal` 15 are carried over, fill a message short, exactly and over, take
three messages, and leave a carry that the next request exceeds or does not.
The lists of several entries end within messages, at their ends, and in the
middle of the third.

In `FlashStore` sizes are in units of 2 KB, sectors of 4, 8, 16 and 64 KB.
`Layouts` runs through every PSI size up to 13 units with and without syslog
and auxiliary file system, for the layout alone; of its 786 layouts 462 have
room for two images, in the others that room wraps around, and in 77 of them
the room for one does too. `Word` is 2^21 units, which is 2^32 bytes. The five
boards with operations are one for each way the areas can lie: configuration of
two sectors with the scratch pad in its own; both in sectors of their own;
small sectors, where the scratch pad takes two and the boot state is in its
header; and the shared sector, once with the stores that share it and once with
the nvram's writers. On each board only the operations run that can meet, which
keeps the instance small and loses nothing: calls on different sectors have no
variable in common but the locks. Two values show whose data is there, and are
symmetric; `SpRoom` 2 lets the second token be refused and replaced; one fault
is what the properties are about (`MaxFaults` 1; the restart by the button in
the middle of another call counts as one more).

In `ImageUpdate` the three sizes are one that fits twice, one that must be
alone, and one that besides goes on into the second half. `MaxSeq` 6 is five
updates or renumberings of one board between recoveries; two faults allow a cut
in an update that follows a torn one, or one that follows a state or a sequence
number that was not written.

## Fairness

The specifications of the multicast modules state none; their properties are
safety properties, the bounds on staleness included.

`LiveSpec` of `Button` asks weak fairness of `Tick` and `LetGo` (time goes on
and a person lets go some time), of `btnPoll` (the kernel runs timers) and of
the thread as a whole, which is real-time and waits for nothing but its events
or its timeout. Nothing is asked of who presses the button or of the interrupt.

`LiveSpec` of `Spu` asks weak fairness of `Answer` for each channel, which is
what `EveryRequestAnswered` shows of `Pdc`, and of `SpuRxCallback` and
`Return`: a callback that began ends, it has no loop and waits for nothing.
Clients are free to send nothing. `FlashStore` and `ImageUpdate` state no
fairness.

For the PDC driver:

`FairSpec` asks weak fairness of three things, and of no client.

* `HwAdvance(c)`: the engine goes on while descriptors are posted. A dead
  engine answers nothing and no driver code handles it.
* `Irq`: an unmasked, raised interrupt is taken, and a handler that started
  ends; interrupts are level-triggered and the handler has no loop.
* `Worker`: the kernel schedules a runnable thread. The thread does not wait
  for anything but `work_avail`.

Liveness needs nothing about the order of these and holds although other
messages may be sent over and over.

## Findings

Runs that are expected to fail, each of one property that a comment claims.

1. `pdc_overshoot`, `NoLostWork`. The loop of `pdc_work_thread` adds up to one
   frame per channel and round to `count`, and after the loop tests
   `PDC_RX_BUDGET == count`, with the comment "budget was consumed". With three
   busy channels `count` goes from 30 to 33. The loop ends because the budget
   is used up, the test says it is not, and the thread takes the way out
   commented "finished work, enable interrupts and return": it may find an
   empty interrupt status, clear `work_avail` and sleep while finished requests
   are in the rings. Their status bits were acknowledged before, so only the
   completion of a later frame wakes it. The counterexample shows just that.
   `>=` instead of `==` would remove it. A comment in the same file speaks of
   at most four channels; whether a board has three depends on its device tree.

2. `mcast_activated`, `ActivatedMeansFlow`. In the loop over the rules, when
   `blog_get` fails for a copy, the code deletes `mc_fdb`, the entry it was
   called for, not `new_mc_fdb`. The entry's flow goes with it, the copy stays
   in the table, and the result is 0, "activated flow". In the continuation the
   caller uses the freed entry.

3. `spu_scatter`, `AllInOrder`. `spu_msg_sg_add` leaves the position after what
   it added for the next message. When that is the end of an entry, it leaves
   the entry and sets the bytes to skip to 0, which is the entry's beginning,
   not its end. The next message, or the bytes carried over, are taken from
   data that was sent before. Besides, the carry and the last block that CBC
   needs are looked for from the first entry of the list. With one entry all of
   it is right.

Departures from comments or from what a reader expects, found while modelling,
with no run of their own. The properties above except them by name, or an
assumption excludes them.

* mcast: when acceleration is switched on again or rules changed, root entries
  are processed one by one, and an entry is deleted with its reporters on every
  negative result (`bcm_mcast_igmp.c:468`, `:648`). The comment expects only
  -1, no rules; -2 comes as well, for the first of two entries on one root
  device, because the second has no flow yet.
* mcast: `blog_enable` is stored without the lock. A VLAN notification before
  `bcm_mcast_igmp_process_blog_enable` takes it activates entries which are
  then activated again; the first flow's key is lost. With `Overlap` `TRUE`,
  TLC finds `FlowsAccounted` violated.
* mcast: reporters without a timer. The horizon is twice the current timeout
  (`bcm_mcast_igmp.c:158`); after the daemon has lowered the timeout to half or
  less, or to 0, reporters with older dates may be overlooked. With snooping
  disabled the timer is deleted (`:174`), and enabling it again does not set it
  (`bcm_mcast_netlink.c:899`). In either case a reporter stays, with its flow,
  until the next operation on the bridge.
* mcast: in the loop over the rules, `bcm_mcast_blog_vlan_process` goes on when
  the flow cache refuses the flow of the first rule (`bcm_mcast_blog.c:678`),
  and if it takes that of the second, the copy has a flow beside an entry that
  has none. `CopiesFollowRoot` and `OneTagPerRoot` then do not hold; the runs
  and theorems about them ask for a flow cache that, once it has refused an
  entry of a call, refuses those after it.
* push button: if a hold and the release come between the thread's two tests,
  both events are cleared with the second and the hold hook is not called,
  although the header promises it (`board_button.c:268`). The header also says
  that a release hook is called only if the button was held for more than its
  time; the release is dated by the poll that finds it, and `ReleaseTimely`
  says by how much at most the hook is early.
* flash: the three items under "Flash stores" in which locks do not cover what
  is read before them; the comment at `board_image.c:127` asks callers of the
  nvram functions to hold the mutex from the read on. `kerSysScratchPadSet`
  returns without freeing its buffer when there is no room.
* flash: the room for two images is unsigned and wraps around where it would be
  negative (`board_image.c:942`), as told under "The flash layout". On such a
  flash, small or with a large area at its end, the second image is let in over
  the end of the first or over the areas after it.
* image update: the two orders of calls, told under "Image update", in which
  the default target is the running partition and the other one is no good
  (`board_image.c:892`, `:812`); the comment at 968 says that the update goes to
  the partition that is not in use.
* image update: `kerSysSetBootImageState` reports success when the sequence
  number could not be written (`board_image.c:639`), and raises the number even
  when it reports that the state could not. `updateSequenceNumber` gives up
  without memory (`:524`) and does not look at what `setSharedBlks` returns, so
  a torn tag goes unnoticed too.
* image update: with the state "old" and an image in partition 1 only,
  `kerSysGetBootImageState` tells partition 2 (`board_image.c:673`). No request
  leads there that names a partition, so `RequestHonoured` does not speak of
  it.
* spudd: OFB and XTS requests of more than one message. A comment says that an
  XTS block is handled in one transaction, which holds for data up to
  `max_payload`.

## Proofs

`PdcProofs` proves for every number of channels, ring size, budget, limit and
set of messages allowed by `PdcAssumption`:

| Theorem | Statement |
|---|---|
| `TypeCorrect` | `Spec => []TypeOK` |
| `RingsStayLaidOut` | `Spec => []RingLayout` |
| `SlotsStayIntact` | `Spec => []SlotsIntact` |
| `EngineStaysBetween` | `Spec => []EngineBetween` |
| `NeverStranded` | `Spec => []NoStrandedQueue` |
| `AcknowledgersTakeTurns` | `Spec => []OneAcknowledger` |
| `NoWorkIsLost` | `BudgetMet => (Spec => []NoLostWork)` |
| `ImplementsService` | `Spec => ServiceSpec` |

The assumption: at least one channel, at least two descriptors, and no request
that needs more than `RingEntries-1` descriptors. The last is not checked by
the code; such a request would stay at the head of `msg_list` for ever.

The argument has three layers. Arithmetic first: lemmas on the distance of two
indices round the ring (`DescrCount`), which turn every claim about indices
modulo the ring size into one about distances from `rxin`, where no wrap-around
is left. Then lemmas on the functions of one channel's state (`Post`,
`Reclaim`, `Refresh`, `SendQueuedData`), each saying that it preserves the
channel's part of the invariant. None of the four properties is inductive
alone: to see that `Reclaim` frees the right number of descriptors one needs
`SlotsIntact`, to see that `Post` overwrites no slot in use one needs
`RingLayout`, to see that the poll takes back only finished requests one needs
`EngineBetween`. So the invariant is their conjunction with the types. Last,
one step for each action. For `OneAcknowledger` the strengthening says which of
the handler's and the thread's positions go with which values of `intmask` and
`work_avail`; it does not touch the rings and is proved apart.
`ImplementsService` maps the posted requests followed by the waiting ones to
the abstract queue, and shows that each step either is a step of the service or
leaves the queue alone.

`NoWorkIsLost` is the counterpart of finding 1. `BudgetMet` says that there are
at most two channels and that their number divides the budget, as it does in
`pdc_work` (with three, the finding). Its invariant is about one polling
session, from the thread's waking to its enabling the interrupts. `FlagsInv`:
the first descriptor of every posted request has the start-of-frame flag, so
that the engine raises the interrupt when it has finished one; the poll finds
the oldest exactly when it is finished (`PollFindsFinished`). `Session`: while
no interrupt is raised, a channel that was found empty stays so. A count that
is not a multiple of the number of channels shows that one was found empty, and
then this round takes less than a full one; so with two channels the count
meets the budget and does not step over it, or a round finds nothing. Only then
may the thread sleep on an empty status.

`McastFdbProofs` proves, for any sets of streams, ports, reporters and tags,
any number of rules, flows and entries, and allocations that fail anywhere:

| Theorem | Statement |
|---|---|
| `AlwaysCovered` | `Spec => [](TypeOK /\ Covered)` |
| `TypeCorrect` | `Spec => []TypeOK` |
| `JoinsKeepOthers` | `Spec => []JoinKeepsOthers` |
| `AllFlowsAccounted` | `~Overlap => (Spec => []FlowsAccounted)` |
| `TagsAgree` | `~Overlap /\ PlainOrPlenty => (Spec => []OneTagPerRoot)` |
| `CopiesHaveRoots` | `~Overlap /\ PlainOrPlenty => (Spec => []CopiesFollowRoot)` |
| `NeverFreedTwice` | `~Overlap /\ PlainOrPlenty => (Spec => []~down)` |

The two conditions are those the code needs. `~Overlap` keeps other operations
out of the moment between the store to `blog_enable` and its processing, in
which a flow can be lost (see "Findings"). `PlainOrPlenty` is at most one VLAN
rule per entry, or memory that does not run out and a flow cache that refuses
no entry before one at a later address in the same call (`InTurn`). It excludes
two branches: that of finding 2, in which the wrong entry is deleted, and that
of a refused entry whose copy is accepted. With it entries and copies stay in
order; without the first part TLC shows an orphaned copy and an entry deleted
twice, without the second a copy with a flow beside an entry without.
`mcast_ports` runs with two rules, `Plenty` and refusals in turn;
`mcast_memory` with two rules, scarce memory and refusals of any one entry, and
accordingly checks what needs no condition or only `~Overlap`.

What a step does is what loops do: over the entries, over the rules of an
entry, over its reporters. A loop is a recursive function of the number of its
turns. `LoopComputes` proves that the function which `LET` defines exists and
gives each turn from the one before; `EveryTurn` carries an invariant from turn
to turn. Induction theorems of the library take an operator, which the provers
cannot instantiate; instead these two take a set, and rest on the fact that the
relation < on the naturals is well founded: a turn at which the invariant does
not hold would have a least one before it. With them each function of the
driver gets one lemma (`DelEntryDoes`, `VlanProcessDoes`, `BlogProcessDoes`,
`AddNewDoes`, and so on), and a step only puts lemmas together.

The invariant has three layers, since the theorems have different conditions.
`Sound` is kept by every call whatever fails: types, and the flow cache has
room for the flows that entries have. `Exact`, that no flow is lost, needs that
an entry is processed only without a flow; `Off`, that while acceleration is
off no entry has one, is the missing part, and it is what `Overlap` breaks.
`Orderly` is about several entries, and none of its parts is inductive alone:
`OneTag` on each root device; `CopiesKept`, a copy has its root entry, with a
flow; `OneEntry` for each subscription; and no copies where there is one rule.
Within an operation it does not hold: flows are taken back from all entries of
a device or a stream, and then given again one by one. So `Orderly(f, R)`
excuses the root entries in `R` that wait to be processed; taking back flows
makes `R` grow to the closed set of those entries, `ReactivateOrderly` takes
one out again, and for a conflict `AloneOrderly` drops what is left, since the
whole stream is then without flows.

`McastTimerProofs` proves, for any set of reporters, number of slots, packet
timeout and slack, and any set of timeouts, 0 included:

| Theorem | Statement |
|---|---|
| `Covered` | `Spec => []IInv` |
| `ReportersAge` | `Spec => []NoStaleReporter` |
| `PacketsAge` | `Spec => []NoStalePacket` |
| `AllSeen` | `NeverHalved => (Spec => []AllLookedAt)` |

That nothing is stale now says nothing about later unless the timer is set for
it. So the invariant `IInv` says that the timer fires in time for every packet
and for every reporter that was looked at. `SetTimerCovers` is about
`bcm_mcast_igmp_set_timer` alone: on any tables it establishes that, also for
dates that are past already. `TablesChanged` applies it to every operation that
ends with a call of it; the others leave timer, dates and `armed` alone, and
the clock's step is the one that uses that the timer covers. Nothing is asked
of the daemon. `AllSeen` says what it has to do so that no reporter is left
out; its invariant `WithinReach` relates the dates in the table and the horizon
of the last setting of the timer to the timeouts they were made with.

`ButtonProofs` proves, for any hooks, sizes, periods, delays and range of
`jiffies` that the assumptions allow, and with hooks registered at any time:

| Theorem | Statement |
|---|---|
| `ListsStayOrdered` | `HooksSpec => []ListsOrdered` |
| `UsesHooks` | `Spec => HooksSpec` |
| `ControlInvariant` | `Spec => [](Types /\ Control)` |
| `NeverDeadAlways`, `PollOnlyActiveAlways`, `OnePressAlways` | `Spec => []NeverDead` and so on |
| `TimesInvariant` | `Spec => []Times` |
| `HeldLongEnoughAlways` | `Spec => HeldLongEnough` |
| `ReleaseTimelyAlways` | `Spec => ReleaseTimely` |
| `ButtonTypes` | `Spec => []ButtonTypeOK` |
| `HeldOnceAlways` | `~HotPlug => (Spec => HeldOnce)` |

Two lemmas on the arrays, `InsertedOrdered` and `DeletedOrdered`, carry the
first. `Control` says for each place of the thread whether a press is on, which
events may be noted and whether the interrupt is off; the three safety
properties follow from it. `Times` relates what cannot be compared in the code:
the time since the press as `jiffies` tell it, modulo `Wrap`, and the time the
button was really down. While a press is on they agree exactly, while the
button is up the timer is due within its period and delay, so the next press
cannot start; and the times noted for the thread are no longer than those. Both
were checked with TLC on small instances before they were proved.
`HeldOnceAlways` has the hypothesis `~HotPlug`, since the property is false
with hooks that come and go. Its invariant `Once` says that the hooks called in
this press are those before `btnHeldIdx`, and that no hook is in the array
twice. `ReleaseTimelyAlways` needs to know which hooks the two loops of
`doPushButtonPress` and `doPushButtonRelease` choose for any array; how a loop
is proved about is said under `McastFdbProofs`.

`SpuProofs` proves, for any contexts on any channels, any scatterlists, block
size, IV size and limits that `SpuAssumption` allows:

| Theorem | Statement |
|---|---|
| `ContextsTyped` | `Spec => []SpuTypeOK` |
| `CarriedOver` | `Spec => []NothingLost` |
| `MessageTypes` | `Spec => []TypesRight` |
| `BytesInOrder` | `Spec => []InOrder` |
| `OneMessage` | `Spec => []LockStep` |

The assumption that matters is that `max_payload` and the carry's limit are
whole blocks; the code rounds the first to 64 bytes and blocks have up to 128,
which works because 65152 is a multiple of both. The invariant speaks of one
context as `Handle` is given it (`HashGiven`, `CipherGiven`) and as it leaves
it (`HashKept`, `CipherKept`); what is sent so far is whole blocks unless the
hash is at its end, the carry is less than what is left, and the position in
the list is exact as long as the list has one entry or this is the first
message. Below are lemmas on blocks (`div` and `%`) and on positions
(`SgAddBack`, `SgAddOne`). `OneMessage` needs nothing of the data and has an
invariant of its own about the channels.

The first part of `FlashStoreProofs` is about `FlashLayout` and proves, for
every geometry with `Fits`, sizes and sectors unbounded:

| Theorem | Statement |
|---|---|
| `LayoutDisjoint` | `AreasDisjoint(g)` |
| `LayoutImages` | `ImagesDisjoint(g)`, that is `TwoApart(g, LargestOfTwo(g)) <=> RoomForTwo(g)` |

The rounding to sectors is non-linear arithmetic, which the provers do poorly.
A few lemmas about `div` and the product by the sector's size carry all of it,
and the rest is linear. `Wraps` says what `% Word` is of a number above or just
below zero, `HalfPlace` where the second image starts, and `Bounds` that all
sums are far from `Word`; so the room for two is what it seems with
`RoomForTwo`, and without it is more than any flash has, so that only the room
for one limits an image, which reaches too far.

The rest of it, and `FlashCopyProofs`, prove for any boards, any number of
users and threads, tokens, values and faults:

| Theorem | Statement |
|---|---|
| `StoresTyped` | `Spec => []FlashStoreTypeOK` |
| `StoresApart` | `Spec => []AreasApart` |
| `NvramInMemory` | `Spec => []NvramMatchesMemory` |
| `NvramStaysGood` | `Spec => []NvramGood` |
| `CopyLeft` | `Spec => []OneCopyLeft` |
| `OthersKeptAlways` | `Spec => OthersKept` |

For the nvram the invariant says which calls hold `flashImageMutex` at which
place, that nobody else writes sector 0, for which it needs the layout's
theorem, and that before any fault memory is behind the flash only in a call
about to bring it up to date (`Agree`). For the copies (`CopyInv`) the holder
of `semflash` is the only one past its first sector; what it has written and
what it has in its buffer are one value, and the other copy is whole. For
`OthersKept` the invariant (`Fresh`) says of the calls with the right lock that
their buffer still has what the flash holds of everybody else's data; that
nvram buffers do rests on `Agree`, because they are read from memory.

`ImageUpdateProofs` proves for any sizes, rooms and bounds:

| Theorem | Statement |
|---|---|
| `UpdatesTyped` | `Spec => []ImageTypeOK` |
| `OneIsNewer` | `Spec => []SeqDistinct` |
| `AlwaysBootable` | `Spec => []BootableAlways` |
| `GrantedIsTaken` | `Spec => []RequestHonoured` |
| `BootedTold` | `Spec => BootedRight` |

`BootableAlways` is far from inductive. Its strengthening says that until the
first tag is written, the partition the code derives is the one that runs, and
bootable (`BootInv`); that while an image is written the other partition keeps
its own and the new one does not reach it (`WriteInv`); and that an image which
reaches into the second half is alone (`AloneInv`). Its first part depends on
`SeqDistinct`, the second on the sizes being judged by the current image.
`LeftFacts` shows that an update leaves alone what `Left` says it does, and
`LeftEnds` that this image is clear of the new one; so when it is good, the
board has it, and when it is not, the update is misled or the first since the
boot, which `BootInv` excludes. For `RequestHonoured`, `AskedInv` says that a
granted partition is still to get its number, or has the highest, or was not
given it (`unranked`); `SelectionTold` that the boot loader's choice and what
the caller is told are the same.

Only model-checked are the three liveness properties, `EveryRequestAnswered`,
`Recovers` and `EachCompletes`: fairness is about `ENABLED`, which the prover
does not know. Every invariant and every action property of the runs that pass
is stated by one of the theorems above, for all values of the constants that
its assumptions and conditions allow. A run says in addition that there is an
instance in which the interesting cases happen.

## Seeded mistakes

A property that no mistake can break says nothing. Each module holds, next to
some of its definitions, an alternative marked "slip" with a plausible mistake
in it: a mask left out, a guard off by one, two steps in the wrong order. No
specification uses them. Put in the place of the definition they precede, each
makes TLC find one property of the listed runs violated; PROJECT.json pairs
them ("mutants").

## Not modelled

* In pdc: `pdc_probe` and `pdc_remove` (start-up and shutdown; `Init` is the
  state after a successful probe), `pdc_select_channel` (the model lets a
  client use any channel), the status and error code stored in the message, DMA
  mapping, register set-up.
* In spudd: AEAD requests, which are one message each; the network path, which
  bypasses the crypto API; RC4's state; keys; the message headers' bits; the
  lists made for the DMA driver.
* In mcast: the IPv6 tables, a near copy; ignore lists, the report rate limit
  and querying ports; netlink parsing and notifications; the life of
  interfaces; who owns a waiting packet, and a verdict that comes after its
  slot was reused; races inside an operation on the paths that do not take the
  lock (`wipe_reporter_for_port`, `admission_queue`).
* In the push button: shared interrupts and the release interrupt, which no
  button has; contact bounce; what the hooks do, except for the restoring of
  defaults, which is in `FlashStore`; the older session button in `board_wl.c`.
* In the flash: NAND and eMMC, where these stores are files and the layout
  places nothing; the syslog; the update of a whole flash at once, which no
  power cut survives by design; the boot loader, which is not in the repository
  and modelled by what the kernel relies on; commands to the flash chips.
* Whole drivers: PROJECT.json lists every part of the tree with the reason. The
  tree has some 626,000 lines. Most are register maps, tables of boards and
  switches, generated access functions, firmware images and start-up sequences,
  which have no behaviour between two steps to model; others are vendored, or
  talk to firmware outside the repository. What the models cover is the part
  with state machines of its own.

Weaknesses met while reading, which no property covers:

* pdc: failures in `pdc_probe` and `pdc_remove` (`pdc.c:858`, `:872`); a
  request larger than the ring stays at the head of its list for ever (`:554`);
  the channel counter is a byte (`:595`).
* mcast: `wipe_reporter_for_port` walks the tables without the lock
  (`bcm_mcast_netlink.c:739`); Wi-Fi info is part of the key and looked up anew
  at a leave (`:362`); a disconnect of a station with two addresses
  (`bcm_mcast_igmp.c:136`); the admission queue is filled without the lock, may
  be full, and a late verdict may meet a slot used again
  (`bcm_mcast_igmp.c:336`, `bcm_mcast.c:232`).
* push button: the index of hold hooks when hooks come and go
  (`pushbutton.c:281`, `:351`).
* spudd: the length of earlier data is 16 bits (`spu.c:698`); counts of
  fragments are bytes; lists are leaked when a send fails.
* image update: tags are read without `flashImageMutex` through static buffers
  (`board_image.c:552`); after a failed write the other CPU stays stopped.
* timer: `ext_timer_alloc` returns with the lock held when the period is out of
  range; the interrupt reads the callback without the lock.

## Plan

Done: pdc, mcast's entries and timer, push button, spudd over pdc, flash
layout, stores and image update. What would come next, one module group per
driver, each with one run per question and theorems for its main property:

1. `McastAdmission`: the identity of the packets that wait, against slots that
   are reused, verdicts that come late and receive paths that run without the
   lock. Abstract specification: each packet is forwarded or freed once. With
   it the rate limit's token bucket.
2. `ExtTimer`: the timer table, allocation and free against the interrupt.
3. In `Spu`: AEAD requests; in `FlashStore`: the syslog, and the stores as
   files on NAND.
4. `Gki`: pools and queues; conservation of buffers, proved.
5. `Wfd`, `DpiTable`, `EnetRing`: drain thread and unbind, reference counts,
   buffer hand-over.
6. Proofs: of the liveness properties, the steps that do not need `ENABLED`:
   that `SendData` puts a request behind finitely many, and that no step but a
   callback changes its place (`Pdc`); the same for the messages of a request
   (`Spu`).
