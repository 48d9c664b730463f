--------------------------------- MODULE Spu --------------------------------
(***************************************************************************)
(* The client of the DMA driver: the SPU crypto driver, spudd/impl4        *)
(* (cipher.c, util.c), for hashes and block ciphers. A request of the      *)
(* crypto API is cut into messages for the engine, one at a time; the      *)
(* callback of one sends the next. A hash takes any number of requests;    *)
(* what does not fill a message is carried over to the next of them.       *)
(*                                                                         *)
(* Data is represented by where it comes from: of the stream of bytes a    *)
(* hash is given, or of those of a cipher's request, a message takes the   *)
(* bytes from some offset on. A scatterlist is the sequence of the offsets *)
(* at which its entries end.                                               *)
(*                                                                         *)
(* The channels of the DMA driver are those of PdcService.                 *)
(***************************************************************************)
EXTENDS Integers, Sequences

CONSTANTS
  Hashes, Ciphers,   \* request contexts (struct iproc_reqctx_s) of either kind
  NoReq,             \* none
  Chan, ChanOf,      \* channels, and the one of each context (chan_idx)
  Lists,             \* scatterlists
  BlockSize,         \* ctx->blocksize
  IvLen,             \* iv_ctr_len
  CarryMax,          \* HASH_CARRY_MAX
  MaxPayload,        \* ctx->max_payload
  MaxTotal           \* bound: bytes given to one hash

Reqs == Hashes \cup Ciphers

ASSUME SpuAssumption ==
  /\ Hashes \cap Ciphers = {} /\ NoReq \notin Reqs
  /\ ChanOf \in [Reqs -> Chan]
  /\ \A l \in Lists : /\ l \in Seq(Nat) /\ l # << >> /\ l[1] > 0
                      /\ \A i, j \in DOMAIN l : i < j => l[i] < l[j]
  /\ BlockSize \in Nat \ {0} /\ IvLen \in Nat \ {0} /\ MaxTotal \in Nat
  \* max_payload is rounded down to 64 bytes; what that gives is a multiple of 128, too.
  /\ MaxPayload \in Nat \ {0} /\ MaxPayload % BlockSize = 0 /\ IvLen <= MaxPayload
  /\ CarryMax \in Nat \ {0} /\ CarryMax % BlockSize = 0

VARIABLES
  queue, answering,   \* the DMA driver's channels, see PdcService
  rctx                \* the request contexts

vars == <<queue, answering, rctx>>

Pdc == INSTANCE PdcService WITH Msg <- Reqs, NoMsg <- NoReq

-----------------------------------------------------------------------------
(* Scatterlists.                                                           *)

MinOf(a, b) == IF a < b THEN a ELSE b

Size(list) == list[Len(list)]

\* Where entry sg begins.
Begin(list, sg) == IF sg = 1 THEN 0 ELSE list[sg - 1]

\* The offset of a place in a list: an entry, and bytes of it to skip.
Offset(list, at) == Begin(list, at.sg) + at.skip
Start == [sg |-> 1, skip |-> 0]

\* The entry with the last byte before offset a.
EntryAt(list, a) == CHOOSE j \in DOMAIN list : Begin(list, j) < a /\ a <= list[j]

\* Slip: what was skipped of the entry before is forgotten.
SgAddFrom(list, at, n) ==
  LET a == Offset(list, at) + n  j == EntryAt(list, a) IN
  IF n = 0 THEN at
  ELSE [sg |-> j, skip |-> IF a < list[j] THEN MinOf(n, a - Begin(list, j)) ELSE 0]

\* spu_msg_sg_add: the place after n more bytes. At the end of an entry it goes
\* back to its beginning, not on to the next.
SgAdd(list, at, n) ==
  LET a == Offset(list, at) + n  j == EntryAt(list, a) IN
  IF n = 0 THEN at ELSE [sg |-> j, skip |-> IF a < list[j] THEN a - Begin(list, j) ELSE 0]

-----------------------------------------------------------------------------
(* Request contexts.                                                       *)

\* A context: "busy" from a request until it is completed, "ready" for more data
\* of the same hash. sent of todo bytes are in messages, carry bytes are carried
\* over; the request's own begin at base, its lists are at src and dst; iv is
\* the offset the IV is right for; type and len are the last message's. Ghosts:
\* every message had the right bytes (good), one of a request with several
\* entries was not the first (scattered).
Unused == [at |-> "unused", mode |-> "none", todo |-> 0, sent |-> 0, final |-> FALSE, carry |-> 0,
           base |-> 0, srcList |-> <<1>>, src |-> Start, dstList |-> <<1>>, dst |-> Start, iv |-> 0,
           type |-> "none", len |-> 0, good |-> TRUE, scattered |-> FALSE]

Init == Pdc!Init /\ rctx = [r \in Reqs |-> Unused]

Left(q) == q.todo - q.sent

\* finish_req: after an error the user of a hash has to begin again.
Finished(q, err) ==
  IF err \/ q.mode # "hash" \/ q.final THEN Unused ELSE [q EXCEPT !.at = "ready"]

-----------------------------------------------------------------------------
(* handle_ahash_req.                                                       *)

\* Don't carry over more than max_payload bytes.
MaxCarry == MinOf(CarryMax, MaxPayload)

\* Slip: the carry has only max_payload for a bound.
CarriesOverAny(q) == ~q.final /\ Left(q) < MaxPayload

CarriesOver(q) == ~q.final /\ Left(q) < MaxCarry

\* Slip: what was carried already is forgotten.
CarriedOnly(q) == [q EXCEPT !.carry = Left(q) - q.carry]

\* The rest of the request is copied behind what is carried already, from the
\* request's first entry on.
Carried(q) ==
  [q EXCEPT !.carry = Left(q),
            !.good = @ /\ (Left(q) = q.carry \/ q.base + q.src.skip = q.sent + q.carry)]

\* Slip: the last part of a request that is not the last is not cut to blocks.
HashChunkAll(q) == MinOf(Left(q), MaxPayload)

\* Only the last message of a hash need not be whole blocks.
HashChunk(q) ==
  LET most == MinOf(Left(q), MaxPayload) IN
  IF q.final THEN most ELSE most - (most % BlockSize)

HashType(q) ==
  IF q.final /\ q.sent + HashChunk(q) = q.todo
  THEN IF q.sent = 0 THEN "full" ELSE "fin"
  ELSE IF q.sent = 0 THEN "init" ELSE "updt"

\* Slip: the request is completed when its message is sent.
HashSentReady(q) ==
  [q EXCEPT !.at = "ready", !.sent = @ + HashChunk(q), !.carry = 0,
            !.type = HashType(q), !.len = HashChunk(q),
            !.src = SgAdd(q.srcList, @, HashChunk(q) - q.carry)]

\* The message: what is carried over, then bytes of the request.
HashSent(q) ==
  LET n == HashChunk(q) - q.carry IN
  [q EXCEPT !.at = "busy", !.sent = @ + HashChunk(q), !.carry = 0,
            !.type = HashType(q), !.len = HashChunk(q),
            !.src = SgAdd(q.srcList, @, n),
            !.good = @ /\ n >= 0 /\ (n = 0 \/ q.base + Offset(q.srcList, q.src) = q.sent + q.carry)]

-----------------------------------------------------------------------------
(* handle_ablkcipher_req.                                                  *)

CipherChunk(q) == MinOf(Left(q), MaxPayload)

\* CBC encryption takes the last block of the previous result for IV, from the
\* request's first entry; with less than a block to skip it finds nothing.
IvUsed(q) == IF q.mode = "enc" /\ q.sent > 0 /\ q.dst.skip >= IvLen THEN q.dst.skip ELSE q.iv

\* CBC decryption keeps the last block of the chunk, again from the first
\* entry, before it is decrypted in place; a counter goes on. In the other modes
\* that have an IV, OFB and XTS, it remains that of the first chunk.
IvNext(q, n) ==
  IF Left(q) = n THEN IvUsed(q)
  ELSE CASE q.mode = "dec" -> q.src.skip + n
         [] q.mode = "ctr" -> IvUsed(q) + n
         [] OTHER -> IvUsed(q)

CipherSent(q) ==
  LET n == CipherChunk(q) IN
  [q EXCEPT !.at = "busy", !.sent = @ + n, !.len = n,
            !.src = SgAdd(q.srcList, @, n), !.dst = SgAdd(q.dstList, @, n),
            !.iv = IvNext(q, n),
            !.good = @ /\ IvUsed(q) = q.sent /\ Offset(q.srcList, q.src) = q.sent
                       /\ Offset(q.dstList, q.dst) = q.sent]

-----------------------------------------------------------------------------
(* Requests.                                                               *)

\* What becomes of context r, with the state q: its message is sent, or there is
\* no need, or it fails (no memory, no mapping, no room in the channel).
Handle(r, q) ==
  \/ /\ q.mode = "hash" /\ CarriesOver(q)
     /\ rctx' = [rctx EXCEPT ![r] = Finished(Carried(q), FALSE)]
     /\ UNCHANGED <<queue, answering>>
  \/ /\ ~(q.mode = "hash" /\ CarriesOver(q))
     /\ \/ /\ Pdc!Accept(ChanOf[r], r)
           /\ rctx' = [rctx EXCEPT ![r] = IF q.mode = "hash" THEN HashSent(q) ELSE CipherSent(q)]
        \/ /\ rctx' = [rctx EXCEPT ![r] = Finished(q, TRUE)]
           /\ UNCHANGED <<queue, answering>>

\* ahash_init, and ahash_hmac_init with the inner pad for the first block.
AhashInit(r, hmac) ==
  /\ rctx[r].at \in {"unused", "ready"}
  /\ LET pad == IF hmac THEN BlockSize ELSE 0 IN
     rctx' = [rctx EXCEPT ![r] =
                [Unused EXCEPT !.at = "ready", !.mode = "hash", !.todo = pad, !.carry = pad]]
  /\ UNCHANGED <<queue, answering>>

\* ahash_update of at least one byte, and ahash_finup. ahash_digest is
\* ahash_init and ahash_finup.
AhashData(r, list, final) ==
  LET q == rctx[r] IN
  /\ q.at = "ready"
  /\ q.todo + Size(list) <= MaxTotal
  /\ Handle(r, [q EXCEPT !.base = q.todo, !.todo = @ + Size(list), !.final = final,
                         !.srcList = list, !.src = Start])

\* ahash_final.
AhashFinal(r) ==
  /\ rctx[r].at = "ready"
  /\ Handle(r, [rctx[r] EXCEPT !.final = TRUE, !.src = Start])

\* ablkcipher_enqueue.
AblkcipherEnqueue(r, mode, src, dst) ==
  /\ rctx[r].at = "unused" /\ Size(src) = Size(dst)
  /\ Handle(r, [Unused EXCEPT !.mode = mode, !.todo = Size(src), !.srcList = src, !.dstList = dst])

\* Slip: a message is sent for nothing.
MoreToSendOrNone(q) == q.sent <= q.todo

MoreToSend(q) == q.sent < q.todo

Queued(r) == \E i \in DOMAIN queue[ChanOf[r]] : queue[ChanOf[r]][i] = r

\* The message of r was answered, its callback is still to do its work.
Answered(r) == answering = r /\ rctx[r].at = "busy" /\ ~Queued(r)

\* spu_rx_callback: the engine reports an error, or the next message is sent, or
\* all is done.
SpuRxCallback(r) ==
  LET q == rctx[r]  done(err) == rctx' = [rctx EXCEPT ![r] = Finished(q, err)] IN
  /\ Answered(r)
  /\ \/ done(TRUE) /\ UNCHANGED <<queue, answering>>
     \/ ~MoreToSend(q) /\ done(FALSE) /\ UNCHANGED <<queue, answering>>
     \/ /\ MoreToSend(q)
        /\ Handle(r, [q EXCEPT !.scattered = @ \/ Len(q.srcList) > 1 \/ Len(q.dstList) > 1])

\* The DMA driver.
Answer(c) == Pdc!Answer(c) /\ UNCHANGED rctx
Return == ~(\E r \in Reqs : Answered(r)) /\ Pdc!Return /\ UNCHANGED rctx

-----------------------------------------------------------------------------
Next ==
  \/ \E r \in Hashes : \/ \E hmac \in BOOLEAN : AhashInit(r, hmac)
                        \/ \E list \in Lists, final \in BOOLEAN : AhashData(r, list, final)
                        \/ AhashFinal(r)
  \/ \E r \in Ciphers, mode \in {"enc", "dec", "ctr", "ofb"}, src, dst \in Lists :
       AblkcipherEnqueue(r, mode, src, dst)
  \/ \E r \in Reqs : SpuRxCallback(r)
  \/ \E c \in Chan : Answer(c)
  \/ Return

Spec == Init /\ [][Next]_vars

\* The DMA driver answers (Pdc, EveryRequestAnswered), and callbacks end.
LiveSpec == Spec /\ (\A c \in Chan : WF_vars(Answer(c))) /\ WF_vars(Return)
                 /\ (\A r \in Reqs : WF_vars(SpuRxCallback(r)))

-----------------------------------------------------------------------------
(* Properties.                                                             *)

Place == [sg : Nat \ {0}, skip : Nat]

\* What is carried over fits into hash_carry.
SpuTypeOK ==
  \A r \in Reqs : LET q == rctx[r] IN
    /\ q.at \in {"unused", "ready", "busy"} /\ q.mode \in {"none", "hash", "enc", "dec", "ctr", "ofb"}
    /\ {q.todo, q.sent, q.base, q.iv, q.len} \subseteq Nat
    /\ q.carry \in 0 .. (IF BlockSize > CarryMax THEN BlockSize ELSE CarryMax)
    /\ q.src \in Place /\ q.dst \in Place
    /\ {q.final, q.good, q.scattered} \subseteq BOOLEAN
    /\ q.type \in {"none", "init", "updt", "fin", "full"}

\* One message of a context is with the DMA driver at any time, and exactly
\* while a request is not completed: its state needs no lock (comment of
\* handle_ahash_req).
LockStep ==
  \A r \in Reqs :
    LET S == UNION {{<<c, i>> : i \in {i \in DOMAIN queue[c] : queue[c][i] = r}} : c \in Chan} IN
    IF rctx[r].at = "busy" THEN (S = {} /\ answering = r) \/ (\E x \in S : S = {x}) ELSE S = {}

\* The engine is told the first, the middle and the last message of a hash, all
\* but the last are whole blocks, and the number of blocks before the last,
\* which is divided by the block size, is exact (handle_ahash_req).
TypesRight ==
  \A r \in Hashes : LET q == rctx[r] IN
    q.at = "busy" =>
      /\ q.type \in {"init", "full"} <=> q.sent = q.len
      /\ q.type \in {"fin", "full"} <=> q.final /\ q.sent = q.todo
      /\ q.type \in {"init", "updt"} => q.len > 0 /\ q.len % BlockSize = 0
      /\ (q.sent - q.len) % BlockSize = 0

\* Between the requests of a hash all that was not sent is carried over.
NothingLost ==
  \A r \in Hashes : LET q == rctx[r] IN
    q.at = "ready" => q.todo = q.sent + q.carry

\* The bytes of a hash or a cipher's request come in the messages in order, each
\* once, under the right IV; requests with several entries, and those in OFB or
\* XTS mode, do so if they fit one message.
InOrder ==
  \A r \in Reqs : rctx[r].good \/ rctx[r].scattered
                  \/ (rctx[r].mode = "ofb" /\ rctx[r].sent > rctx[r].len)

\* Every request is completed.
EachCompletes == \A r \in Reqs : rctx[r].at = "busy" ~> rctx[r].at # "busy"

\* Finding: with several entries bytes are sent again, left out, or the IV is wrong.
AllInOrder == \A r \in Reqs : rctx[r].good
=============================================================================
