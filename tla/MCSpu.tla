-------------------------------- MODULE MCSpu -------------------------------
(* Small instances of Spu for TLC: one hash and one cipher on one channel. *)
EXTENDS Spu

OneChan == [r \in Reqs |-> 1]

\* One entry and more: within a message, up to its end, over it, over two messages.
MCLists == {<<1>>, <<5>>, <<6>>, <<13>>, <<3, 7>>, <<2, 4, 9>>}

\* The least that goes wrong: one entry is whole blocks, the rest is carried.
Scattered == {<<4, 5>>}
=============================================================================
