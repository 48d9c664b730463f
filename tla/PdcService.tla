----------------------------- MODULE PdcService -----------------------------
(***************************************************************************)
(* What pdc.c promises the crypto driver that calls pdc_send_data: each    *)
(* channel is a queue.  An accepted request is answered once, by a call of *)
(* its rx_callback, in the order of acceptance; one callback runs at a     *)
(* time, whatever the channel.                                             *)
(***************************************************************************)
EXTENDS Sequences, Integers

CONSTANTS Chan, Msg, NoMsg

VARIABLES
  queue,      \* queue[c]: the requests accepted on channel c, oldest first
  answering   \* the request whose callback is running, or NoMsg

vars == <<queue, answering>>

Busy(m) == \E c \in Chan : \E i \in DOMAIN queue[c] : queue[c][i] = m

Init ==
  /\ queue = [c \in Chan |-> << >>]
  /\ answering = NoMsg

\* pdc_send_data returns PDC_SUCCESS. m may be the request whose callback is
\* running: a callback may send its message again.
Accept(c, m) ==
  /\ ~Busy(m)
  /\ queue' = [queue EXCEPT ![c] = Append(@, m)]
  /\ UNCHANGED answering

\* The work thread takes the oldest request of a channel back.
Answer(c) ==
  /\ answering = NoMsg
  /\ queue[c] # << >>
  /\ answering' = Head(queue[c])
  /\ queue' = [queue EXCEPT ![c] = Tail(@)]

\* The callback returns.
Return ==
  /\ answering # NoMsg
  /\ answering' = NoMsg
  /\ UNCHANGED queue

Next ==
  \/ \E c \in Chan : Answer(c) \/ \E m \in Msg : Accept(c, m)
  \/ Return

Spec == Init /\ [][Next]_vars
=============================================================================
