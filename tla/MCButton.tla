------------------------------ MODULE MCButton ------------------------------
(* Small instances of Button for TLC. *)
EXTENDS Button

H(hook, timeout) == [hook |-> hook, timeout |-> timeout, param |-> 0]

TwoHoldTimes == {H("a", 1), H("b", 2)}
TwoReleases == {H("a", 1), H("b", 3)}
NoHookAtAll == {}
=============================================================================
