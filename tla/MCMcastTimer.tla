---------------------------- MODULE MCMcastTimer ----------------------------
(* Small instances of McastTimer for TLC. *)
EXTENDS McastTimer, TLC

Sym == Permutations(Rep)
=============================================================================
