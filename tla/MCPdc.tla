------------------------------- MODULE MCPdc -------------------------------
(* Small instances of Pdc for TLC. *)
EXTENDS Pdc, TLC

CONSTANTS m1, m2, m3, m4

\* Requests of different sizes, so that the rings fill unevenly and wrap at
\* different places.  Of the 2 usable descriptors of a ring of 3, next to m1
\* there is no room for m2 in the rx ring nor for m3 in the tx ring, and m4
\* just fits.
CostOf ==
  m1 :> [rx |-> 1, tx |-> 1] @@ m2 :> [rx |-> 2, tx |-> 1]
    @@ m3 :> [rx |-> 1, tx |-> 2] @@ m4 :> [rx |-> 1, tx |-> 1]

MCCost == [m \in Msg |-> CostOf[m]]

\* All requests alike.
UnitCost == [m \in Msg |-> [rx |-> 1, tx |-> 1]]

Sym == Permutations(Msg)
============================================================================
