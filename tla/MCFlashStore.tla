---------------------------- MODULE MCFlashStore ----------------------------
(* Small instances of FlashStore for TLC; sizes in units of 2 KB.          *)
EXTENDS FlashStore, TLC

Symmetry == Permutations(Val)

Board(sect, nsect, psi) ==
  [sect |-> sect, nsect |-> nsect, rootfs |-> sect, psi |-> psi, backup |-> TRUE,
   syslog |-> 0, aux |-> 0]

\* Boards nobody uses, for the layout alone.
Layouts ==
  {g \in [sect : {2, 4, 8, 32}, nsect : {12}, rootfs : {2, 4, 8, 32, 64}, psi : 1..13, backup : {TRUE},
          syslog : {0, 1, 9}, aux : {0, 3, 16}] : g.rootfs > 0 /\ Fits(g)}

\* 64 KB sectors, the scratch pad in the PSI's first sector.
SharedOne == Board(32, 4, 12)
\* 64 KB sectors, the scratch pad in a sector of its own.
OwnSector == Board(32, 5, 32)
OwnBeforeTwo == Board(32, 7, 62)
\* 4 KB sectors: the scratch pad takes two and begins with the first.
SmallSectors == Board(2, 10, 4)

PsiUse == {"psi", "backup", "default"}
NvramUse == {"default"} \cup NvramOps

Uses(g, ops) == [geom |-> g, uses |-> ops]

AllBoards == {Uses(OwnBeforeTwo, PsiUse), Uses(OwnSector, {"psi", "token", "boot"}),
              Uses(SmallSectors, SpOps),
              Uses(SharedOne, {"psi", "token"}), Uses(SharedOne, NvramUse)}
             \cup {Uses(g, {}) : g \in Layouts}
=============================================================================
