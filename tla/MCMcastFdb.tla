----------------------------- MODULE MCMcastFdb -----------------------------
(* Small instances of McastFdb for TLC. *)
EXTENDS McastFdb

\* One stream from a WAN device.
OneStream == {[grp |-> "g", src |-> "any", from |-> "wan"]}

\* Two VLAN devices on one switch port, and another port.
TwoRoots == {[dev |-> "eth0.1", info |-> 0, root |-> "eth0"],
             [dev |-> "eth0.2", info |-> 0, root |-> "eth0"],
             [dev |-> "eth1", info |-> 0, root |-> "eth1"]}
OneRoot == {p \in TwoRoots : p.root = "eth0"}
WithBond == OneRoot \cup {[dev |-> "bond0", info |-> 0, root |-> "bond0"]}

\* The flow cache takes every blog in a call; or those of the entries up to an
\* address, so that it refuses a copy when it refused the entry; or those of
\* all entries but one, which may be an entry whose copy it takes.
Always == {1..9}
InOrder == {1..n : n \in 0..9}
AllButOne == {1..9 \ {i} : i \in 1..3} \cup {1..9}

OneRep == {[addr |-> 1, mac |-> 1]}
TwoReps == {[addr |-> 1, mac |-> 1], [addr |-> 2, mac |-> 1]}
=============================================================================
