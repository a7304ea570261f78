----------------------------- MODULE BlockSpace -----------------------------
(***************************************************************************)
(* What the pool of address blocks promises (doc/devdoc/networkmgr.md):    *)
(* whole blocks whose sizes are powers of 2 and that start at a multiple   *)
(* of their size are taken out of a set of free addresses and put back,    *)
(* and no address is put back that is free.                                *)
(***************************************************************************)
EXTENDS Integers

CONSTANTS
  Width,    \* log2 of the number of addresses
  SysLevel  \* log2 of the size of the block that is never free

VARIABLE free

IsBlock(B) ==
  \E l \in 0 .. Width : \E a \in {i \in 0 .. 2^Width - 2^l : i % 2^l = 0} :
    B = a .. a + 2^l - 1

Init == free = 2^SysLevel .. 2^Width - 1

Take == free' \subseteq free /\ free' # free /\ IsBlock(free \ free')
GiveBack == free \subseteq free' /\ free' # free /\ IsBlock(free' \ free)

Next == Take \/ GiveBack
Spec == Init /\ [][Next]_free

=============================================================================
