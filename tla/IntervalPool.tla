---------------------------- MODULE IntervalPool ----------------------------
(***************************************************************************)
(* The pool of free address blocks (src/src/master/network.py,             *)
(* IntervalPool). An address is a number below 2^Width; the block of level *)
(* l at address a is the code's a/cidr with l = 32 - cidr, that is          *)
(* 2^l addresses. A pool gives the free blocks of each level by their      *)
(* first addresses. The code keeps them in lists: sorted ones, for         *)
(* allocate appends only to lists that are empty and free sorts.           *)
(***************************************************************************)
EXTENDS Integers, FiniteSets

CONSTANTS Width   \* 32 - cidr of the whole pool

ASSUME WidthAssumption == Width \in Nat

Address == 0 .. 2^Width - 1
Level == 0 .. Width

Least(S) == CHOOSE x \in S : \A y \in S : x <= y

\* fix_ip: the start of the block of level l with address a in it.
FixIp(a, l) == (a \div 2^l) * 2^l

Block(a, l) == a .. a + 2^l - 1
FreeAddresses(pool) == UNION {UNION {Block(a, l) : a \in pool[l]} : l \in Level}

WholePool == [l \in Level |-> IF l = Width THEN {0} ELSE {}]

\* allocate: the levels that can serve a request for level l.
CanServe(pool, l) == {m \in l .. Width : pool[m] # {}}

\* The block handed out is the first of the least such level.
Allocated(pool, l) == Least(pool[Least(CanServe(pool, l))])

\* What allocate leaves: the block is taken out of its level, and its rest is split
\* over the levels in between.
Allocate(pool, l) ==
  LET up == Least(CanServe(pool, l))
      a == Allocated(pool, l)
  IN [m \in Level |-> IF m = up THEN pool[m] \ {a}
                      ELSE IF m \in l .. up - 1 THEN pool[m] \cup {a + 2^m}
                      ELSE pool[m]]

\* free refuses a block that overlaps a free one (an address range is never freed twice).
Overlap(pool, a, l) == Block(FixIp(a, l), l) \cap FreeAddresses(pool) # {}

\* The other half of the block of level l + 1 around a.
Buddy(a, l) ==
  IF FixIp(a, l) = FixIp(a, l + 1) THEN FixIp(a, l) + 2^l ELSE FixIp(a, l) - 2^l

\* free: the block is merged with its buddy as long as that one is free, up to level top.
\* Mutant: it is merged once whether or not the buddy is free.
Free_mutant(pool, a, l) ==
  LET top == IF l = Width THEN l ELSE l + 1
  IN [m \in Level |-> IF m \in l .. top - 1 THEN pool[m] \ {Buddy(a, m)}
                      ELSE IF m = top THEN pool[m] \cup {FixIp(a, m)}
                      ELSE pool[m]]
Free(pool, a, l) ==
  LET top == Least({m \in l .. Width : m = Width \/ Buddy(a, m) \notin pool[m]})
  IN [m \in Level |-> IF m \in l .. top - 1 THEN pool[m] \ {Buddy(a, m)}
                      ELSE IF m = top THEN pool[m] \cup {FixIp(a, m)}
                      ELSE pool[m]]

=============================================================================
