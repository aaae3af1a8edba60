----------------------------- MODULE BestChain -----------------------------
(***************************************************************************)
(* What the block chain of a node promises its users: a best block whose   *)
(* chain connects, and the coins that follow from that chain.  The two     *)
(* change together, and only for a heavier chain.                          *)
(***************************************************************************)
EXTENDS Naturals

CONSTANTS Block, Root,
          Trust,    \* per block: the chain trust up to it
          Connecting, \* the blocks whose chains connect
          CoinsOf    \* per block: the coins its chain leaves

VARIABLES best, coins

Init == best = Root /\ coins = CoinsOf[Root]

\* The chain is extended, or given up for a heavier one.
Advance(b) == /\ Trust[b] > Trust[best]
              /\ best' = b
              /\ coins' = CoinsOf[b]

Next == \E b \in Connecting : Advance(b)

Spec == Init /\ [][Next]_<<best, coins>>
=============================================================================
