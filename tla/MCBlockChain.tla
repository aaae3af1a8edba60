---------------------------- MODULE MCBlockChain ----------------------------
(* Bounds for BlockChain: two branches from the genesis block.  A1 and B1   *)
(* share a stake and spend one output (k1 and x1), A1 and B2 another (t1    *)
(* and x2); t1, which the pool need not take, and t2 return to it when B1   *)
(* replaces A1 and A2, unless y1 is there, which conflicts with t1 and      *)
(* leaves the pool for x1.  A2 stakes the output of k1, and cannot when B1  *)
(* is best.  B1 is heavier than A2, although lower: a block that follows it *)
(* may find it in the index and not yet best.  D2, heavier than B2, spends  *)
(* on top of B1 what B1 has spent, and D3 follows it; B3 is heavier still.  *)
EXTENDS BlockChain, TLC

CONSTANTS G, A1, A2, B1, B2, D2, D3, B3, s1, s2, s3, coin, stake, k1, t1, t2, x1, x2, y1

Blocks == {G, A1, A2, B1, B2, D2, D3, B3}
ParentOf == (A1 :> G) @@ (A2 :> A1) @@ (B1 :> G) @@ (B2 :> B1) @@ (D2 :> B1) @@ (D3 :> D2)
              @@ (B3 :> B2)
ChainOf[b \in Blocks] == IF b = G THEN {G} ELSE ChainOf[ParentOf[b]] \cup {b}
HeightOf == [b \in Blocks |-> Cardinality(ChainOf[b]) - 1]
TrustOf == (G :> 0) @@ (A1 :> 1) @@ (A2 :> 2) @@ (B1 :> 3) @@ (B2 :> 4) @@ (D2 :> 5) @@ (D3 :> 6)
             @@ (B3 :> 7)
StakeOf == (A1 :> s1) @@ (B1 :> s1) @@ (A2 :> s2) @@ (B2 :> s3) @@ [b \in Blocks |-> NoStake]
KernelOf == (A1 :> {stake}) @@ (B1 :> {stake}) @@ (A2 :> {k1}) @@ (B2 :> {coin})
              @@ [b \in Blocks |-> {}]
NoneRefused == {}
NoneFlawed == {}

Transactions == {coin, stake, k1, t1, t2, x1, x2, y1}
TxsIn == (G :> <<coin, stake>>) @@ (A1 :> <<k1, t1>>) @@ (A2 :> <<t2>>) @@ (B1 :> <<x1>>)
           @@ (B2 :> <<x2>>) @@ (D2 :> <<y1>>) @@ (D3 :> <<>>) @@ (B3 :> <<>>)
Inputs == (coin :> {}) @@ (stake :> {}) @@ (k1 :> {stake}) @@ (t1 :> {coin}) @@ (t2 :> {t1})
            @@ (x1 :> {stake}) @@ (x2 :> {coin}) @@ (y1 :> {coin, stake})
MintedTxs == {coin, stake, k1, x1, x2}
IrregularTxs == {t1}

TwoRooms == {1, 9}
=============================================================================
