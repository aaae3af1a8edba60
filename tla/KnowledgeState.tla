--------------------------- MODULE KnowledgeState ---------------------------
(* The rows of a character's knowledge and the progress of the agents that *)
(* take it in (see Knowledge, which has the steps), and what must hold of  *)
(* the two at all times.                                                   *)
EXTENDS Naturals

CONSTANTS Agents, None,
          Items,        \* items 1..Items, the same in every character
          Fragments,    \* fragments of an item
          MaxCrashes    \* bound: crashes

ASSUME KnowledgeAssumption == /\ None \notin Agents
                              /\ Items \in Nat \ {0} /\ Fragments \in Nat
                              /\ MaxCrashes \in Nat

VARIABLES owner,        \* per row: the agent that inserted it, or None
          pc,           \* per agent: off, look, exists, insert, ready, failed
          item, row,    \* per agent: the item and row it is at
          crashes

Rows == (1..Items) \X (0..Fragments)    \* row 0 is the document

\* In every mixture of crashes, failures and agents filling in each other's rows,
\* the rows of an item form a prefix: no fragment without its document, and no
\* later fragment without the earlier ones, is ever found by a search.
RowsFormPrefix ==
    \A r \in Rows : owner[r] # None => \A k \in 0..r[2] : owner[<<r[1], k>>] # None

\* The agent has gone past the item since it was started.
Past(a, i) == pc[a] = "ready" \/ i < item[a]

\* A failure may leave an item without some of its rows for good, as its document counts as
\* the whole.  But that is only ever passed over by the agent that has stored the document:
\* any other fills in what is missing before it goes on, however many start together, fail
\* and are started again; so no gap survives two agents with the same knowledge.
GapsAreOwn ==
    \A a \in Agents, i \in 1..Items :
        Past(a, i) => \/ owner[<<i, 0>>] = a
                      \/ \A k \in 0..Fragments : owner[<<i, k>>] # None
=============================================================================
