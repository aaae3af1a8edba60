------------------------------ MODULE Timeline ------------------------------
(* What outlives the loop over the home timeline (see TwitterActions): the *)
(* memories in the database, and what was said on Twitter.                 *)
EXTENDS Naturals

CONSTANT Tweets             \* the tweets of the home timeline

VARIABLES memories,         \* tweets with a memory
          quotes, answers   \* what was sent, per tweet

durable == <<memories, quotes, answers>>

\* However a pass is cut short (an error, an empty quote, a crash before the final
\* createMemory) and whoever else stores memories, no tweet is quoted or answered
\* by this loop a second time.
SaidOnce == \A t \in Tweets : quotes[t] <= 1 /\ answers[t] <= 1
=============================================================================
