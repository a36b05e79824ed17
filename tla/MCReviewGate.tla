---------------------------- MODULE MCReviewGate ----------------------------
(* Attempt identities as the tuples they are derived from; the second      *)
(* cycle adds a lane.                                                      *)
EXTENDS ReviewGate, TLC

CONSTANTS h1, h2, a1, a2

Heads == {h1, h2}
Lanes == {a1, a2}
OneThenTwo == [c \in 1..MaxCycles |-> IF c = 1 THEN {a1} ELSE {a1, a2}]
OneLane == [c \in 1..MaxCycles |-> {a1}]

First(h, c) == <<h, c>>
Retry(p, h, c) == IF Len(p) = 3 THEN p ELSE <<h, c, p>>
HeadIn(a) == a[1]

\* MaxReceipts is 1: an attempt that was a retry itself has no retry, and what
\* identity it would be given does not matter.
FirstIds == {First(h, c) : h \in Heads, c \in 1..MaxCycles + 1}
Attempts == FirstIds \cup {Retry(p, h, c) : p \in FirstIds, h \in Heads, c \in 1..MaxCycles}

HeadSymmetry == Permutations(Heads)
=============================================================================
