----------------------- MODULE MCFinalizationLedger -----------------------
(* Attempt identities as the tuples they are derived from: uuid5 is taken  *)
(* to be injective.                                                        *)
EXTENDS FinalizationLedger, TLC

CONSTANTS h1, h2, RetryDepth

Heads == {h1, h2}
Cycles == 1..MaxCycles

\* task_review_finalization_attempt._attempt_id.
FirstId(h, c) == <<h, c>>
RetryId(p, h, c) == <<h, c, p>>

IdsOf[depth \in Nat] ==
  IF depth = 0 THEN {FirstId(h, c) : h \in Heads, c \in Cycles}
  ELSE IdsOf[depth - 1] \cup {RetryId(p, h, c) : p \in IdsOf[depth - 1], h \in Heads, c \in Cycles}

Attempts == IdsOf[RetryDepth]

Ask(a, h, p, s, r) ==
  [attempt |-> a, head |-> h, predecessor |-> p, supersedes |-> s, recover |-> r]

\* The requests reserve_exact_head_attempt makes: a first attempt, one that
\* supersedes an approval, one for a refreshed summary of an approval, the
\* retry of a released cycle, and the attempt the gate already holds.
DriverRequests ==
  LET firsts == {Ask(FirstId(h, c), h, NoAttempt, s, FALSE) :
                   h \in Heads, c \in Cycles, s \in IdsOf[0] \cup {NoAttempt}}
      summaries == {Ask(RetryId(s, h, c), h, NoAttempt, s, FALSE) :
                   h \in Heads, c \in Cycles, s \in IdsOf[0]}
      retries == {Ask(RetryId(p, h, c), h, p, NoAttempt, FALSE) :
                   h \in Heads, c \in Cycles, p \in IdsOf[RetryDepth - 1]}
      held == {Ask(a, h, NoAttempt, NoAttempt, TRUE) : a \in Attempts, h \in Heads}
  IN firsts \cup summaries \cup retries \cup held

HeadSymmetry == Permutations(Heads)
=============================================================================
