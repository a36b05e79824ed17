---------------------------- MODULE CycleBudget ----------------------------
(***************************************************************************)
(* What the finalization ledger promises: at most MaxCycles verdicts, given*)
(* one at a time and for ever, each by an attempt that was authorized once;*)
(* an attempt that ends without a verdict costs nothing.                   *)
(***************************************************************************)
EXTENDS Sequences, Naturals

CONSTANTS Attempt, Product, MaxCycles, NoAttempt

VARIABLES
  decided,   \* the verdicts, oldest first
  holder,    \* the attempt that may give the next one
  used       \* every attempt ever authorized

vars == <<decided, holder, used>>

Init == decided = <<>> /\ holder = NoAttempt /\ used = {}

Authorize(a) ==
  /\ holder = NoAttempt /\ Len(decided) < MaxCycles
  /\ a \notin used
  /\ holder' = a /\ used' = used \cup {a}
  /\ UNCHANGED decided

\* An attempt that gave up without a verdict is taken up again.
Resume(a) ==
  /\ holder = NoAttempt /\ Len(decided) < MaxCycles
  /\ a \in used /\ \A i \in DOMAIN decided : decided[i].attempt # a
  /\ holder' = a
  /\ UNCHANGED <<decided, used>>

GiveUp == holder # NoAttempt /\ holder' = NoAttempt /\ UNCHANGED <<decided, used>>

Decide(result) ==
  /\ holder # NoAttempt
  /\ decided' = Append(decided, [attempt |-> holder, result |-> result])
  /\ holder' = NoAttempt
  /\ UNCHANGED used

Next ==
  \/ \E a \in Attempt : Authorize(a) \/ Resume(a)
  \/ GiveUp
  \/ \E result \in Product : Decide(result)

Spec == Init /\ [][Next]_vars
=============================================================================
