------------------------- MODULE FinalizationLedger -------------------------
(***************************************************************************)
(* The durable ledger of one finalization lineage (finalization_ledger.py):*)
(* which review attempt holds the current cycle, what the decided cycles   *)
(* said, and the receipts of the attempts that ended without a verdict.    *)
(*                                                                         *)
(* Every call reads, checks and replaces the file under one lock, so a call*)
(* is one step; any number of drivers may call, in any order.  A call that *)
(* raises, or answers without writing, leaves the file alone.  The task,   *)
(* worktree and policy a cycle also binds only ever make a call raise.     *)
(***************************************************************************)
EXTENDS Sequences, Naturals

CONSTANTS
  Attempt,             \* attempt identities callers may ask for
  NoAttempt,           \* an omitted attempt argument
  HeadSha,             \* exact product HEADs
  MaxCycles,           \* max_cycles: the product cycle budget
  MaxReceipts,         \* MECHANISM_ATTEMPT_CEILING
  BoundId(_, _, _),    \* predecessor_bound_attempt_id(predecessor, head, cycle)
  Requests             \* the reservations callers ask for

\* The empty string: a cycle without result, a lineage without disposition.
Unset == ""

Product == {"approved", "changes-requested"}
Mechanism == {"attention-required", "blocked"}
Disposition == {Unset, "approved", "finalization-budget-exhausted"}

Cycle == [attempt : Attempt, head : HeadSha, result : Product \cup {Unset}]
Receipt == [attempt : Attempt, cycle : 1..MaxCycles, classification : Mechanism]
Ledger == [cycles : Seq(Cycle), attempts : Seq(Receipt), disposition : Disposition]

\* One request of reserve or reserve_from_policy_matrix.
Request ==
  [attempt : Attempt, head : HeadSha, predecessor : Attempt \cup {NoAttempt},
   supersedes : Attempt \cup {NoAttempt}, recover : BOOLEAN]

ASSUME LedgerAssumption ==
  /\ MaxCycles \in Nat \ {0}
  /\ MaxReceipts \in Nat
  /\ NoAttempt \notin Attempt
  /\ Requests \subseteq Request

VARIABLES
  ledger,    \* the file
  granted    \* ghost: attempts that were authorized to cause an effect

ledgerVars == <<ledger, granted>>

Empty == [cycles |-> <<>>, attempts |-> <<>>, disposition |-> Unset]

LedgerInit == ledger = Empty /\ granted = {}

-----------------------------------------------------------------------------
(* Reading a ledger.                                                       *)

LastOf(s) == s[Len(s)]
ButLast(s) == SubSeq(s, 1, Len(s) - 1)

\* The last cycle has no result yet.
Active(l) == l.cycles # <<>> /\ LastOf(l.cycles).result = Unset

NextNumber(l) == Len(l.cycles) + 1

InCycles(l, a) == \E i \in DOMAIN l.cycles : l.cycles[i].attempt = a
InReceipts(l, a) == \E i \in DOMAIN l.attempts : l.attempts[i].attempt = a
IsLastReceipt(l, a) == l.attempts # <<>> /\ LastOf(l.attempts).attempt = a

\* A decided lineage takes a request only for another HEAD than the approved
\* one, or to supersede exactly the approved attempt with a distinct one.
Admissible(l, q) ==
  CASE l.disposition = Unset -> q.supersedes = NoAttempt
    [] l.disposition = "approved" ->
         \/ LastOf(l.cycles).head # q.head
         \/ /\ q.supersedes = LastOf(l.cycles).attempt
            /\ q.attempt # q.supersedes
    [] OTHER -> FALSE

\* Fault: the retry's identity is not compared.
BoundRetryAnyId(l, q) == q.predecessor = NoAttempt \/ IsLastReceipt(l, q.predecessor)

\* A retry names the latest receipt, and its identity is derived from it.
BoundRetry(l, q) ==
  \/ q.predecessor = NoAttempt
  \/ /\ IsLastReceipt(l, q.predecessor)
     /\ q.attempt = BoundId(q.predecessor, q.head, LastOf(l.attempts).cycle)

\* reserve finds the attempt in a cycle: nothing is written, and the answer is
\* already-reserved or attempt-terminal when the binding is unchanged.
Known(l, q) ==
  /\ Admissible(l, q) /\ BoundRetry(l, q)
  /\ \E i \in DOMAIN l.cycles : l.cycles[i].attempt = q.attempt /\ l.cycles[i].head = q.head

\* The interrupted attempt takes its own cycle back.
Recoverable(l, q) ==
  /\ Admissible(l, q) /\ BoundRetry(l, q)
  /\ ~InCycles(l, q.attempt)
  /\ q.recover
  /\ IsLastReceipt(l, q.attempt)
  /\ LastOf(l.attempts).classification = "attention-required"
  /\ LastOf(l.attempts).cycle = NextNumber(l)
  /\ ~Active(l)

\* Fault: an attempt that left a receipt is taken for a new one.
ReservableAgain(l, q) ==
  /\ Admissible(l, q) /\ BoundRetry(l, q)
  /\ ~InCycles(l, q.attempt)
  /\ ~Active(l)
  /\ l.attempts # <<>> /\ LastOf(l.attempts).cycle = NextNumber(l) => q.predecessor # NoAttempt
  /\ Len(l.cycles) < MaxCycles
  /\ q.predecessor # NoAttempt => LastOf(l.attempts).cycle = NextNumber(l)

\* Fault: the active reservation is overlapped.
ReservableOverlapping(l, q) ==
  /\ Admissible(l, q) /\ BoundRetry(l, q)
  /\ ~InCycles(l, q.attempt) /\ ~InReceipts(l, q.attempt)
  /\ Len(l.cycles) < MaxCycles

\* A new attempt takes the next cycle; a released cycle goes to the retry of
\* the attempt that released it.
Reservable(l, q) ==
  /\ Admissible(l, q) /\ BoundRetry(l, q)
  /\ ~InCycles(l, q.attempt) /\ ~InReceipts(l, q.attempt)
  /\ ~Active(l)
  /\ l.attempts # <<>> /\ LastOf(l.attempts).cycle = NextNumber(l) => q.predecessor # NoAttempt
  /\ Len(l.cycles) < MaxCycles
  /\ q.predecessor # NoAttempt => LastOf(l.attempts).cycle = NextNumber(l)

Opened(l, q) ==
  [l EXCEPT !.cycles = Append(@, [attempt |-> q.attempt, head |-> q.head, result |-> Unset]),
            !.disposition = Unset]

Recovered(l, q) == [Opened(l, q) EXCEPT !.attempts = ButLast(@)]

\* Fault: no ceiling on the receipts.
ReleasableUnbounded(l, a) == Active(l) /\ LastOf(l.cycles).attempt = a

\* record_terminal with a mechanism result: the cycle is released into a
\* receipt; _write refuses the receipt past the ceiling.
Releasable(l, a) ==
  /\ Active(l) /\ LastOf(l.cycles).attempt = a
  /\ Len(l.attempts) < MaxReceipts

\* Fault: the reservation is released without a receipt.
ReleasedSilently(l, a, result) == [l EXCEPT !.cycles = ButLast(@)]

Released(l, a, result) ==
  [l EXCEPT !.cycles = ButLast(@),
            !.attempts = Append(@, [attempt |-> a, cycle |-> Len(l.cycles),
                                    classification |-> result])]

\* Fault: a decided cycle is decided again.
DecidableAgain(l, a) == l.cycles # <<>> /\ LastOf(l.cycles).attempt = a

\* record_terminal with a product result.
Decidable(l, a) == Active(l) /\ LastOf(l.cycles).attempt = a

\* Fault: an approval leaves no disposition.
DecidedUnstated(l, result) ==
  [l EXCEPT !.cycles[Len(l.cycles)].result = result,
            !.disposition = IF Len(l.cycles) = MaxCycles
                            THEN "finalization-budget-exhausted" ELSE @]

Decided(l, result) ==
  [l EXCEPT !.cycles[Len(l.cycles)].result = result,
            !.disposition = IF result = "approved" THEN "approved"
                            ELSE IF Len(l.cycles) = MaxCycles
                                 THEN "finalization-budget-exhausted" ELSE @]

\* _validate: the ledgers the file may hold, whatever it is read or written for.
Valid(l) ==
  /\ Len(l.cycles) <= MaxCycles
  /\ Len(l.attempts) <= MaxReceipts
  /\ \A i \in DOMAIN l.cycles : l.cycles[i].result = Unset => i = Len(l.cycles)
  /\ \A i, j \in DOMAIN l.cycles : l.cycles[i].attempt = l.cycles[j].attempt => i = j
  /\ \A i, j \in DOMAIN l.attempts : l.attempts[i].attempt = l.attempts[j].attempt => i = j
  /\ \A i \in DOMAIN l.cycles, j \in DOMAIN l.attempts :
       l.cycles[i].attempt # l.attempts[j].attempt
  /\ l.disposition = "approved" => l.cycles # <<>> /\ LastOf(l.cycles).result = "approved"
  /\ l.disposition = "finalization-budget-exhausted" =>
       Len(l.cycles) = MaxCycles /\ LastOf(l.cycles).result = "changes-requested"

-----------------------------------------------------------------------------
(* The calls that write.                                                   *)

\* reason "reserved": the one answer that authorizes an effect.
Reserve(q) ==
  /\ Reservable(ledger, q)
  /\ ledger' = Opened(ledger, q)
  /\ granted' = granted \cup {q.attempt}

\* reason "attention-recovered".
RecoverAttention(q) ==
  /\ Recoverable(ledger, q)
  /\ ledger' = Recovered(ledger, q)
  /\ UNCHANGED granted

RecordMechanism(a, result) ==
  /\ Releasable(ledger, a)
  /\ ledger' = Released(ledger, a, result)
  /\ UNCHANGED granted

RecordProduct(a, result) ==
  /\ Decidable(ledger, a)
  /\ ledger' = Decided(ledger, result)
  /\ UNCHANGED granted

LedgerNext ==
  \/ \E q \in Requests : Reserve(q) \/ RecoverAttention(q)
  \/ \E a \in Attempt, result \in Mechanism : RecordMechanism(a, result)
  \/ \E a \in Attempt, result \in Product : RecordProduct(a, result)

LedgerSpec == LedgerInit /\ [][LedgerNext]_ledgerVars

-----------------------------------------------------------------------------
(* Properties.                                                             *)

LedgerTypeOK == ledger \in Ledger /\ granted \subseteq Attempt

Identities(l) ==
  {l.cycles[i].attempt : i \in DOMAIN l.cycles} \cup
  {l.attempts[i].attempt : i \in DOMAIN l.attempts}

\* Every ledger the calls can leave is valid: the file never becomes unreadable,
\* and no write but a receipt past the ceiling is ever refused.
Readable == Valid(ledger)

\* Every authorized attempt is still accounted for: it holds the cycle, decided
\* one, or left a receipt.
AccountedFor == granted = Identities(ledger)

\* A lineage whose budget is spent says so, whatever was released, retried and
\* recovered on the way.
SpentHasDisposition ==
  Len(ledger.cycles) = MaxCycles /\ ~Active(ledger) => ledger.disposition # Unset

\* An approval stops standing only when a further attempt was admitted: that
\* attempt holds the next cycle or left the latest receipt for it.
ApprovalReopenedByAttempt ==
  /\ ledger.cycles # <<>>
  /\ LastOf(ledger.cycles).result = "approved"
  /\ ledger.disposition # "approved"
  => /\ ledger.attempts # <<>>
     /\ LastOf(ledger.attempts).cycle = NextNumber(ledger)

Chained(l) ==
  /\ \A i \in DOMAIN l.attempts :
       i > 1 /\ l.attempts[i].cycle = l.attempts[i - 1].cycle =>
         \E h \in HeadSha :
           l.attempts[i].attempt = BoundId(l.attempts[i - 1].attempt, h, l.attempts[i].cycle)
  /\ Active(l) /\ l.attempts # <<>> /\ LastOf(l.attempts).cycle = Len(l.cycles) =>
       \E h \in HeadSha :
         LastOf(l.cycles).attempt = BoundId(LastOf(l.attempts).attempt, h, Len(l.cycles))

\* The attempts of one cycle form a chain: each is bound to the one that
\* released the cycle before it, the active one included.
RetriesFormChain == Chained(ledger)

\* An attempt that was authorized before takes a cycle again only by giving
\* back its own latest receipt, which authorizes no second effect.
AuthorizedOnce ==
  [][Len(ledger'.cycles) > Len(ledger.cycles) /\ LastOf(ledger'.cycles).attempt \in granted =>
       /\ IsLastReceipt(ledger, LastOf(ledger'.cycles).attempt)
       /\ ledger'.attempts = ButLast(ledger.attempts)]_ledgerVars

\* A decided cycle keeps its place, its attempt, its HEAD and its verdict.
VerdictsStand ==
  [][\A i \in DOMAIN ledger.cycles : ledger.cycles[i].result # Unset =>
       i \in DOMAIN ledger'.cycles /\ ledger'.cycles[i] = ledger.cycles[i]]_ledgerVars

\* The lineage is a bounded sequence of verdicts decided one attempt at a time.
Standing(l) == IF Active(l) THEN ButLast(l.cycles) ELSE l.cycles
Verdicts(l) == [i \in DOMAIN Standing(l) |->
                 [attempt |-> Standing(l)[i].attempt, result |-> Standing(l)[i].result]]
Holder(l) == IF Active(l) THEN LastOf(l.cycles).attempt ELSE NoAttempt

Budget == INSTANCE CycleBudget WITH
  decided <- Verdicts(ledger), holder <- Holder(ledger), used <- granted
ImplementsBudget == Budget!Spec
=============================================================================
