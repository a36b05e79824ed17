------------------------- MODULE OperationSupervisor -------------------------
(***************************************************************************)
(* One stored operation driven by several coordinators at once: the worker,*)
(* the controllers and the command line each build an OperationSupervisor  *)
(* over the same OperationStore record (supervisor.py, store.py).          *)
(*                                                                         *)
(* A store call holds the owner lock, so it is one step.  A supervisor call*)
(* reads the record without the lock, decides, and then saves it under a   *)
(* compare-and-swap on the revision it read: two steps, with anything in   *)
(* between.  An external effect is five: read, write-ahead reservation,    *)
(* action, persisted result, resolution.  A coordinator may crash between  *)
(* any two.                                                                *)
(*                                                                         *)
(* Several moves that one write saves take one revision.  What a call asks *)
(* of another record (the parent of a round, the round of a parent) is not *)
(* state of this module: it may refuse the call, which then writes nothing.*)
(***************************************************************************)
EXTENDS OperationRecord

CONSTANTS
  Coordinator,      \* processes that hold a supervisor over the record
  Resumable,        \* effects whose caller passes resume_pending
  StartProvider,    \* the effect that starts a provider process
  Limits,           \* budget envelopes configure_budget may be given
  DefaultLimit,     \* the limits of a freshly created record
  Calls,            \* read-then-save calls the coordinators make
  TokenCost,        \* token usage a caller may report
  TimeBudget,       \* time_budget_seconds
  Targets,          \* states callers of transition ask for
  Reasons,          \* attention reasons callers of transition give
  MaxRevision,      \* bound on the record's revision
  MaxTime,          \* bound on the clock
  MaxRuns           \* bound on the executions of one reserved effect

\* The calls that read without the lock: the methods of supervisor.py, the
\* broker's accept, and the worker's deadline check and recovery.
SupervisorCall ==
  {"bind_resources", "configure_budget", "consume_attempt", "consume_tokens",
   "consume_model_restart", "begin_continuation", "enforce_callback_deadline",
   "retire_authorized_pending_effect", "retire_proven_absent_resources",
   "complete_round_after_supported_close", "accept_callback",
   "recover_review_continuation"}

ASSUME SupervisorAssumption ==
  /\ Resumable \subseteq Effect /\ StartProvider \in Effect
  /\ Limits \subseteq [Meter -> Nat]
  /\ DefaultLimit \in [Meter -> Nat]
  /\ \A l \in Limits \cup {DefaultLimit} : l["attempt"] >= 1 /\ l["tokens_used"] >= 1
  /\ Calls \subseteq SupervisorCall
  /\ TokenCost \subseteq Nat
  /\ TimeBudget \in Nat \ {0}
  /\ Targets \subseteq States \ {"attention-required"}
  /\ Reasons \subseteq AttentionReason
  /\ MaxRevision \in Nat /\ MaxTime \in Nat /\ MaxRuns \in Nat

VARIABLES
  rec,      \* the record on disk
  now,      \* wall clock
  pc,       \* where each coordinator is in its supervisor call
  snap,     \* the record each coordinator read when the call began
  doing,    \* the effect each coordinator is executing
  runs,     \* ghost: executions of the action since the effect was reserved
  charged   \* ghost: what the budget calls that returned have charged

vars == <<rec, now, pc, snap, doing, runs, charged>>

CALLBACK_WAIT_STATES == {"running", "awaiting-callback", "verifying"}

Consuming == {"consume_attempt", "consume_tokens", "consume_model_restart"}

\* The cost of a call that charges nothing.
Free == Meters(0, 0, 0)

\* The points of OperationSupervisor.effect after its first read.
EffectStage == {"begin", "act", "persist", "persist-save", "resolve"}

Init ==
  /\ rec = NewRecord(DefaultLimit)
  /\ now = 1
  /\ pc = [c \in Coordinator |-> "idle"]
  /\ snap = [c \in Coordinator |-> NewRecord(DefaultLimit)]
  /\ doing = [c \in Coordinator |-> None]
  /\ runs = 0
  /\ charged = Free

\* Every write of the record, cut off at the revision bound.
Publish(r) == r.revision <= MaxRevision /\ rec' = r

\* The call returned or raised: the coordinator keeps nothing of it.
Return(c) ==
  /\ pc' = [pc EXCEPT ![c] = "idle"]
  /\ snap' = [snap EXCEPT ![c] = NewRecord(DefaultLimit)]
  /\ doing' = [doing EXCEPT ![c] = None]
  /\ UNCHANGED <<now, runs>>

\* The call wrote nothing.
GiveUp(c) == Return(c) /\ UNCHANGED <<rec, charged>>

Tick ==
  /\ now < MaxTime
  /\ now' = now + 1
  /\ UNCHANGED <<rec, pc, snap, doing, runs, charged>>

-----------------------------------------------------------------------------
(* Store calls: read, check and replace under one lock.                    *)

\* A process that is in no other call makes this one.
Locked(c) == pc[c] = "idle" /\ UNCHANGED <<now, pc, snap, doing, runs, charged>>

Transition(c) ==
  /\ Locked(c)
  /\ \/ \E s \in Targets : MayMove(rec, s) /\ Publish(Moved(rec, s, None))
     \/ \E reason \in Reasons : MayMove(rec, "attention-required") /\ Publish(Attention(rec, reason))

\* resolve_effect outside effect(): the store takes the caller's word.  Every
\* caller that says succeeded holds a receipt of the action; a failure is
\* recorded whether the action ran, ran partly or never began.
Reconcile(c) ==
  /\ Locked(c)
  /\ rec.pending_effect # None
  /\ \E outcome \in Resolved :
       /\ outcome = "succeeded" => runs > 0
       /\ Publish(Settled(rec, outcome))

Expired(r) == r.deadline_at # 0 /\ now >= r.deadline_at
TimedOut(r) == r.state = "attention-required" /\ r.attention_reason = "callback-timeout"

\* accept_callback of a round's answer, when this record is the parent whose
\* deadline has passed: the round is refused and the parent marked.
TimeOutLateRound(c) ==
  /\ Locked(c)
  /\ rec.state \notin TERMINAL /\ ~TimedOut(rec) /\ Expired(rec)
  /\ Publish(Attention(rec, "callback-timeout"))

RearmCallbackTimeout(c) ==
  /\ Locked(c)
  /\ TimedOut(rec) /\ rec.deadline_at # 0 /\ now + TimeBudget > rec.deadline_at
  /\ MayMove(rec, "awaiting-callback")
  /\ Publish([Moved(rec, "awaiting-callback", None) EXCEPT !.deadline_at = now + TimeBudget])

\* recover_late_started_review_round, for the parent: the handshake of the
\* process settles the start whose outcome was unknown.
AdoptLateProcess(c) ==
  /\ Locked(c)
  /\ rec.state = "attention-required" /\ rec.attention_reason = "process-start-failed"
  /\ rec.resume_state = "starting" /\ rec.pending_effect = StartProvider
  /\ rec.resources # None /\ runs > 0
  /\ \E res \in Resource : Publish(Adopted(rec, res))

\* recover_late_started_review_round, for the round: it is open again.
ReopenRound(c) == Locked(c) /\ Untouched(rec) /\ Publish(NextRevision(Waiting(rec)))

-----------------------------------------------------------------------------
(* Supervisor calls: read without the lock, then save what was decided.    *)

\* Every caller of a consume call has configured the budget first.
Read(c) ==
  /\ pc[c] = "idle"
  /\ \E call \in Calls :
       /\ call \in Consuming => rec.deadline_at # 0
       /\ pc' = [pc EXCEPT ![c] = call]
  /\ snap' = [snap EXCEPT ![c] = rec]
  /\ UNCHANGED <<rec, now, doing, runs, charged>>

\* The call returns, and its caller counts on what it has charged.
Charged(cost) == charged' = [m \in Meter |-> charged[m] + cost[m]]

\* Fault: the revision is not compared.
SaveUnfenced(c, r, cost) == Publish(NextRevision(r)) /\ Charged(cost) /\ Return(c)

\* OperationStore.save of a record built from the snapshot.
Save(c, r, cost) ==
  /\ IF rec.revision = snap[c].revision
     THEN Publish(NextRevision(r)) /\ Charged(cost)
     ELSE UNCHANGED <<rec, charged>>
  /\ Return(c)

\* _exhaust: the snapshot decides, the current record moves (or refuses).
Exhaust(c, reason) ==
  /\ IF snap[c].state # "attention-required" /\ MayMove(rec, "attention-required")
     THEN Publish(Attention(rec, reason))
     ELSE UNCHANGED rec
  /\ UNCHANGED charged /\ Return(c)

BindResources(c) ==
  /\ pc[c] = "bind_resources"
  /\ \E res \in Resource \cup {None} :
       IF snap[c].resources = res THEN GiveUp(c)
       ELSE Save(c, [snap[c] EXCEPT !.resources = res], Free)

ConfigureBudget(c) ==
  /\ pc[c] = "configure_budget"
  /\ \E limit \in Limits :
       IF snap[c].deadline_at # 0 THEN GiveUp(c)
       ELSE Save(c, [snap[c] EXCEPT !.limit = limit, !.deadline_at = now + TimeBudget], Free)

ConsumeAttempt(c) ==
  /\ pc[c] = "consume_attempt"
  /\ \E n \in TokenCost : LET cost == Meters(1, 0, n) IN
       IF Expired(snap[c]) \/ Spent(snap[c], cost)
       THEN Exhaust(c, "retry-exhausted")
       ELSE Save(c, Charge(snap[c], cost), cost)

ConsumeTokens(c) ==
  /\ pc[c] = "consume_tokens"
  /\ \E n \in TokenCost : LET cost == Meters(0, 0, n) IN
       IF Expired(snap[c]) \/ Spent(snap[c], cost)
       THEN Exhaust(c, "retry-exhausted")
       ELSE Save(c, Charge(snap[c], cost), cost)

ConsumeModelRestart(c) ==
  /\ pc[c] = "consume_model_restart"
  /\ \E explicitly_permitted \in BOOLEAN : LET cost == Meters(0, 1, 0) IN
       IF Expired(snap[c]) \/ ~explicitly_permitted \/ Spent(snap[c], cost)
       THEN Exhaust(c, "retry-exhausted")
       ELSE Save(c, Charge(snap[c], cost), cost)

\* It extends the deadline and never asks whether the old one has passed.
BeginContinuation(c) ==
  /\ pc[c] = "begin_continuation"
  /\ LET cost == Meters(1, 0, 0) IN
       IF snap[c].state \notin CALLBACK_WAIT_STATES THEN GiveUp(c)
       ELSE IF Spent(snap[c], cost) THEN Exhaust(c, "retry-exhausted")
       ELSE Save(c, [Charge(snap[c], cost) EXCEPT !.deadline_at = now + TimeBudget], cost)

\* The worker's poll: a first read selects waiting operations, check_budget
\* reads the record again.
EnforceCallbackDeadline(c) ==
  /\ pc[c] = "enforce_callback_deadline"
  /\ IF snap[c].state \in CALLBACK_WAIT_STATES /\ snap[c].deadline_at # 0
     THEN /\ pc' = [pc EXCEPT ![c] = "check_budget"]
          /\ snap' = [snap EXCEPT ![c] = rec]
          /\ UNCHANGED <<rec, now, doing, runs, charged>>
     ELSE GiveUp(c)

CheckBudget(c) ==
  /\ pc[c] = "check_budget"
  /\ IF Expired(snap[c]) THEN Exhaust(c, "callback-timeout") ELSE GiveUp(c)

\* Cancellation of a stale effect: what classify_pending_retirement authorizes.
Retirable(r) ==
  /\ r.pending_effect # None /\ r.accepted_callback = None
  /\ IF r.pending_effect \in Resumable
     THEN "verifying" \in {r.state, r.resume_state} /\ r.resources = None
     ELSE r.state = "attention-required" /\ r.resume_state = "starting"

RetireAuthorizedPendingEffect(c) ==
  /\ pc[c] = "retire_authorized_pending_effect"
  /\ \E outcome \in Resolved :
       IF Retirable(snap[c])
       THEN Save(c, Retired(Settled(snap[c], outcome), "cancelled"), Free)
       ELSE GiveUp(c)

\* Fault: a pending effect does not stop the retirement.
RetireWithPendingEffect(c) ==
  /\ pc[c] = "retire_proven_absent_resources"
  /\ IF /\ snap[c].resources # None
        /\ snap[c].state \in {"awaiting-callback", "attention-required"}
     THEN Save(c, Retired(snap[c], "complete"), Free)
     ELSE GiveUp(c)

RetireProvenAbsentResources(c) ==
  /\ pc[c] = "retire_proven_absent_resources"
  /\ IF /\ snap[c].resources # None
        /\ snap[c].pending_effect = None
        /\ snap[c].state \in {"awaiting-callback", "attention-required", "finalizing",
                              "cancelling", "exiting"}
     THEN Save(c, Retired(snap[c], "complete"), Free)
     ELSE GiveUp(c)

\* The round of a closed parent; its answer stays as it was accepted.
CompleteRoundAfterSupportedClose(c) ==
  /\ pc[c] = "complete_round_after_supported_close"
  /\ IF /\ snap[c].state = "verifying" /\ snap[c].accepted_callback # None
        /\ snap[c].resources = None /\ snap[c].pending_effect = None
        /\ snap[c].effect_id = None /\ snap[c].effect_outcome = "none"
     THEN Save(c, Retired(snap[c], "complete"), Free)
     ELSE GiveUp(c)

\* The worker takes a stopped wait up again where it was.
RecoverReviewContinuation(c) ==
  /\ pc[c] = "recover_review_continuation"
  /\ IF /\ snap[c].state = "attention-required" /\ snap[c].pending_effect = None
        /\ snap[c].resume_state \in CALLBACK_WAIT_STATES
     THEN Save(c, Resumed(snap[c], snap[c].resume_state), Free)
     ELSE GiveUp(c)

\* An answer for the record as the broker read it.  A review meets the record's
\* deadline first, and what the deadline refuses may mark it.
AcceptCallback(c) ==
  /\ pc[c] = "accept_callback"
  /\ IF \/ rec.revision # snap[c].revision
        \/ rec.accepted_callback # None \/ rec.state \in TERMINAL
     THEN UNCHANGED rec
     ELSE \E answer \in Callback, s \in AnswerState, enforced \in BOOLEAN :
            IF enforced /\ (TimedOut(rec) \/ Expired(rec))
            THEN Publish(Attention(rec, "callback-timeout"))
            ELSE IF rec.state = "awaiting-callback" /\ MayMove(rec, s)
            THEN Publish(AnsweredWith(rec, s, answer))
            ELSE UNCHANGED rec
  /\ UNCHANGED charged /\ Return(c)

-----------------------------------------------------------------------------
(* OperationSupervisor.effect                                              *)

\* Fault: a pending effect of the same name is run again, whoever owns it.
EffectReadRetrying(c) ==
  /\ pc[c] = "idle"
  /\ \E e \in Effect :
       /\ rec.pending_effect \in {None, e}
       /\ pc' = [pc EXCEPT ![c] = IF rec.pending_effect = None THEN "begin" ELSE "act"]
       /\ doing' = [doing EXCEPT ![c] = e]
  /\ UNCHANGED <<rec, now, snap, runs, charged>>

\* Fault: a reservation found in place is taken for a finished action.
EffectReadTrusting(c) ==
  /\ pc[c] = "idle"
  /\ \E e \in Effect :
       /\ rec.pending_effect \in {None, e}
       /\ pc' = [pc EXCEPT ![c] = IF rec.pending_effect = None THEN "begin" ELSE "resolve"]
       /\ doing' = [doing EXCEPT ![c] = e]
  /\ UNCHANGED <<rec, now, snap, runs, charged>>

\* The unlocked read: a pending effect is refused unless its owner resumes
\* it, one already recorded as succeeded is replayed without its action.
EffectRead(c) ==
  /\ pc[c] = "idle"
  /\ \E e \in Effect :
       /\ IF rec.pending_effect # None
          THEN /\ rec.pending_effect = e /\ e \in Resumable
               /\ pc' = [pc EXCEPT ![c] = "act"]
          ELSE /\ ~(rec.effect_id = e /\ rec.effect_outcome = "succeeded")
               /\ pc' = [pc EXCEPT ![c] = "begin"]
       /\ doing' = [doing EXCEPT ![c] = e]
  /\ UNCHANGED <<rec, now, snap, runs, charged>>

\* The write-ahead reservation, under the lock but blind to what was read.
EffectBegin(c) ==
  /\ pc[c] = "begin"
  /\ IF MayBegin(rec, doing[c])
     THEN /\ Publish(Begun(rec, doing[c]))
          /\ runs' = IF rec' = rec THEN runs ELSE 0
          /\ pc' = [pc EXCEPT ![c] = "act"]
          /\ UNCHANGED <<now, snap, doing, charged>>
     ELSE GiveUp(c)

\* The external action itself; the store does not see it.
EffectAct(c) ==
  /\ pc[c] = "act"
  /\ runs < MaxRuns
  /\ runs' = runs + 1
  /\ \E next \in {"persist", "resolve"} : pc' = [pc EXCEPT ![c] = next]
  /\ UNCHANGED <<rec, now, snap, doing, charged>>

\* persist_result binds the resources the action returned.
EffectPersist(c) ==
  /\ pc[c] = "persist"
  /\ pc' = [pc EXCEPT ![c] = "persist-save"]
  /\ snap' = [snap EXCEPT ![c] = rec]
  /\ UNCHANGED <<rec, now, doing, runs, charged>>

EffectPersistSave(c) ==
  /\ pc[c] = "persist-save"
  /\ \E res \in Resource :
       IF snap[c].resources = res \/ rec.revision = snap[c].revision
       THEN /\ IF snap[c].resources = res THEN UNCHANGED rec
               ELSE Publish(NextRevision([snap[c] EXCEPT !.resources = res]))
            /\ pc' = [pc EXCEPT ![c] = "resolve"]
            /\ snap' = [snap EXCEPT ![c] = NewRecord(DefaultLimit)]
            /\ UNCHANGED <<now, doing, runs, charged>>
       ELSE GiveUp(c)

EffectResolve(c) ==
  /\ pc[c] = "resolve"
  /\ IF MayResolve(rec, "succeeded") THEN Publish(Settled(rec, "succeeded")) ELSE UNCHANGED rec
  /\ UNCHANGED charged /\ Return(c)

\* A crash, or an exception out of an action, anywhere in a call.
Crash(c) == pc[c] # "idle" /\ GiveUp(c)

StoreCall(c) ==
  \/ Transition(c) \/ Reconcile(c) \/ TimeOutLateRound(c)
  \/ RearmCallbackTimeout(c) \/ AdoptLateProcess(c) \/ ReopenRound(c)

BudgetCall(c) ==
  \/ ConfigureBudget(c) \/ ConsumeAttempt(c) \/ ConsumeTokens(c)
  \/ ConsumeModelRestart(c) \/ BeginContinuation(c)

RecordCall(c) ==
  \/ BindResources(c) \/ CheckBudget(c)
  \/ RetireAuthorizedPendingEffect(c) \/ RetireProvenAbsentResources(c)
  \/ CompleteRoundAfterSupportedClose(c) \/ RecoverReviewContinuation(c)
  \/ AcceptCallback(c)

EffectStep(c) ==
  \/ EffectRead(c) \/ EffectBegin(c) \/ EffectAct(c)
  \/ EffectPersist(c) \/ EffectPersistSave(c) \/ EffectResolve(c)

Next ==
  \/ Tick
  \/ \E c \in Coordinator :
       \/ StoreCall(c) \/ Read(c) \/ EnforceCallbackDeadline(c)
       \/ BudgetCall(c) \/ RecordCall(c) \/ EffectStep(c) \/ Crash(c)

Spec == Init /\ [][Next]_vars

-----------------------------------------------------------------------------
(* Properties                                                              *)

TypeOK ==
  /\ rec \in Record
  /\ now \in Nat
  /\ pc \in [Coordinator -> {"idle", "check_budget"} \cup SupervisorCall \cup EffectStage]
  /\ snap \in [Coordinator -> Record]
  /\ doing \in [Coordinator -> Effect \cup {None}]
  /\ runs \in Nat
  /\ charged \in [Meter -> Nat]

\* However calls interleave, no legal sequence of them asks for a record that
\* OperationRecord.__post_init__ refuses: budgets stay inside their limits and
\* the three fields of an effect keep agreeing.
RecordConstructible == Constructible(rec)

\* An operation asks for attention exactly when it says why, and then knows a
\* live state to resume; retirement and recovery both rely on resume_state.
AttentionIsExplained == Explained(rec)

\* An operation never ends with an effect whose outcome nobody knows.
TerminalIsSettled == SettledAtEnd(rec)

\* A finished operation stays finished, whatever stale snapshots are saved.
\* The one exception is meant: a round failed by the start of its parent, with
\* no effect, resources or answer of its own, is reopened by the recovery of a
\* late start.
TerminalIsFinal ==
  [][rec.state \in TERMINAL =>
       \/ rec'.state = rec.state
       \/ Untouched(rec) /\ rec'.state = "awaiting-callback"]_vars

\* While an effect is unresolved the operation can only stop for attention:
\* no caller moves it on past an uncertain external action.
PendingBlocksProgress ==
  [][rec.pending_effect # None /\ rec'.pending_effect = rec.pending_effect
       => rec'.state \in {rec.state, "attention-required"}]_vars

\* The record's counters hold exactly what the calls that returned have
\* charged: two coordinators that charge one snapshot are not counted as one,
\* and a call that raised charged nothing.
NoChargeIsLost == rec.used = charged

\* An accepted answer is never replaced or erased, not by a call that read the
\* record before the answer, nor by a retirement or a late deadline check.
AnswerIsKept ==
  [][rec.accepted_callback # None
       => rec'.accepted_callback = rec.accepted_callback]_vars

\* The limits are immutable once the envelope is persisted.
LimitsAreFixed == [][rec.deadline_at # 0 => rec'.limit = rec.limit]_vars

\* Every write of the record takes a new revision, so a snapshot read before
\* it can no longer be saved.
EveryWriteFences == [][rec' # rec => rec'.revision > rec.revision]_vars

\* The action of an effect is not run again while its own reservation is
\* unresolved, unless its owner declares it resumable.
NoBlindRetry == rec.pending_effect \notin Resumable \cup {None} => runs <= 1

\* A live operation does not record an external effect as succeeded when the
\* action reserved under that name never ran.
SucceededMeansPerformed ==
  rec.state \notin TERMINAL /\ rec.effect_outcome = "succeeded" => runs > 0
=============================================================================
