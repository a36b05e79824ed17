---------------------- MODULE OperationSupervisorProofs ----------------------
(***************************************************************************)
(* Safety of OperationSupervisor for every number of coordinators and      *)
(* every bound.  The properties of the record are not inductive alone: a   *)
(* save publishes a record built from a snapshot, so the invariant also    *)
(* says that a snapshot of the current revision IS the current record      *)
(* (Fenced), that counters are charged only under a configured budget, and *)
(* that they hold what the calls that returned have charged.               *)
(* What follows the record alone holds whoever else writes it; that an     *)
(* effect is performed at most once, and that a success was performed,     *)
(* needs a coordinator whose records nobody else retires or settles, and   *)
(* is proved for one (OneCoordinator).                                     *)
(***************************************************************************)
EXTENDS OperationSupervisor, OperationRecordProofs

\* The points of a call at which the coordinator holds a snapshot.
Holding == SupervisorCall \cup {"check_budget", "persist-save"}

\* The compare-and-swap protects what the snapshot says.
Fenced(c) ==
  pc[c] \in Holding =>
    /\ snap[c].revision <= rec.revision
    /\ snap[c].revision = rec.revision => snap[c] = rec

\* A coordinator about to reserve an effect knows which one.
Chosen(c) == pc[c] = "begin" => doing[c] \in Effect

ConsumesConfigured(c) == pc[c] \in Consuming => snap[c].deadline_at # 0

IInv ==
  /\ TypeOK
  /\ now > 0
  /\ NoChargeIsLost
  /\ WellFormed(rec)
  /\ \A c \in Coordinator : Fenced(c) /\ ConsumesConfigured(c) /\ Chosen(c)

-----------------------------------------------------------------------------
\* OperationStore.create returns a record of the declared type.
LEMMA NewRecordType ==
  ASSUME NEW limit \in [Meter -> Nat]
  PROVE  NewRecord(limit) \in Record
<1>1. /\ "created" \in States /\ 0 \in Nat /\ "none" \in Outcome
      /\ [m \in Meter |-> 0] \in [Meter -> Nat]
  BY DEF States, Outcome
<1> QED
  BY <1>1 DEF NewRecord, Record

\* The cost of a call is a number per meter.
LEMMA MetersType ==
  ASSUME NEW a \in Nat, NEW b \in Nat, NEW n \in Nat
  PROVE  Meters(a, b, n) \in [Meter -> Nat]
  BY DEF Meters

\* The invariant holds once the record was created and nobody called yet.
LEMMA InitIInv == Init => IInv
<1> SUFFICES ASSUME Init PROVE IInv
  OBVIOUS
<1>1. NewRecord(DefaultLimit) \in Record
  BY SupervisorAssumption, NewRecordType
<1>2. TypeOK /\ NoChargeIsLost
  <2>1. Free \in [Meter -> Nat] /\ Free = [m \in Meter |-> 0]
    BY DEF Free, Meters
  <2> QED
    BY <1>1, <2>1 DEF Init, TypeOK, NewRecord, NoChargeIsLost
<1>3. WellFormed(rec)
  <2>1. Constructible(rec)
    BY SupervisorAssumption DEF Init, NewRecord, Constructible, Meter
  <2>2. Explained(rec) /\ SettledAtEnd(rec) /\ UnspentUntilConfigured(rec)
    BY DEF Init, NewRecord, Explained, SettledAtEnd, UnspentUntilConfigured, TERMINAL
  <2> QED
    BY <1>1, <2>1, <2>2 DEF Init, WellFormed
<1>4. \A c \in Coordinator : Fenced(c) /\ ConsumesConfigured(c) /\ Chosen(c)
  BY DEF Init, Fenced, ConsumesConfigured, Chosen, Holding, SupervisorCall, Consuming
<1> QED
  BY <1>2, <1>3, <1>4 DEF IInv, Init

-----------------------------------------------------------------------------
(* What a step does to the record.                                         *)

Builds == rec' = rec \/ Successor(rec, rec')

\* The absent reason is none of the attention reasons.
LEMMA NoneIsNoReason == None \notin AttentionReason
  BY DEF None, AttentionReason

\* Saving a successor of the snapshot either fails or builds on the record.
LEMMA SaveBuilds ==
  ASSUME IInv, NEW c \in Coordinator, pc[c] \in Holding, NEW q,
         WellFormed(snap[c]) => Successor(snap[c], NextRevision(q)),
         NEW cost, Save(c, q, cost)
  PROVE  Builds
<1>1. CASE rec.revision = snap[c].revision
  <2>1. snap[c] = rec
    BY <1>1 DEF IInv, Fenced
  <2>2. rec' = NextRevision(q)
    BY <1>1 DEF Save, Publish
  <2> QED
    BY <2>1, <2>2 DEF IInv, Builds
<1>2. CASE rec.revision # snap[c].revision
  BY <1>2 DEF Save, Builds
<1> QED
  BY <1>1, <1>2

\* _exhaust marks the current record, whatever the snapshot says, or leaves it.
LEMMA ExhaustBuilds ==
  ASSUME IInv, NEW c \in Coordinator, NEW reason \in AttentionReason, Exhaust(c, reason)
  PROVE  Builds
<1>1. CASE snap[c].state # "attention-required" /\ MayMove(rec, "attention-required")
  <2>1. rec' = Moved(rec, "attention-required", reason)
    BY <1>1 DEF Exhaust, Publish, Attention
  <2>2. "attention-required" \in States /\ reason # None
    BY NoneIsNoReason DEF States
  <2>3. WellFormed(rec)
    BY DEF IInv
  <2> QED
    BY <1>1, <2>1, <2>2, <2>3, MovedBuilds DEF Builds
<1>2. CASE ~(snap[c].state # "attention-required" /\ MayMove(rec, "attention-required"))
  BY <1>2 DEF Exhaust, Builds
<1> QED
  BY <1>1, <1>2

\* A charge the limits allow, saved under the revision fence, builds on the record.
LEMMA ChargeBuilds ==
  ASSUME IInv, NEW c \in Coordinator, pc[c] \in Consuming,
         NEW cost \in [Meter -> Nat], ~Spent(snap[c], cost),
         Save(c, Charge(snap[c], cost), cost)
  PROVE  Builds
<1> DEFINE r == snap[c]
           q == Charge(r, cost)
<1>1. r \in Record /\ r.deadline_at # 0 /\ r.deadline_at \in Nat /\ pc[c] \in Holding
  BY Fields DEF IInv, TypeOK, ConsumesConfigured, Holding, SupervisorCall, Consuming
<1>2. q = [Charge(r, cost) EXCEPT !.deadline_at = r.deadline_at]
  BY <1>1 DEF Charge, Record
<1>3. ~Spent(r, cost)
  OBVIOUS
<1> HIDE DEF r, q
<1>4. WellFormed(r) => Successor(r, NextRevision(q))
  BY <1>1, <1>2, <1>3, ChargedBuilds
<1> QED
  BY <1>1, <1>4, SaveBuilds DEF r, q

\* A live operation may always ask for attention.
LEMMA MayAsk ==
  ASSUME NEW r \in Record, r.state \notin TERMINAL
  PROVE  MayMove(r, "attention-required")
<1>1. r.state \in States
  BY Fields
<1> QED
  BY <1>1 DEF MayMove, TRANSITIONS, States, TERMINAL

\* Asking for attention returns the record or builds on it.
LEMMA AttentionBuilds ==
  ASSUME IInv, NEW reason \in AttentionReason, MayMove(rec, "attention-required"),
         rec' = Attention(rec, reason)
  PROVE  Builds
<1>1. "attention-required" \in States /\ reason # None /\ WellFormed(rec)
  BY NoneIsNoReason DEF States, IInv
<1> QED
  BY <1>1, MovedBuilds DEF Attention, Builds

\* The calls that decide and write under the lock build on the record.
LEMMA StoreBuilds ==
  ASSUME IInv, NEW c \in Coordinator, StoreCall(c)
  PROVE  Builds
<1>1. WellFormed(rec) /\ rec \in Record
  BY DEF IInv, WellFormed
<1>2. CASE \E s \in Targets : MayMove(rec, s) /\ Publish(Moved(rec, s, None))
  <2>1. PICK s \in Targets : MayMove(rec, s) /\ rec' = Moved(rec, s, None)
    BY <1>2 DEF Publish
  <2>2. s \in States /\ s # "attention-required"
    BY SupervisorAssumption
  <2> QED
    BY <1>1, <2>1, <2>2, MovedBuilds DEF Builds
<1>3. CASE \E reason \in Reasons :
             MayMove(rec, "attention-required") /\ Publish(Attention(rec, reason))
  <2>1. PICK reason \in Reasons : /\ MayMove(rec, "attention-required")
                                  /\ rec' = Attention(rec, reason)
    BY <1>3 DEF Publish
  <2> QED
    BY <2>1, SupervisorAssumption, AttentionBuilds
<1>4. CASE Reconcile(c)
  BY <1>1, <1>4, SettledBuilds DEF Reconcile, Publish, Resolved, Builds
<1>5. CASE TimeOutLateRound(c)
  <2>1. MayMove(rec, "attention-required") /\ "callback-timeout" \in AttentionReason
    BY <1>1, <1>5, MayAsk DEF TimeOutLateRound, AttentionReason
  <2> QED
    BY <1>5, <2>1, AttentionBuilds DEF TimeOutLateRound, Publish
<1>6. CASE RearmCallbackTimeout(c)
  <2> DEFINE d == now + TimeBudget
  <2>1. d \in Nat /\ d # 0
    BY SupervisorAssumption DEF IInv, TypeOK
  <2>2. /\ rec.state = "attention-required" /\ MayMove(rec, "awaiting-callback")
        /\ rec.deadline_at # 0
        /\ rec' = [Moved(rec, "awaiting-callback", None) EXCEPT !.deadline_at = d]
    BY <1>6 DEF RearmCallbackTimeout, TimedOut, Publish
  <2> HIDE DEF d
  <2> QED
    BY <1>1, <2>1, <2>2, RearmedBuilds DEF Builds
<1>7. CASE AdoptLateProcess(c)
  <2>1. rec.pending_effect # None
    BY <1>7, SupervisorAssumption, IdentityAssumption DEF AdoptLateProcess
  <2> QED
    BY <1>1, <1>7, <2>1, AdoptedBuilds DEF AdoptLateProcess, Publish, Builds
<1>8. CASE ReopenRound(c)
  <2>1. "awaiting-callback" \in Onward
    BY DEF Onward, States, TERMINAL
  <2> QED
    BY <1>1, <1>8, <2>1, ResumedBuilds DEF ReopenRound, Untouched, Waiting, Publish, Builds
<1> QED
  BY <1>2, <1>3, <1>4, <1>5, <1>6, <1>7, <1>8 DEF StoreCall, Transition

\* Binding resources, alone or as the effect's persistence, builds on the record.
LEMMA BindBuilds ==
  ASSUME IInv, NEW c \in Coordinator, BindResources(c) \/ EffectPersistSave(c)
  PROVE  Builds
<1>1. CASE BindResources(c)
  <2>1. PICK res \in Resource \cup {None} :
          IF snap[c].resources = res THEN GiveUp(c)
          ELSE Save(c, [snap[c] EXCEPT !.resources = res], Free)
    BY <1>1 DEF BindResources
  <2>2. CASE GiveUp(c)
    BY <2>2 DEF GiveUp, Builds
  <2>3. CASE Save(c, [snap[c] EXCEPT !.resources = res], Free)
    <3>1. WellFormed(snap[c]) => Successor(snap[c], NextRevision([snap[c] EXCEPT !.resources = res]))
      BY BoundBuilds
    <3>2. pc[c] \in Holding
      BY <1>1 DEF BindResources, Holding, SupervisorCall
    <3> QED
      BY <2>3, <3>1, <3>2, SaveBuilds
  <2> QED
    BY <2>1, <2>2, <2>3
<1>2. CASE EffectPersistSave(c)
  <2>1. CASE rec' = rec
    BY <2>1 DEF Builds
  <2>2. CASE rec' # rec
    <3>1. PICK res \in Resource :
            /\ rec.revision = snap[c].revision
            /\ rec' = NextRevision([snap[c] EXCEPT !.resources = res])
      BY <1>2, <2>2 DEF EffectPersistSave, GiveUp, Publish
    <3>2. snap[c] = rec
      BY <1>2, <3>1 DEF IInv, Fenced, EffectPersistSave, Holding
    <3> QED
      BY <3>1, <3>2, BoundBuilds DEF IInv, Builds
  <2> QED
    BY <2>1, <2>2
<1> QED
  BY <1>1, <1>2

\* configure_budget builds on the record.
LEMMA ConfigureBuilds ==
  ASSUME IInv, NEW c \in Coordinator, ConfigureBudget(c)
  PROVE  Builds
<1>1. PICK limit \in Limits :
        IF snap[c].deadline_at # 0 THEN GiveUp(c)
        ELSE Save(c, [snap[c] EXCEPT !.limit = limit, !.deadline_at = now + TimeBudget], Free)
  BY DEF ConfigureBudget
<1>2. CASE GiveUp(c)
  BY <1>2 DEF GiveUp, Builds
<1>3. CASE /\ snap[c].deadline_at = 0
           /\ Save(c, [snap[c] EXCEPT !.limit = limit, !.deadline_at = now + TimeBudget], Free)
  <2> DEFINE d == now + TimeBudget
  <2>1. /\ d \in Nat
        /\ limit \in [Meter -> Nat] /\ limit["attempt"] >= 1 /\ limit["tokens_used"] >= 1
    BY SupervisorAssumption DEF IInv, TypeOK
  <2>2. Save(c, [snap[c] EXCEPT !.limit = limit, !.deadline_at = d], Free)
    BY <1>3
  <2>3. pc[c] \in Holding
    BY DEF ConfigureBudget, Holding, SupervisorCall
  <2> HIDE DEF d
  <2>4. WellFormed(snap[c])
          => Successor(snap[c], NextRevision([snap[c] EXCEPT !.limit = limit, !.deadline_at = d]))
    BY <1>3, <2>1, ConfiguredBuilds
  <2> QED
    BY <2>2, <2>3, <2>4, SaveBuilds
<1> QED
  BY <1>1, <1>2, <1>3

\* A consume call charges some cost its snapshot allows, or gives up the attempts.
LEMMA ConsumeIs ==
  ASSUME NEW c \in Coordinator,
         ConsumeAttempt(c) \/ ConsumeTokens(c) \/ ConsumeModelRestart(c)
  PROVE  \E cost \in [Meter -> Nat] :
           \/ Exhaust(c, "retry-exhausted")
           \/ ~Spent(snap[c], cost) /\ Save(c, Charge(snap[c], cost), cost)
<1>1. CASE ConsumeAttempt(c)
  <2>1. PICK n \in TokenCost :
          \/ Exhaust(c, "retry-exhausted")
          \/ ~Spent(snap[c], Meters(1, 0, n)) /\ Save(c, Charge(snap[c], Meters(1, 0, n)), Meters(1, 0, n))
    BY <1>1 DEF ConsumeAttempt
  <2> QED
    BY <2>1, SupervisorAssumption, MetersType
<1>2. CASE ConsumeTokens(c)
  <2>1. PICK n \in TokenCost :
          \/ Exhaust(c, "retry-exhausted")
          \/ ~Spent(snap[c], Meters(0, 0, n)) /\ Save(c, Charge(snap[c], Meters(0, 0, n)), Meters(0, 0, n))
    BY <1>2 DEF ConsumeTokens
  <2> QED
    BY <2>1, SupervisorAssumption, MetersType
<1>3. CASE ConsumeModelRestart(c)
  <2>1. \/ Exhaust(c, "retry-exhausted")
        \/ ~Spent(snap[c], Meters(0, 1, 0)) /\ Save(c, Charge(snap[c], Meters(0, 1, 0)), Meters(0, 1, 0))
    BY <1>3 DEF ConsumeModelRestart
  <2> QED
    BY <2>1, MetersType
<1> QED
  BY <1>1, <1>2, <1>3

\* The three consume calls build on the record, or mark it exhausted.
LEMMA ConsumeBuilds ==
  ASSUME IInv, NEW c \in Coordinator,
         ConsumeAttempt(c) \/ ConsumeTokens(c) \/ ConsumeModelRestart(c)
  PROVE  Builds
<1>1. pc[c] \in Consuming
  BY DEF ConsumeAttempt, ConsumeTokens, ConsumeModelRestart, Consuming
<1>2. PICK cost \in [Meter -> Nat] :
        \/ Exhaust(c, "retry-exhausted")
        \/ ~Spent(snap[c], cost) /\ Save(c, Charge(snap[c], cost), cost)
  BY ConsumeIs, Zenon
<1>3. "retry-exhausted" \in AttentionReason
  BY DEF AttentionReason
<1> QED
  BY <1>1, <1>2, <1>3, ExhaustBuilds, ChargeBuilds

\* begin_continuation charges one attempt and extends the deadline of the record.
LEMMA ContinuationBuilds ==
  ASSUME IInv, NEW c \in Coordinator, BeginContinuation(c)
  PROVE  Builds
<1> DEFINE cost == Meters(1, 0, 0)
           d == now + TimeBudget
           q == [Charge(snap[c], cost) EXCEPT !.deadline_at = d]
<1>1. \/ GiveUp(c)
      \/ Exhaust(c, "retry-exhausted")
      \/ ~Spent(snap[c], cost) /\ Save(c, q, cost)
  BY DEF BeginContinuation
<1>2. cost \in [Meter -> Nat] /\ d \in Nat /\ d # 0
  <2>1. cost \in [Meter -> Nat]
    BY MetersType
  <2>2. d \in Nat /\ d # 0
    BY SupervisorAssumption DEF IInv, TypeOK
  <2> QED
    BY <2>1, <2>2
<1>3. q = [Charge(snap[c], cost) EXCEPT !.deadline_at = d]
  OBVIOUS
<1>4. pc[c] \in Holding /\ "retry-exhausted" \in AttentionReason
  BY DEF BeginContinuation, Holding, SupervisorCall, AttentionReason
<1> HIDE DEF cost, d, q
<1>5. CASE GiveUp(c)
  BY <1>5 DEF GiveUp, Builds
<1>6. CASE Exhaust(c, "retry-exhausted")
  BY <1>4, <1>6, ExhaustBuilds
<1>7. CASE ~Spent(snap[c], cost) /\ Save(c, q, cost)
  <2>1. WellFormed(snap[c]) => Successor(snap[c], NextRevision(q))
    BY <1>2, <1>3, <1>7, ChargedBuilds
  <2> QED
    BY <1>4, <1>7, <2>1, SaveBuilds
<1> QED
  BY <1>1, <1>5, <1>6, <1>7

\* The retirements and the closed round end a record that has no pending effect.
LEMMA RetireBuilds ==
  ASSUME IInv, NEW c \in Coordinator,
         \/ RetireAuthorizedPendingEffect(c) \/ RetireProvenAbsentResources(c)
         \/ CompleteRoundAfterSupportedClose(c)
  PROVE  Builds
<1>1. pc[c] \in Holding /\ {"cancelled", "complete"} \subseteq TERMINAL
  BY DEF RetireAuthorizedPendingEffect, RetireProvenAbsentResources,
         CompleteRoundAfterSupportedClose, Holding, SupervisorCall, TERMINAL
<1>2. CASE GiveUp(c)
  BY <1>2 DEF GiveUp, Builds
<1>3. ASSUME NEW outcome \in Resolved, snap[c].pending_effect # None,
             Save(c, Retired(Settled(snap[c], outcome), "cancelled"), Free)
      PROVE  Builds
  <2>1. WellFormed(snap[c])
          => Successor(snap[c], NextRevision(Retired(Settled(snap[c], outcome), "cancelled")))
    BY <1>1, <1>3, SettledRetiredBuilds
  <2> QED
    BY <1>1, <1>3, <2>1, SaveBuilds
<1>4. CASE /\ snap[c].pending_effect = None /\ snap[c].state \notin TERMINAL
           /\ Save(c, Retired(snap[c], "complete"), Free)
  <2>1. WellFormed(snap[c]) => Successor(snap[c], NextRevision(Retired(snap[c], "complete")))
    BY <1>1, <1>4, RetiredBuilds
  <2> QED
    BY <1>1, <1>4, <2>1, SaveBuilds
<1>5. CASE RetireAuthorizedPendingEffect(c)
  BY <1>2, <1>3, <1>5 DEF RetireAuthorizedPendingEffect, Retirable
<1>6. CASE RetireProvenAbsentResources(c)
  BY <1>2, <1>4, <1>6 DEF RetireProvenAbsentResources, TERMINAL
<1>7. CASE CompleteRoundAfterSupportedClose(c)
  BY <1>2, <1>4, <1>7 DEF CompleteRoundAfterSupportedClose, TERMINAL
<1> QED
  BY <1>5, <1>6, <1>7

\* A stopped wait taken up again, and an accepted answer, build on the record.
LEMMA WaitBuilds ==
  ASSUME IInv, NEW c \in Coordinator, RecoverReviewContinuation(c) \/ AcceptCallback(c)
  PROVE  Builds
<1>1. WellFormed(rec) /\ rec \in Record
  BY DEF IInv, WellFormed
<1>2. CASE rec' = rec
  BY <1>2 DEF Builds
<1>3. CASE /\ RecoverReviewContinuation(c) /\ rec' # rec
  <2>1. /\ snap[c].state = "attention-required" /\ snap[c].pending_effect = None
        /\ snap[c].resume_state \in CALLBACK_WAIT_STATES
        /\ Save(c, Resumed(snap[c], snap[c].resume_state), Free)
    BY <1>3 DEF RecoverReviewContinuation, GiveUp
  <2>2. pc[c] \in Holding /\ CALLBACK_WAIT_STATES \subseteq Onward
    BY <1>3 DEF RecoverReviewContinuation, Holding, SupervisorCall, CALLBACK_WAIT_STATES,
       Onward, States, TERMINAL
  <2>3. snap[c].resume_state \in Onward /\ snap[c].state \notin TERMINAL
    BY <2>1, <2>2 DEF TERMINAL
  <2>4. WellFormed(snap[c])
          => Successor(snap[c], NextRevision(Resumed(snap[c], snap[c].resume_state)))
    BY <2>1, <2>3, ResumedBuilds
  <2> QED
    BY <2>1, <2>2, <2>4, SaveBuilds
<1>4. CASE /\ AcceptCallback(c) /\ rec' # rec
  <2>1. rec.accepted_callback = None /\ rec.state \notin TERMINAL
    BY <1>4 DEF AcceptCallback
  <2>2. \E answer \in Callback, s \in AnswerState :
          \/ rec' = Attention(rec, "callback-timeout")
          \/ /\ rec.state = "awaiting-callback" /\ MayMove(rec, s)
             /\ rec' = AnsweredWith(rec, s, answer)
    BY <1>4 DEF AcceptCallback, Publish
  <2>3. "callback-timeout" \in AttentionReason
    BY DEF AttentionReason
  <2>4. CASE rec' = Attention(rec, "callback-timeout")
    BY <1>1, <2>1, <2>3, <2>4, MayAsk, AttentionBuilds
  <2>5. CASE rec' # Attention(rec, "callback-timeout")
    BY <1>1, <2>1, <2>2, <2>5, AnsweredBuilds DEF Builds
  <2> QED
    BY <2>4, <2>5
<1> QED
  BY <1>2, <1>3, <1>4

\* The two writes of an effect, its reservation and its resolution, build on the record.
LEMMA EffectBuilds ==
  ASSUME IInv, NEW c \in Coordinator, EffectBegin(c) \/ EffectResolve(c)
  PROVE  Builds
<1> USE DEF Builds
<1>1. CASE EffectBegin(c)
  <2>1. CASE MayBegin(rec, doing[c]) /\ doing[c] \in Effect
    BY <1>1, <2>1, BegunBuilds DEF IInv, EffectBegin, Publish
  <2>2. CASE ~MayBegin(rec, doing[c])
    BY <1>1, <2>2 DEF EffectBegin, GiveUp
  <2>3. doing[c] \in Effect
    BY <1>1 DEF IInv, Chosen, EffectBegin
  <2> QED
    BY <2>1, <2>2, <2>3
<1>2. CASE EffectResolve(c)
  BY <1>2, SettledBuilds DEF IInv, EffectResolve, Publish, Resolved
<1> QED
  BY <1>1, <1>2

\* Every step keeps the record or replaces it by a successor.
LEMMA NextBuilds == IInv /\ [Next]_vars => Builds
<1> SUFFICES ASSUME IInv, [Next]_vars PROVE Builds
  OBVIOUS
<1>1. CASE rec' = rec
  BY <1>1 DEF Builds
<1>2. CASE rec' # rec
  <2>1. PICK c \in Coordinator :
          StoreCall(c) \/ BudgetCall(c) \/ RecordCall(c) \/ EffectStep(c)
    BY <1>2, Zenon DEF Next, vars, Tick, Read, EnforceCallbackDeadline, Crash, GiveUp
  <2>2. CASE StoreCall(c)
    BY <2>2, StoreBuilds
  <2>3. CASE BudgetCall(c)
    BY <2>3, ConfigureBuilds, ConsumeBuilds, ContinuationBuilds DEF BudgetCall
  <2>4. CASE CheckBudget(c)
    <3>1. Exhaust(c, "callback-timeout") /\ "callback-timeout" \in AttentionReason
      BY <1>2, <2>4 DEF CheckBudget, GiveUp, AttentionReason
    <3> QED
      BY <3>1, ExhaustBuilds
  <2>5. CASE RecordCall(c)
    BY <2>4, <2>5, BindBuilds, RetireBuilds, WaitBuilds DEF RecordCall
  <2>6. CASE EffectStep(c)
    <3>1. EffectBegin(c) \/ EffectPersistSave(c) \/ EffectResolve(c)
      BY <1>2, <2>6 DEF EffectStep, EffectRead, EffectAct, EffectPersist
    <3> QED
      BY <3>1, BindBuilds, EffectBuilds
  <2> QED
    BY <2>1, <2>2, <2>3, <2>5, <2>6
<1> QED
  BY <1>1, <1>2

-----------------------------------------------------------------------------
(* What a step does to the coordinators.                                   *)

\* A step of another coordinator, the start of a call (the snapshot is the
\* record), or the end of one.
Keeps(c) ==
  \/ pc'[c] = pc[c] /\ snap'[c] = snap[c] /\ doing'[c] = doing[c]
  \/ rec' = rec /\ snap'[c] = rec /\ pc'[c] # "begin"
     /\ (pc'[c] \in Consuming => rec.deadline_at # 0)
  \/ /\ pc'[c] \notin Holding
     /\ pc'[c] = "begin" => doing'[c] \in Effect

Points == {"idle", "check_budget"} \cup SupervisorCall \cup EffectStage

CallsAdvance ==
  /\ pc' \in [Coordinator -> Points]
  /\ snap' \in [Coordinator -> Record]
  /\ doing' \in [Coordinator -> Effect \cup {None}]
  /\ \A c \in Coordinator : Keeps(c)

\* One coordinator moves to point p, holding r and executing e.
LEMMA MoveKeeps ==
  ASSUME IInv, NEW c \in Coordinator,
         NEW p \in Points, NEW r \in Record, NEW e \in Effect \cup {None},
         pc' = [pc EXCEPT ![c] = p],
         snap' = [snap EXCEPT ![c] = r],
         doing' = [doing EXCEPT ![c] = e],
         \/ /\ rec' = rec /\ r = rec /\ p # "begin"
            /\ p \in Consuming => rec.deadline_at # 0
         \/ p \notin Holding /\ (p = "begin" => e \in Effect)
  PROVE  CallsAdvance
<1>1. /\ pc \in [Coordinator -> Points] /\ snap \in [Coordinator -> Record]
      /\ doing \in [Coordinator -> Effect \cup {None}]
  BY DEF IInv, TypeOK, Points
<1>2. /\ pc' \in [Coordinator -> Points] /\ snap' \in [Coordinator -> Record]
      /\ doing' \in [Coordinator -> Effect \cup {None}]
  BY <1>1
<1>3. ASSUME NEW d \in Coordinator PROVE Keeps(d)
  <2>1. CASE d # c
    BY <1>1, <2>1 DEF Keeps
  <2>2. CASE d = c
    <3>1. pc'[d] = p /\ snap'[d] = r /\ doing'[d] = e
      BY <1>1, <2>2
    <3> QED
      BY <3>1 DEF Keeps
  <2> QED
    BY <2>1, <2>2
<1> QED
  BY <1>2, <1>3 DEF CallsAdvance

\* A call that reads a new snapshot starts in step with the record.
LEMMA ReturnKeeps ==
  ASSUME IInv, NEW c \in Coordinator, Return(c)
  PROVE  CallsAdvance
<1>1. "idle" \in Points /\ "idle" \notin Holding /\ None \in Effect \cup {None}
  BY DEF Points, Holding, SupervisorCall
<1>2. NewRecord(DefaultLimit) \in Record
  BY SupervisorAssumption, NewRecordType
<1> QED
  BY <1>1, <1>2, MoveKeeps DEF Return

\* The stages of an effect keep the coordinator's own state well typed.
LEMMA EffectKeeps ==
  ASSUME IInv, NEW c \in Coordinator,
         EffectRead(c) \/ EffectBegin(c) \/ EffectAct(c) \/ EffectPersist(c) \/ EffectPersistSave(c)
  PROVE  CallsAdvance
<1>1. /\ pc \in [Coordinator -> Points] /\ snap \in [Coordinator -> Record]
      /\ doing \in [Coordinator -> Effect \cup {None}] /\ rec \in Record
  BY DEF IInv, TypeOK, Points
<1>2. snap = [snap EXCEPT ![c] = snap[c]] /\ doing = [doing EXCEPT ![c] = doing[c]]
  BY <1>1
<1>3. /\ EffectStage \subseteq Points
      /\ Holding \cap EffectStage = {"persist-save"}
      /\ "persist-save" \notin Consuming
  BY DEF Points, Holding, EffectStage, SupervisorCall, Consuming
<1>4. snap[c] \in Record /\ doing[c] \in Effect \cup {None}
  BY <1>1
<1>5. CASE EffectRead(c)
  <2>1. PICK e \in Effect, p \in {"act", "begin"} :
          /\ pc' = [pc EXCEPT ![c] = p] /\ doing' = [doing EXCEPT ![c] = e] /\ snap' = snap
    BY <1>5 DEF EffectRead
  <2>2. p \in Points /\ p \notin Holding
    BY DEF Points, EffectStage, Holding, SupervisorCall
  <2> QED
    BY <1>2, <1>4, <2>1, <2>2, MoveKeeps
<1>6. CASE EffectBegin(c)
  <2>1. CASE Return(c)
    BY <2>1, ReturnKeeps
  <2>2. CASE pc' = [pc EXCEPT ![c] = "act"] /\ snap' = snap /\ doing' = doing
    <3>1. "act" \in Points /\ "act" \notin Holding
      BY DEF Points, EffectStage, Holding, SupervisorCall
    <3> QED
      BY <1>2, <1>4, <2>2, <3>1, MoveKeeps
  <2> QED
    BY <1>6, <2>1, <2>2 DEF EffectBegin, GiveUp
<1>7. CASE EffectAct(c)
  <2>1. PICK p \in {"persist", "resolve"} :
          pc' = [pc EXCEPT ![c] = p] /\ snap' = snap /\ doing' = doing
    BY <1>7 DEF EffectAct
  <2>2. p \in Points /\ p \notin Holding /\ p # "begin"
    BY DEF Points, EffectStage, Holding, SupervisorCall
  <2> QED
    BY <1>2, <1>4, <2>1, <2>2, MoveKeeps
<1>8. CASE EffectPersist(c)
  <2>1. "persist-save" \in Points /\ "persist-save" # "begin"
    BY DEF Points, EffectStage
  <2> QED
    BY <1>1, <1>2, <1>3, <1>4, <1>8, <2>1, MoveKeeps DEF EffectPersist
<1>9. CASE EffectPersistSave(c)
  <2>1. CASE Return(c)
    BY <2>1, ReturnKeeps
  <2>2. CASE /\ pc' = [pc EXCEPT ![c] = "resolve"]
             /\ snap' = [snap EXCEPT ![c] = NewRecord(DefaultLimit)] /\ doing' = doing
    <3>1. "resolve" \in Points /\ "resolve" \notin Holding /\ "resolve" # "begin"
      BY DEF Points, EffectStage, Holding, SupervisorCall
    <3>2. NewRecord(DefaultLimit) \in Record
      BY SupervisorAssumption, NewRecordType
    <3> QED
      BY <1>2, <1>4, <2>2, <3>1, <3>2, MoveKeeps
  <2> QED
    BY <1>9, <2>1, <2>2 DEF EffectPersistSave, GiveUp
<1> QED
  BY <1>5, <1>6, <1>7, <1>8, <1>9

\* A store call changes nothing but the record.
LEMMA StoreIsLocked ==
  ASSUME NEW c \in Coordinator, StoreCall(c)
  PROVE  Locked(c)
  BY DEF StoreCall, Transition, Reconcile, TimeOutLateRound, RearmCallbackTimeout,
     AdoptLateProcess, ReopenRound

\* The second step of a supervisor call is its last.
LEMMA CallReturns ==
  ASSUME NEW c \in Coordinator, BudgetCall(c) \/ RecordCall(c)
  PROVE  Return(c)
<1>1. ASSUME BudgetCall(c) PROVE Return(c)
  BY <1>1 DEF BudgetCall, ConfigureBudget, ConsumeAttempt, ConsumeTokens,
     ConsumeModelRestart, BeginContinuation, GiveUp, Save, Exhaust
<1>2. ASSUME RecordCall(c) PROVE Return(c)
  BY <1>2 DEF RecordCall, BindResources, CheckBudget, RetireAuthorizedPendingEffect,
     RetireProvenAbsentResources, CompleteRoundAfterSupportedClose,
     RecoverReviewContinuation, AcceptCallback, GiveUp, Save, Exhaust
<1> QED
  BY <1>1, <1>2

\* No step takes a coordinator's snapshot ahead of the record.
LEMMA NextKeeps == IInv /\ [Next]_vars => CallsAdvance
<1> SUFFICES ASSUME IInv, [Next]_vars PROVE CallsAdvance
  OBVIOUS
<1>1. /\ pc \in [Coordinator -> Points] /\ snap \in [Coordinator -> Record]
      /\ doing \in [Coordinator -> Effect \cup {None}] /\ rec \in Record
  BY DEF IInv, TypeOK, Points
<1>2. CASE UNCHANGED <<pc, snap, doing>>
  BY <1>1, <1>2 DEF CallsAdvance, Keeps
<1>3. ASSUME NEW c \in Coordinator, Read(c) \/ EnforceCallbackDeadline(c)
      PROVE  CallsAdvance
  <2>1. CASE Return(c)
    BY <2>1, ReturnKeeps
  <2>2. CASE ~Return(c)
    <3>1. PICK p \in Calls \cup {"check_budget"} :
            /\ pc' = [pc EXCEPT ![c] = p] /\ snap' = [snap EXCEPT ![c] = rec]
            /\ doing' = doing /\ rec' = rec
            /\ p \in Consuming => rec.deadline_at # 0
      <4>1. "check_budget" \notin Consuming
        BY DEF Consuming
      <4> QED
        BY <1>3, <2>2, <4>1 DEF Read, EnforceCallbackDeadline, GiveUp
    <3>2. p \in Points /\ p # "begin"
      BY SupervisorAssumption DEF Points, SupervisorCall
    <3>3. doing = [doing EXCEPT ![c] = doing[c]] /\ doing[c] \in Effect \cup {None}
      BY <1>1
    <3> QED
      BY <1>1, <3>1, <3>2, <3>3, MoveKeeps
  <2> QED
    BY <2>1, <2>2
<1>4. CASE Next
  <2>1. CASE Tick
    BY <1>2, <2>1 DEF Tick
  <2>2. ASSUME NEW c \in Coordinator, StoreCall(c) PROVE CallsAdvance
    BY <1>2, <2>2, StoreIsLocked DEF Locked
  <2>3. ASSUME NEW c \in Coordinator, BudgetCall(c) \/ RecordCall(c) \/ Crash(c)
        PROVE  CallsAdvance
    BY <2>3, CallReturns, ReturnKeeps DEF Crash, GiveUp
  <2>4. ASSUME NEW c \in Coordinator, EffectStep(c) PROVE CallsAdvance
    BY <2>4, EffectKeeps, ReturnKeeps DEF EffectStep, EffectResolve
  <2> QED
    BY <1>3, <1>4, <2>1, <2>2, <2>3, <2>4, Zenon DEF Next
<1> QED
  BY <1>2, <1>4 DEF vars

-----------------------------------------------------------------------------
\* The clock and the run counter stay natural numbers.
LEMMA NowAndRuns == IInv /\ [Next]_vars => now' \in Nat /\ now' > 0 /\ runs' \in Nat
<1> SUFFICES ASSUME IInv, [Next]_vars PROVE now' \in Nat /\ now' > 0 /\ runs' \in Nat
  OBVIOUS
<1>1. now \in Nat /\ now > 0 /\ runs \in Nat
  BY DEF IInv, TypeOK
<1>2. now' \in {now, now + 1} /\ runs' \in {runs, runs + 1, 0}
  <2>1. ASSUME NEW c \in Coordinator, StoreCall(c) PROVE now' = now /\ runs' = runs
    BY <2>1, StoreIsLocked DEF Locked
  <2>2. ASSUME NEW c \in Coordinator, BudgetCall(c) \/ RecordCall(c) \/ Crash(c)
        PROVE  now' = now /\ runs' = runs
    BY <2>2, CallReturns DEF Return, Crash, GiveUp
  <2>3. ASSUME NEW c \in Coordinator, Read(c) \/ EnforceCallbackDeadline(c) \/ EffectStep(c)
        PROVE  now' = now /\ runs' \in {runs, runs + 1, 0}
    BY <2>3 DEF Read, EnforceCallbackDeadline, EffectStep, EffectRead, EffectBegin, EffectAct,
       EffectPersist, EffectPersistSave, EffectResolve, GiveUp, Return
  <2>4. CASE Tick
    BY <2>4 DEF Tick
  <2>5. CASE UNCHANGED vars
    BY <2>5 DEF vars
  <2> QED
    BY <2>1, <2>2, <2>3, <2>4, <2>5, Zenon DEF Next
<1> QED
  BY <1>1, <1>2

-----------------------------------------------------------------------------
(* What a step does to the charges.                                        *)

\* A save publishes its record over the one it was built from, or nothing.
LEMMA SaveIs ==
  ASSUME IInv, NEW c \in Coordinator, pc[c] \in Holding, NEW q, NEW cost, Save(c, q, cost)
  PROVE  \/ rec' = rec /\ charged' = charged
         \/ snap[c] = rec /\ rec' = NextRevision(q) /\ Charged(cost)
  BY DEF IInv, Fenced, Save, Publish

\* The record is charged what the step's caller counts on, if anything.
Accounts ==
  \/ rec'.used = rec.used /\ charged' = charged
  \/ \E cost \in [Meter -> Nat] :
       /\ rec'.used = [m \in Meter |-> rec.used[m] + cost[m]]
       /\ charged' = [m \in Meter |-> charged[m] + cost[m]]

\* A step that accounts for its charge loses none.
LEMMA AccountsKeeps ==
  ASSUME IInv, Accounts
  PROVE  NoChargeIsLost'
<1>1. rec.used = charged
  BY DEF IInv, NoChargeIsLost
<1>2. CASE rec'.used = rec.used /\ charged' = charged
  BY <1>1, <1>2 DEF NoChargeIsLost
<1>3. ASSUME NEW cost,
             rec'.used = [m \in Meter |-> rec.used[m] + cost[m]],
             charged' = [m \in Meter |-> charged[m] + cost[m]]
      PROVE  NoChargeIsLost'
  BY <1>1, <1>3, Zenon DEF NoChargeIsLost
<1> QED
  BY <1>2, <1>3 DEF Accounts

\* A save that keeps the counters charges nothing.
LEMMA FreeAccounts ==
  ASSUME IInv, NEW c \in Coordinator, pc[c] \in Holding, NEW q, Save(c, q, Free),
         snap[c] = rec => NextRevision(q).used = rec.used
  PROVE  Accounts
<1>1. [m \in Meter |-> charged[m] + Free[m]] = charged
  BY DEF Free, Meters, IInv, TypeOK
<1>2. \/ rec' = rec /\ charged' = charged
      \/ snap[c] = rec /\ rec' = NextRevision(q) /\ Charged(Free)
  BY SaveIs
<1> QED
  BY <1>1, <1>2 DEF Accounts, Charged

\* A save of charged counters charges the caller the same.
LEMMA ChargeAccounts ==
  ASSUME IInv, NEW c \in Coordinator, pc[c] \in Holding, NEW q, NEW cost \in [Meter -> Nat],
         Save(c, q, cost),
         snap[c] = rec => NextRevision(q).used = [m \in Meter |-> rec.used[m] + cost[m]]
  PROVE  Accounts
<1>1. \/ rec' = rec /\ charged' = charged
      \/ snap[c] = rec /\ rec' = NextRevision(q) /\ Charged(cost)
  BY SaveIs
<1> QED
  BY <1>1 DEF Accounts, Charged

\* A move of the state spends nothing.
LEMMA MovedSpends ==
  ASSUME NEW r \in Record, NEW s, NEW reason
  PROVE  Moved(r, s, reason).used = r.used
  BY DEF Moved, Record

\* The store calls charge nothing.
LEMMA StoreAccounts ==
  ASSUME IInv, NEW c \in Coordinator, StoreCall(c)
  PROVE  Accounts
<1>1. rec \in Record /\ charged' = charged
  BY StoreIsLocked DEF Locked, IInv, TypeOK
<1> SUFFICES rec'.used = rec.used
  BY <1>1 DEF Accounts
<1>2. CASE Transition(c)
  BY <1>1, <1>2, MovedSpends DEF Transition, Publish, Attention
<1>3. CASE Reconcile(c)
  BY <1>1, <1>3 DEF Reconcile, Publish, Settled, Record
<1>4. CASE TimeOutLateRound(c)
  BY <1>1, <1>4, MovedSpends DEF TimeOutLateRound, Publish, Attention
<1>5. CASE RearmCallbackTimeout(c)
  BY <1>1, <1>5 DEF RearmCallbackTimeout, Publish, Moved, Record
<1>6. CASE AdoptLateProcess(c)
  BY <1>1, <1>6 DEF AdoptLateProcess, Publish, Adopted, Waiting, Resumed, Settled,
     NextRevision, Record
<1>7. CASE ReopenRound(c)
  BY <1>1, <1>7 DEF ReopenRound, Publish, Waiting, Resumed, NextRevision, Record
<1> QED
  BY <1>2, <1>3, <1>4, <1>5, <1>6, <1>7 DEF StoreCall

\* _exhaust charges nothing.
LEMMA ExhaustAccounts ==
  ASSUME IInv, NEW c \in Coordinator, NEW reason, Exhaust(c, reason)
  PROVE  Accounts
<1>1. rec \in Record /\ charged' = charged
  BY DEF Exhaust, IInv, TypeOK
<1> QED
  BY <1>1, MovedSpends DEF Exhaust, Publish, Attention, Accounts

\* The budget calls charge what they return.
LEMMA BudgetAccounts ==
  ASSUME IInv, NEW c \in Coordinator, BudgetCall(c)
  PROVE  Accounts
<1>1. rec \in Record
  BY DEF IInv, TypeOK
<1>2. pc[c] \in Holding
  BY DEF BudgetCall, ConfigureBudget, ConsumeAttempt, ConsumeTokens, ConsumeModelRestart,
     BeginContinuation, Holding, SupervisorCall
<1>3. CASE GiveUp(c)
  BY <1>3 DEF GiveUp, Accounts
<1>4. CASE ConfigureBudget(c)
  <2> DEFINE d == now + TimeBudget
  <2>1. PICK limit \in Limits :
          GiveUp(c) \/ Save(c, [snap[c] EXCEPT !.limit = limit, !.deadline_at = d], Free)
    BY <1>4 DEF ConfigureBudget
  <2> HIDE DEF d
  <2>2. NextRevision([rec EXCEPT !.limit = limit, !.deadline_at = d]).used = rec.used
    BY <1>1 DEF NextRevision, Record
  <2> QED
    BY <1>2, <1>3, <2>1, <2>2, FreeAccounts
<1>5. CASE ConsumeAttempt(c) \/ ConsumeTokens(c) \/ ConsumeModelRestart(c)
  <2>1. PICK cost \in [Meter -> Nat] :
          \/ Exhaust(c, "retry-exhausted")
          \/ ~Spent(snap[c], cost) /\ Save(c, Charge(snap[c], cost), cost)
    BY <1>5, ConsumeIs, Zenon
  <2>2. NextRevision(Charge(rec, cost)).used = [m \in Meter |-> rec.used[m] + cost[m]]
    BY <1>1 DEF NextRevision, Charge, Record
  <2>3. snap[c] = rec =>
          NextRevision(Charge(snap[c], cost)).used = [m \in Meter |-> rec.used[m] + cost[m]]
    BY <2>2
  <2> QED
    BY <1>2, <2>1, <2>3, ExhaustAccounts, ChargeAccounts
<1>6. CASE BeginContinuation(c)
  <2> DEFINE d == now + TimeBudget
  <2>1. PICK cost : cost = Meters(1, 0, 0)
    OBVIOUS
  <2>2. \/ GiveUp(c) \/ Exhaust(c, "retry-exhausted")
        \/ Save(c, [Charge(snap[c], cost) EXCEPT !.deadline_at = d], cost)
    BY <1>6, <2>1 DEF BeginContinuation
  <2>3. cost \in [Meter -> Nat]
    BY <2>1, MetersType
  <2> HIDE DEF d
  <2>4. NextRevision([Charge(rec, cost) EXCEPT !.deadline_at = d]).used
          = [m \in Meter |-> rec.used[m] + cost[m]]
    BY <1>1 DEF NextRevision, Charge, Record
  <2>5. snap[c] = rec => NextRevision([Charge(snap[c], cost) EXCEPT !.deadline_at = d]).used
          = [m \in Meter |-> rec.used[m] + cost[m]]
    BY <2>4
  <2> QED
    BY <1>2, <1>3, <2>2, <2>3, <2>5, ExhaustAccounts, ChargeAccounts
<1> QED
  BY <1>4, <1>5, <1>6 DEF BudgetCall

\* The other calls on the record charge nothing.
LEMMA RecordAccounts ==
  ASSUME IInv, NEW c \in Coordinator, RecordCall(c)
  PROVE  Accounts
<1>1. rec \in Record
  BY DEF IInv, TypeOK
<1>2. CASE GiveUp(c)
  BY <1>2 DEF GiveUp, Accounts
<1>3. ASSUME NEW q, Save(c, q, Free), snap[c] = rec => NextRevision(q).used = rec.used
      PROVE  Accounts
  <2>1. pc[c] \in Holding \/ AcceptCallback(c)
    BY DEF RecordCall, BindResources, CheckBudget, RetireAuthorizedPendingEffect,
       RetireProvenAbsentResources, CompleteRoundAfterSupportedClose,
       RecoverReviewContinuation, Holding, SupervisorCall
  <2>2. pc[c] \in Holding
    BY <2>1 DEF AcceptCallback, Holding, SupervisorCall
  <2> QED
    BY <1>3, <2>2, FreeAccounts
<1>4. CASE BindResources(c)
  <2>1. PICK res : GiveUp(c) \/ Save(c, [snap[c] EXCEPT !.resources = res], Free)
    BY <1>4 DEF BindResources
  <2>2. NextRevision([rec EXCEPT !.resources = res]).used = rec.used
    BY <1>1 DEF NextRevision, Record
  <2> QED
    BY <1>2, <1>3, <2>1, <2>2
<1>5. CASE CheckBudget(c)
  BY <1>2, <1>5, ExhaustAccounts DEF CheckBudget
<1>6. CASE RetireAuthorizedPendingEffect(c)
  <2>1. PICK outcome :
          GiveUp(c) \/ Save(c, Retired(Settled(snap[c], outcome), "cancelled"), Free)
    BY <1>6 DEF RetireAuthorizedPendingEffect
  <2>2. NextRevision(Retired(Settled(rec, outcome), "cancelled")).used = rec.used
    BY <1>1 DEF NextRevision, Retired, Settled, Record
  <2>3. snap[c] = rec =>
          NextRevision(Retired(Settled(snap[c], outcome), "cancelled")).used = rec.used
    BY <2>2
  <2> QED
    BY <1>2, <1>3, <2>1, <2>3
<1>7. CASE RetireProvenAbsentResources(c) \/ CompleteRoundAfterSupportedClose(c)
  <2>1. GiveUp(c) \/ Save(c, Retired(snap[c], "complete"), Free)
    BY <1>7 DEF RetireProvenAbsentResources, CompleteRoundAfterSupportedClose
  <2>2. NextRevision(Retired(rec, "complete")).used = rec.used
    BY <1>1 DEF NextRevision, Retired, Record
  <2> QED
    BY <1>2, <1>3, <2>1, <2>2
<1>8. CASE RecoverReviewContinuation(c)
  <2>1. GiveUp(c) \/ Save(c, Resumed(snap[c], snap[c].resume_state), Free)
    BY <1>8 DEF RecoverReviewContinuation
  <2>2. NextRevision(Resumed(rec, rec.resume_state)).used = rec.used
    BY <1>1 DEF NextRevision, Resumed, Record
  <2> QED
    BY <1>2, <1>3, <2>1, <2>2
<1>9. CASE AcceptCallback(c)
  <2>1. rec' = rec \/ rec' = Attention(rec, "callback-timeout")
          \/ \E s \in AnswerState, answer \in Callback : rec' = AnsweredWith(rec, s, answer)
    BY <1>9 DEF AcceptCallback, Publish
  <2>2. rec'.used = rec.used
    BY <1>1, <2>1 DEF Attention, AnsweredWith, Moved, Record
  <2> QED
    BY <1>9, <2>2 DEF AcceptCallback, Accounts
<1> QED
  BY <1>4, <1>5, <1>6, <1>7, <1>8, <1>9 DEF RecordCall

\* The steps of an effect charge nothing.
LEMMA EffectAccounts ==
  ASSUME IInv, NEW c \in Coordinator, EffectStep(c)
  PROVE  Accounts
<1>1. rec \in Record
  BY DEF IInv, TypeOK
<1>2. charged' = charged
  BY DEF EffectStep, EffectRead, EffectBegin, EffectAct, EffectPersist, EffectPersistSave,
     EffectResolve, GiveUp
<1> SUFFICES rec'.used = rec.used
  BY <1>2 DEF Accounts
<1>3. CASE rec' = rec
  BY <1>3
<1>4. CASE rec' # rec
  <2>1. CASE EffectBegin(c)
    BY <1>1, <1>4, <2>1 DEF EffectBegin, Publish, GiveUp, Begun, Record
  <2>2. CASE EffectPersistSave(c)
    <3>1. PICK res : rec.revision = snap[c].revision
                       /\ rec' = NextRevision([snap[c] EXCEPT !.resources = res])
      BY <1>4, <2>2 DEF EffectPersistSave, Publish, GiveUp
    <3>2. snap[c] = rec
      BY <2>2, <3>1 DEF IInv, Fenced, EffectPersistSave, Holding
    <3> QED
      BY <1>1, <3>1, <3>2 DEF NextRevision, Record
  <2>3. CASE EffectResolve(c)
    BY <1>1, <1>4, <2>3 DEF EffectResolve, Publish, Settled, Record
  <2> QED
    BY <1>4, <2>1, <2>2, <2>3 DEF EffectStep, EffectRead, EffectAct, EffectPersist
<1> QED
  BY <1>3, <1>4

\* Every step accounts for what it charges.
LEMMA NextAccounts == IInv /\ [Next]_vars => Accounts
<1> SUFFICES ASSUME IInv, [Next]_vars PROVE Accounts
  OBVIOUS
<1>1. CASE UNCHANGED vars \/ Tick
  BY <1>1 DEF vars, Tick, Accounts
<1>2. ASSUME NEW c \in Coordinator, Read(c) \/ EnforceCallbackDeadline(c) \/ Crash(c)
      PROVE  Accounts
  BY <1>2 DEF Read, EnforceCallbackDeadline, Crash, GiveUp, Accounts
<1> QED
  BY <1>1, <1>2, StoreAccounts, BudgetAccounts, RecordAccounts, EffectAccounts, Zenon DEF Next

\* Every step keeps the invariant: the record is built on, and snapshots stay fenced.
LEMMA StepIInv == IInv /\ [Next]_vars => IInv'
<1> SUFFICES ASSUME IInv, [Next]_vars PROVE IInv'
  OBVIOUS
<1>1. Builds /\ CallsAdvance /\ now' \in Nat /\ now' > 0 /\ runs' \in Nat
  BY NextBuilds, NextKeeps, NowAndRuns
<1>5. NoChargeIsLost'
  BY NextAccounts, AccountsKeeps
<1>2. WellFormed(rec)'
  <2>1. WellFormed(rec)
    BY DEF IInv
  <2>2. CASE rec' = rec
    BY <2>1, <2>2 DEF WellFormed, Constructible, Explained, SettledAtEnd, UnspentUntilConfigured
  <2>3. CASE Successor(rec, rec')
    BY <2>3 DEF Successor
  <2> QED
    BY <1>1, <2>2, <2>3 DEF Builds
<1>3. TypeOK'
  <2>1. charged' \in [Meter -> Nat]
    BY <1>2, <1>5, Fields DEF WellFormed, NoChargeIsLost
  <2> QED
    BY <1>1, <1>2, <2>1 DEF TypeOK, CallsAdvance, Points, WellFormed
<1>4. ASSUME NEW c \in Coordinator
      PROVE  (Fenced(c) /\ ConsumesConfigured(c) /\ Chosen(c))'
  <2>1. Keeps(c) /\ Fenced(c) /\ ConsumesConfigured(c) /\ Chosen(c)
    BY <1>1 DEF CallsAdvance, IInv
  <2>2. Consuming \subseteq Holding /\ "begin" \notin Holding
    BY DEF Consuming, Holding, SupervisorCall
  <2>3. rec.revision \in Nat /\ rec'.revision \in Nat /\ snap[c].revision \in Nat
    BY <1>3, Fields DEF IInv, TypeOK
  <2>4. CASE pc'[c] = pc[c] /\ snap'[c] = snap[c] /\ doing'[c] = doing[c]
    <3>1. Fenced(c)'
      BY <1>1, <2>1, <2>3, <2>4 DEF Fenced, Builds, Successor
    <3> QED
      BY <2>1, <2>4, <3>1 DEF ConsumesConfigured, Chosen
  <2>5. CASE /\ rec' = rec /\ snap'[c] = rec /\ pc'[c] # "begin"
             /\ (pc'[c] \in Consuming => rec.deadline_at # 0)
    BY <2>3, <2>5 DEF Fenced, ConsumesConfigured, Chosen
  <2>6. CASE /\ pc'[c] \notin Holding
             /\ pc'[c] = "begin" => doing'[c] \in Effect
    BY <2>2, <2>6 DEF Fenced, ConsumesConfigured, Chosen
  <2> QED
    BY <2>1, <2>4, <2>5, <2>6 DEF Keeps
<1> QED
  BY <1>1, <1>2, <1>3, <1>4, <1>5 DEF IInv

\* Every reachable state satisfies the inductive invariant.
THEOREM Invariance == Spec => []IInv
<1> QED
  BY InitIInv, StepIInv, PTL DEF Spec

-----------------------------------------------------------------------------
\* Every variable keeps its type in every behaviour of the supervisor.
THEOREM TypeCorrect == Spec => []TypeOK
<1>1. IInv => TypeOK
  BY DEF IInv
<1> QED
  BY Invariance, <1>1, PTL

\* No interleaving of supervisor calls publishes a record that
\* OperationRecord.__post_init__ would refuse to read back.
THEOREM AlwaysConstructible == Spec => []RecordConstructible
<1>1. IInv => RecordConstructible
  BY DEF IInv, WellFormed, RecordConstructible
<1> QED
  BY Invariance, <1>1, PTL

\* A record that asks for attention always says why and knows what to resume.
THEOREM AlwaysExplained == Spec => []AttentionIsExplained
<1>1. IInv => AttentionIsExplained
  BY DEF IInv, WellFormed, AttentionIsExplained
<1> QED
  BY Invariance, <1>1, PTL

\* No operation ends while the outcome of its effect is unknown.
THEOREM AlwaysSettledAtEnd == Spec => []TerminalIsSettled
<1>1. IInv => TerminalIsSettled
  BY DEF IInv, WellFormed, TerminalIsSettled
<1> QED
  BY Invariance, <1>1, PTL

\* No stale snapshot reopens a finished operation; only the recovery of a late
\* start reopens the untouched round it had failed.
THEOREM FinalityHolds == Spec => TerminalIsFinal
<1>1. IInv /\ [Next]_vars
        => [rec.state \in TERMINAL =>
              \/ rec'.state = rec.state
              \/ Untouched(rec) /\ rec'.state = "awaiting-callback"]_vars
  BY NextBuilds DEF Builds, Successor, KeepsEnd
<1> QED
  BY Invariance, <1>1, PTL DEF Spec, TerminalIsFinal

\* No coordinator moves the operation past its pending effect.
THEOREM PendingBlocks == Spec => PendingBlocksProgress
<1>1. IInv /\ [Next]_vars
        => [rec.pending_effect # None /\ rec'.pending_effect = rec.pending_effect
              => rec'.state \in {rec.state, "attention-required"}]_vars
  BY NextBuilds DEF Builds, Successor
<1> QED
  BY Invariance, <1>1, PTL DEF Spec, PendingBlocksProgress

\* Whatever the interleaving, the counters of the record hold what the calls
\* that returned have charged, no more and no less.
THEOREM NoChargeLost == Spec => []NoChargeIsLost
<1>1. IInv => NoChargeIsLost
  BY DEF IInv
<1> QED
  BY Invariance, <1>1, PTL

\* No stale snapshot, retirement or late deadline check erases an answer.
THEOREM AnswerKept == Spec => AnswerIsKept
<1>1. IInv /\ [Next]_vars
        => [rec.accepted_callback # None
              => rec'.accepted_callback = rec.accepted_callback]_vars
  BY NextBuilds DEF Builds, Successor, KeepsAnswer
<1> QED
  BY Invariance, <1>1, PTL DEF Spec, AnswerIsKept

\* No call rewrites the limits of a configured budget.
THEOREM LimitsFixed == Spec => LimitsAreFixed
<1>1. IInv /\ [Next]_vars => [rec.deadline_at # 0 => rec'.limit = rec.limit]_vars
  BY NextBuilds DEF Builds, Successor
<1> QED
  BY Invariance, <1>1, PTL DEF Spec, LimitsAreFixed

\* Every write takes a new revision, so it fences every older snapshot.
THEOREM EveryWriteFencesHolds == Spec => EveryWriteFences
<1>1. IInv /\ [Next]_vars => [rec' # rec => rec'.revision > rec.revision]_vars
  BY NextBuilds DEF Builds, Successor
<1> QED
  BY Invariance, <1>1, PTL DEF Spec, EveryWriteFences

-----------------------------------------------------------------------------
(* What holds only while one coordinator drives the operation.  Two of     *)
(* them break it (SupervisorBlindRetry): the reservation does not tell     *)
(* whose it is.  The invariant adds what one coordinator knows: its        *)
(* snapshot is the record, and it runs an action under its own reservation *)
(* or under none, when the effect was already recorded as failed.          *)

\* The operation has one coordinator.
OneCoordinator == \A c, d \in Coordinator : c = d

\* The points of an effect whose action has run.
Performed == {"persist", "persist-save", "resolve"}

\* What the coordinator may rely on at each point of a call.
Knows(c) ==
  /\ pc[c] \in Holding => snap[c] = rec
  /\ pc[c] = "begin" => /\ rec.pending_effect = None
                        /\ ~(rec.effect_id = doing[c] /\ rec.effect_outcome = "succeeded")
  /\ pc[c] = "act" => \/ rec.pending_effect = None
                      \/ doing[c] \in Resumable /\ rec.pending_effect = doing[c]
                      \/ runs = 0
  /\ pc[c] \in Performed => runs > 0

\* The inductive invariant of a single coordinator.
AloneInv ==
  /\ IInv
  /\ NoBlindRetry /\ SucceededMeansPerformed
  /\ \A c \in Coordinator : Knows(c)

\* The record says of its effect what it said before.
SameEffect ==
  /\ rec'.pending_effect = rec.pending_effect /\ rec'.effect_id = rec.effect_id
  /\ rec'.effect_outcome = rec.effect_outcome

\* Moves of the state leave the effect alone.
LEMMA MovedIs ==
  ASSUME IInv, NEW s, NEW reason, rec' = Moved(rec, s, reason)
  PROVE  SameEffect
<1>1. rec \in Record
  BY DEF IInv, TypeOK
<1> QED
  BY <1>1 DEF Moved, SameEffect, Record

\* _exhaust leaves the effect alone.
LEMMA ExhaustIs ==
  ASSUME IInv, NEW c \in Coordinator, NEW reason, Exhaust(c, reason)
  PROVE  SameEffect
<1>1. rec' = rec \/ rec' = Moved(rec, "attention-required", reason)
  BY DEF Exhaust, Publish, Attention
<1> QED
  BY <1>1, MovedIs DEF SameEffect

\* Every store call but the settling of an effect leaves the effect alone.
LEMMA StoreIs ==
  ASSUME IInv, NEW c \in Coordinator,
         \/ Transition(c) \/ TimeOutLateRound(c) \/ RearmCallbackTimeout(c) \/ ReopenRound(c)
  PROVE  SameEffect
<1>1. rec \in Record
  BY DEF IInv, TypeOK
<1>2. CASE Transition(c) \/ TimeOutLateRound(c)
  <2>1. PICK s, reason : rec' = Moved(rec, s, reason)
    BY <1>2 DEF Transition, TimeOutLateRound, Publish, Attention
  <2> QED
    BY <2>1, MovedIs
<1>3. CASE RearmCallbackTimeout(c)
  BY <1>1, <1>3 DEF RearmCallbackTimeout, Publish, Moved, SameEffect, Record
<1>4. CASE ReopenRound(c)
  BY <1>1, <1>4 DEF ReopenRound, Publish, Waiting, Resumed, NextRevision, SameEffect, Record
<1> QED
  BY <1>2, <1>3, <1>4

\* A reconciler and an adopted process settle the effect.
LEMMA SettlingIs ==
  ASSUME IInv, NEW c \in Coordinator, Reconcile(c) \/ AdoptLateProcess(c)
  PROVE  rec'.pending_effect = None /\ (rec'.effect_outcome = "succeeded" => runs > 0)
<1>1. rec \in Record
  BY DEF IInv, TypeOK
<1>2. CASE Reconcile(c)
  <2>1. PICK outcome \in Resolved :
          /\ rec.pending_effect # None /\ rec' = Settled(rec, outcome)
          /\ outcome = "succeeded" => runs > 0
    BY <1>2 DEF Reconcile, Publish
  <2> QED
    BY <1>1, <2>1 DEF Settled, Record
<1>3. CASE AdoptLateProcess(c)
  <2>1. PICK res \in Resource : rec' = Adopted(rec, res) /\ runs > 0
    BY <1>3 DEF AdoptLateProcess, Publish
  <2> QED
    BY <1>1, <2>1 DEF Adopted, Waiting, Resumed, Settled, NextRevision, Record
<1> QED
  BY <1>2, <1>3

\* A save of the rebuilt record either fails or takes its place.
LEMMA SaveIsQuiet ==
  ASSUME IInv, NEW c \in Coordinator, pc[c] \in Holding, NEW q, NEW cost, Save(c, q, cost),
         snap[c] = rec => /\ NextRevision(q).pending_effect = rec.pending_effect
                          /\ NextRevision(q).effect_id = rec.effect_id
                          /\ NextRevision(q).effect_outcome = rec.effect_outcome
  PROVE  SameEffect
<1>1. rec' = rec \/ (snap[c] = rec /\ rec' = NextRevision(q))
  BY SaveIs
<1> QED
  BY <1>1 DEF SameEffect

\* Bindings, budgets, continuations, answers and recoveries leave the effect alone.
LEMMA CallIsQuiet ==
  ASSUME IInv, NEW c \in Coordinator,
         \/ BudgetCall(c) \/ BindResources(c) \/ CheckBudget(c)
         \/ RecoverReviewContinuation(c) \/ AcceptCallback(c)
  PROVE  SameEffect
<1>1. rec \in Record
  BY DEF IInv, TypeOK
<1>2. CASE GiveUp(c)
  BY <1>2 DEF GiveUp, SameEffect
<1>3. pc[c] \in Holding
  <2>1. BudgetCall(c) => pc[c] \in Holding
    BY DEF BudgetCall, ConfigureBudget, ConsumeAttempt, ConsumeTokens, ConsumeModelRestart,
       BeginContinuation, Holding, SupervisorCall
  <2> QED
    BY <2>1 DEF BindResources, CheckBudget, RecoverReviewContinuation, AcceptCallback,
       Holding, SupervisorCall
<1>4. CASE ConfigureBudget(c)
  <2> DEFINE d == now + TimeBudget
  <2>1. PICK limit \in Limits :
          GiveUp(c) \/ Save(c, [snap[c] EXCEPT !.limit = limit, !.deadline_at = d], Free)
    BY <1>4 DEF ConfigureBudget
  <2> HIDE DEF d
  <2>2. PICK q : q = NextRevision([rec EXCEPT !.limit = limit, !.deadline_at = d])
    OBVIOUS
  <2>3. /\ q.pending_effect = rec.pending_effect /\ q.effect_id = rec.effect_id
        /\ q.effect_outcome = rec.effect_outcome
    BY <1>1, <2>2 DEF NextRevision, Record
  <2> QED
    BY <1>2, <1>3, <2>1, <2>2, <2>3, SaveIsQuiet
<1>5. CASE ConsumeAttempt(c) \/ ConsumeTokens(c) \/ ConsumeModelRestart(c)
  <2>1. PICK cost \in [Meter -> Nat] :
          \/ Exhaust(c, "retry-exhausted")
          \/ ~Spent(snap[c], cost) /\ Save(c, Charge(snap[c], cost), cost)
    BY <1>5, ConsumeIs, Zenon
  <2>2. PICK q : q = NextRevision(Charge(rec, cost))
    OBVIOUS
  <2>3. /\ q.pending_effect = rec.pending_effect /\ q.effect_id = rec.effect_id
        /\ q.effect_outcome = rec.effect_outcome
    BY <1>1, <2>2 DEF NextRevision, Charge, Record
  <2> QED
    BY <1>3, <2>1, <2>2, <2>3, ExhaustIs, SaveIsQuiet
<1>6. CASE BeginContinuation(c)
  <2> DEFINE d == now + TimeBudget
  <2>1. PICK cost : cost = Meters(1, 0, 0)
    OBVIOUS
  <2>2. \/ GiveUp(c) \/ Exhaust(c, "retry-exhausted")
        \/ Save(c, [Charge(snap[c], cost) EXCEPT !.deadline_at = d], cost)
    BY <1>6, <2>1 DEF BeginContinuation
  <2> HIDE DEF d
  <2>3. PICK q : q = NextRevision([Charge(rec, cost) EXCEPT !.deadline_at = d])
    OBVIOUS
  <2>4. /\ q.pending_effect = rec.pending_effect /\ q.effect_id = rec.effect_id
        /\ q.effect_outcome = rec.effect_outcome
    BY <1>1, <2>3 DEF NextRevision, Charge, Record
  <2> QED
    BY <1>2, <1>3, <2>2, <2>3, <2>4, ExhaustIs, SaveIsQuiet
<1>7. CASE BindResources(c)
  <2>1. PICK res : GiveUp(c) \/ Save(c, [snap[c] EXCEPT !.resources = res], Free)
    BY <1>7 DEF BindResources
  <2>2. PICK q : q = NextRevision([rec EXCEPT !.resources = res])
    OBVIOUS
  <2>3. /\ q.pending_effect = rec.pending_effect /\ q.effect_id = rec.effect_id
        /\ q.effect_outcome = rec.effect_outcome
    BY <1>1, <2>2 DEF NextRevision, Record
  <2> QED
    BY <1>2, <1>3, <2>1, <2>2, <2>3, SaveIsQuiet
<1>8. CASE CheckBudget(c)
  BY <1>2, <1>8, ExhaustIs DEF CheckBudget
<1>9. CASE RecoverReviewContinuation(c)
  <2>1. GiveUp(c) \/ Save(c, Resumed(snap[c], snap[c].resume_state), Free)
    BY <1>9 DEF RecoverReviewContinuation
  <2>2. PICK q : q = NextRevision(Resumed(rec, rec.resume_state))
    OBVIOUS
  <2>3. /\ q.pending_effect = rec.pending_effect /\ q.effect_id = rec.effect_id
        /\ q.effect_outcome = rec.effect_outcome
    BY <1>1, <2>2 DEF NextRevision, Resumed, Record
  <2> QED
    BY <1>2, <1>3, <2>1, <2>2, <2>3, SaveIsQuiet
<1>10. CASE AcceptCallback(c)
  <2>1. \/ rec' = rec
        \/ rec' = Attention(rec, "callback-timeout")
        \/ \E s \in AnswerState, answer \in Callback : rec' = AnsweredWith(rec, s, answer)
    BY <1>10 DEF AcceptCallback, Publish
  <2> QED
    BY <1>1, <2>1 DEF Attention, AnsweredWith, Moved, SameEffect, Record
<1> QED
  BY <1>4, <1>5, <1>6, <1>7, <1>8, <1>9, <1>10 DEF BudgetCall

\* A retirement, or a closed round, ends the record without an effect in flight.
LEMMA RetirementIs ==
  ASSUME IInv, NEW c \in Coordinator,
         \/ RetireAuthorizedPendingEffect(c) \/ RetireProvenAbsentResources(c)
         \/ CompleteRoundAfterSupportedClose(c)
  PROVE  rec' = rec \/ (rec'.state \in TERMINAL /\ rec'.pending_effect = None)
<1>1. rec \in Record /\ pc[c] \in Holding
  BY DEF IInv, TypeOK, RetireAuthorizedPendingEffect, RetireProvenAbsentResources,
         CompleteRoundAfterSupportedClose, Holding, SupervisorCall
<1>2. CASE RetireAuthorizedPendingEffect(c)
  <2>1. PICK outcome \in Resolved :
          \/ rec' = rec
          \/ /\ snap[c].pending_effect # None
             /\ Save(c, Retired(Settled(snap[c], outcome), "cancelled"), Free)
    BY <1>2 DEF RetireAuthorizedPendingEffect, Retirable, GiveUp
  <2> DEFINE t == [rec EXCEPT !.pending_effect = None, !.effect_outcome = outcome,
                              !.revision = @ + 1]
  <2>2. rec' = rec \/ (rec.pending_effect # None
                        /\ rec' = NextRevision(Retired(Settled(rec, outcome), "cancelled")))
    BY <1>1, <2>1, SaveIs
  <2>3. rec' = rec \/ rec' = NextRevision(Retired(t, "cancelled"))
    BY <2>2 DEF Settled
  <2> QED
    BY <1>1, <2>3 DEF NextRevision, Retired, Record, TERMINAL
<1>3. CASE RetireProvenAbsentResources(c) \/ CompleteRoundAfterSupportedClose(c)
  <2>1. rec' = rec \/ (snap[c].pending_effect = None /\ Save(c, Retired(snap[c], "complete"), Free))
    BY <1>3 DEF RetireProvenAbsentResources, CompleteRoundAfterSupportedClose, GiveUp
  <2>2. \/ rec' = rec
        \/ rec.pending_effect = None /\ rec' = NextRevision(Retired(rec, "complete"))
    BY <1>1, <2>1, SaveIs
  <2> QED
    BY <1>1, <2>2 DEF NextRevision, Retired, Record, TERMINAL
<1> QED
  BY <1>2, <1>3

\* Binding what the action returned leaves the effect alone.
LEMMA PersistIs ==
  ASSUME IInv, NEW c \in Coordinator, EffectPersistSave(c)
  PROVE  SameEffect /\ UNCHANGED runs /\ (Return(c) \/ pc' = [pc EXCEPT ![c] = "resolve"])
<1>1. rec \in Record /\ pc[c] \in Holding
  BY DEF IInv, TypeOK, EffectPersistSave, Holding
<1>2. PICK res \in Resource :
        \/ rec' = rec
        \/ /\ rec.revision = snap[c].revision
           /\ rec' = NextRevision([snap[c] EXCEPT !.resources = res])
  BY DEF EffectPersistSave, GiveUp, Publish
<1>3. rec' = rec \/ rec' = NextRevision([rec EXCEPT !.resources = res])
  BY <1>1, <1>2 DEF IInv, Fenced
<1>4. UNCHANGED runs /\ (Return(c) \/ pc' = [pc EXCEPT ![c] = "resolve"])
  BY DEF EffectPersistSave, GiveUp, Return
<1> QED
  BY <1>1, <1>3, <1>4 DEF NextRevision, Record, SameEffect

\* An idle coordinator has nothing to rely on.
LEMMA IdleKnows ==
  ASSUME NEW c \in Coordinator, pc'[c] = "idle"
  PROVE  Knows(c)'
  BY DEF Knows, Holding, SupervisorCall, Performed

\* A call that returned leaves an idle coordinator.
LEMMA ReturnKnows ==
  ASSUME IInv, NEW c \in Coordinator, Return(c)
  PROVE  Knows(c)' /\ UNCHANGED runs
<1>1. pc'[c] = "idle" /\ UNCHANGED runs
  BY DEF IInv, TypeOK, Return
<1> QED
  BY <1>1, IdleKnows

\* A step that leaves the effect alone preserves what is said of it; the round
\* that is reopened never had one.
LEMMA EffectStays ==
  ASSUME IInv, AloneInv, Next, SameEffect, UNCHANGED runs
  PROVE  NoBlindRetry' /\ SucceededMeansPerformed'
<1>1. rec.state \in TERMINAL =>
        rec'.state \in TERMINAL \/ rec.effect_outcome = "none"
  BY NextBuilds DEF Builds, Successor, KeepsEnd, Untouched
<1> QED
  BY <1>1 DEF AloneInv, SameEffect, NoBlindRetry, SucceededMeansPerformed

\* The one coordinator makes or finishes a call on the record.
LEMMA AloneCalls ==
  ASSUME AloneInv, Next, NEW c \in Coordinator,
         StoreCall(c) \/ BudgetCall(c) \/ RecordCall(c) \/ Crash(c)
  PROVE  NoBlindRetry' /\ SucceededMeansPerformed' /\ Knows(c)'
<1>1. IInv
  BY DEF AloneInv
<1>2. SameEffect /\ UNCHANGED runs => NoBlindRetry' /\ SucceededMeansPerformed'
  BY <1>1, EffectStays
<1>3. Knows(c)' /\ UNCHANGED runs
  <2>1. CASE StoreCall(c)
    BY <2>1, StoreIsLocked, IdleKnows DEF Locked
  <2>2. CASE BudgetCall(c) \/ RecordCall(c)
    BY <1>1, <2>2, CallReturns, ReturnKnows
  <2>3. CASE Crash(c)
    BY <1>1, <2>3, ReturnKnows DEF Crash, GiveUp
  <2> QED
    BY <2>1, <2>2, <2>3
<1>4. CASE SameEffect
  BY <1>2, <1>3, <1>4
<1>5. CASE rec'.pending_effect = None /\ (rec'.effect_outcome = "succeeded" => runs > 0)
  BY <1>3, <1>5 DEF NoBlindRetry, SucceededMeansPerformed
<1>6. CASE rec'.state \in TERMINAL /\ rec'.pending_effect = None
  BY <1>3, <1>6 DEF NoBlindRetry, SucceededMeansPerformed
<1>7. CASE StoreCall(c)
  BY <1>1, <1>4, <1>5, <1>7, StoreIs, SettlingIs DEF StoreCall
<1>8. CASE BudgetCall(c)
  BY <1>1, <1>4, <1>8, CallIsQuiet
<1>9. CASE Crash(c)
  BY <1>4, <1>9 DEF Crash, GiveUp, SameEffect
<1>10. CASE RecordCall(c)
  <2>1. CASE rec' = rec
    BY <1>4, <2>1 DEF SameEffect
  <2> QED
    BY <1>1, <1>4, <1>6, <1>10, <2>1, CallIsQuiet, RetirementIs DEF RecordCall
<1> QED
  BY <1>7, <1>8, <1>9, <1>10

\* The one coordinator reads the record, or takes a step of its effect.
LEMMA AloneEffects ==
  ASSUME AloneInv, Next, NEW c \in Coordinator,
         Read(c) \/ EnforceCallbackDeadline(c) \/ EffectStep(c)
  PROVE  NoBlindRetry' /\ SucceededMeansPerformed' /\ Knows(c)'
<1>1. IInv /\ Knows(c) /\ rec \in Record /\ runs \in Nat
      /\ pc \in [Coordinator -> Points] /\ snap \in [Coordinator -> Record]
      /\ doing \in [Coordinator -> Effect \cup {None}]
  BY DEF AloneInv, IInv, TypeOK, Points
<1>2. NoBlindRetry /\ SucceededMeansPerformed
  BY DEF AloneInv
<1>3. SameEffect /\ UNCHANGED runs => NoBlindRetry' /\ SucceededMeansPerformed'
  BY <1>1, EffectStays
<1>4. None \notin Effect
  BY IdentityAssumption
<1>5. CASE Read(c)
  <2>1. rec' = rec /\ snap'[c] = rec /\ pc'[c] \in Calls /\ UNCHANGED runs
    BY <1>1, <1>5 DEF Read
  <2>2. pc'[c] \notin {"begin", "act"} \cup Performed
    BY <2>1, SupervisorAssumption DEF SupervisorCall, Performed
  <2> QED
    BY <1>3, <2>1, <2>2 DEF Knows, SameEffect
<1>6. CASE EnforceCallbackDeadline(c)
  <2>1. CASE GiveUp(c)
    BY <1>1, <1>3, <2>1, ReturnKnows DEF GiveUp, SameEffect
  <2>2. CASE ~GiveUp(c)
    <3>1. rec' = rec /\ snap'[c] = rec /\ pc'[c] = "check_budget" /\ UNCHANGED runs
      BY <1>1, <1>6, <2>2 DEF EnforceCallbackDeadline
    <3> QED
      BY <1>3, <3>1 DEF Knows, SameEffect, Performed
  <2> QED
    BY <2>1, <2>2
<1>7. CASE EffectRead(c)
  <2>1. PICK e \in Effect :
          /\ IF rec.pending_effect # None
             THEN rec.pending_effect = e /\ e \in Resumable /\ pc'[c] = "act"
             ELSE ~(rec.effect_id = e /\ rec.effect_outcome = "succeeded") /\ pc'[c] = "begin"
          /\ doing'[c] = e /\ rec' = rec /\ UNCHANGED runs
    BY <1>1, <1>7 DEF EffectRead
  <2> QED
    BY <1>3, <2>1 DEF Knows, Holding, SupervisorCall, Performed, SameEffect
<1>8. CASE EffectBegin(c)
  <2>1. CASE ~MayBegin(rec, doing[c])
    BY <1>1, <1>3, <1>8, <2>1, ReturnKnows DEF EffectBegin, GiveUp, SameEffect
  <2>2. CASE MayBegin(rec, doing[c])
    <3>1. doing[c] \in Effect /\ rec.pending_effect = None
      BY <1>1, <1>8 DEF EffectBegin, IInv, Chosen, Knows
    <3>2. /\ rec' = Begun(rec, doing[c]) /\ runs' = (IF rec' = rec THEN runs ELSE 0)
          /\ pc'[c] = "act" /\ doing'[c] = doing[c]
      BY <1>1, <1>8, <2>2 DEF EffectBegin, Publish
    <3>3. CASE rec' = rec
      BY <1>3, <3>1, <3>2, <3>3 DEF SameEffect, Knows, Holding, SupervisorCall, Performed
    <3>4. CASE rec' # rec
      <4>1. rec' = WithEffect(rec, doing[c], doing[c], "pending")
        BY <1>4, <3>1, <3>2, <3>4 DEF Begun, WithEffect
      <4>2. rec'.pending_effect = doing[c] /\ rec'.effect_outcome = "pending"
        BY <1>1, <4>1 DEF WithEffect, Record
      <4>3. NoBlindRetry' /\ SucceededMeansPerformed'
        BY <3>2, <3>4, <4>2 DEF NoBlindRetry, SucceededMeansPerformed
      <4> QED
        BY <3>2, <3>4, <4>3 DEF Knows, Holding, SupervisorCall, Performed
    <3> QED
      BY <3>3, <3>4
  <2> QED
    BY <2>1, <2>2
<1>9. CASE EffectAct(c)
  <2>1. rec' = rec /\ runs' = runs + 1 /\ pc'[c] \in {"persist", "resolve"} /\ pc[c] = "act"
    BY <1>1, <1>9 DEF EffectAct
  <2>2. runs' > 0 /\ (rec.pending_effect \in Resumable \cup {None} \/ runs' <= 1)
    BY <1>1, <2>1 DEF Knows
  <2>3. NoBlindRetry' /\ SucceededMeansPerformed'
    BY <2>1, <2>2 DEF NoBlindRetry, SucceededMeansPerformed
  <2> QED
    BY <2>1, <2>2, <2>3 DEF Knows, Holding, SupervisorCall, Performed
<1>10. CASE EffectPersist(c)
  <2>1. rec' = rec /\ snap'[c] = rec /\ pc'[c] = "persist-save" /\ UNCHANGED runs /\ runs > 0
    BY <1>1, <1>10 DEF EffectPersist, Knows, Performed
  <2> QED
    BY <1>3, <2>1 DEF Knows, SameEffect
<1>11. CASE EffectPersistSave(c)
  <2>1. SameEffect /\ UNCHANGED runs /\ (Return(c) \/ pc' = [pc EXCEPT ![c] = "resolve"])
    BY <1>1, <1>11, PersistIs
  <2>2. CASE Return(c)
    BY <1>1, <1>3, <2>1, <2>2, ReturnKnows
  <2>3. CASE pc' = [pc EXCEPT ![c] = "resolve"]
    <3>1. pc'[c] = "resolve" /\ runs' > 0
      BY <1>1, <1>11, <2>1, <2>3 DEF EffectPersistSave, Knows, Performed
    <3> QED
      BY <1>3, <2>1, <3>1 DEF Knows, Holding, SupervisorCall
  <2> QED
    BY <2>1, <2>2, <2>3
<1>12. CASE EffectResolve(c)
  <2>1. Return(c) /\ runs > 0 /\ (rec' = rec \/ rec' = Settled(rec, "succeeded"))
    BY <1>1, <1>12 DEF EffectResolve, Publish, Knows, Performed
  <2>2. Knows(c)' /\ UNCHANGED runs
    BY <1>1, <2>1, ReturnKnows
  <2>3. CASE rec' = rec
    BY <1>3, <2>2, <2>3 DEF SameEffect
  <2>4. CASE rec' # rec
    <3>1. rec'.pending_effect = None /\ rec'.effect_outcome = "succeeded"
      BY <1>1, <2>1, <2>4 DEF Settled, Record
    <3> QED
      BY <2>1, <2>2, <3>1 DEF NoBlindRetry, SucceededMeansPerformed
  <2> QED
    BY <2>3, <2>4
<1> QED
  BY <1>5, <1>6, <1>7, <1>8, <1>9, <1>10, <1>11, <1>12 DEF EffectStep

\* Every step keeps the invariant while there is one coordinator.
LEMMA AloneStep ==
  ASSUME OneCoordinator
  PROVE  IInv /\ AloneInv /\ [Next]_vars => AloneInv'
<1> SUFFICES ASSUME IInv, AloneInv, [Next]_vars PROVE AloneInv'
  OBVIOUS
<1>1. IInv'
  BY StepIInv
<1>2. CASE UNCHANGED vars
  BY <1>1, <1>2 DEF AloneInv, vars, NoBlindRetry, SucceededMeansPerformed, Knows
<1>3. CASE Tick
  BY <1>1, <1>3 DEF AloneInv, Tick, NoBlindRetry, SucceededMeansPerformed, Knows
<1>4. ASSUME Next, NEW c \in Coordinator,
             \/ StoreCall(c) \/ Read(c) \/ EnforceCallbackDeadline(c)
             \/ BudgetCall(c) \/ RecordCall(c) \/ EffectStep(c) \/ Crash(c)
      PROVE  AloneInv'
  <2>1. \A d \in Coordinator : d = c
    BY OneCoordinator DEF OneCoordinator
  <2>2. NoBlindRetry' /\ SucceededMeansPerformed' /\ Knows(c)'
    BY <1>4, AloneCalls, AloneEffects
  <2> QED
    BY <1>1, <2>1, <2>2 DEF AloneInv
<1> QED
  BY <1>2, <1>3, <1>4, Zenon DEF Next

\* What one coordinator knows holds in every reachable state.
THEOREM AloneInvariance ==
  ASSUME OneCoordinator
  PROVE  Spec => []AloneInv
<1>1. Init => AloneInv
  <2> SUFFICES ASSUME Init PROVE AloneInv
    OBVIOUS
  <2>1. IInv
    BY InitIInv
  <2>2. /\ rec.pending_effect = None /\ rec.effect_outcome = "none"
        /\ \A c \in Coordinator : pc[c] = "idle"
    BY DEF Init, NewRecord
  <2> QED
    BY <2>1, <2>2 DEF AloneInv, NoBlindRetry, SucceededMeansPerformed, Knows, Holding,
       SupervisorCall, Performed
<1>2. IInv /\ AloneInv /\ [Next]_vars => AloneInv'
  BY OneCoordinator, AloneStep
<1> QED
  BY <1>1, <1>2, Invariance, PTL DEF Spec

\* One coordinator never runs the action of an effect again while its own
\* reservation is unresolved, whatever it crashes between.
THEOREM RunOnce ==
  ASSUME OneCoordinator
  PROVE  Spec => []NoBlindRetry
<1>1. AloneInv => NoBlindRetry
  BY DEF AloneInv
<1> QED
  BY OneCoordinator, AloneInvariance, <1>1, PTL

\* With one coordinator an effect of a live operation is recorded as
\* succeeded only after its action ran.
THEOREM SuccessIsPerformed ==
  ASSUME OneCoordinator
  PROVE  Spec => []SucceededMeansPerformed
<1>1. AloneInv => SucceededMeansPerformed
  BY DEF AloneInv
<1> QED
  BY OneCoordinator, AloneInvariance, <1>1, PTL
=============================================================================
