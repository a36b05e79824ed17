-------------------------- MODULE ReviewRoundProofs --------------------------
(***************************************************************************)
(* The round of one reviewer lane keeps its promises for every set of      *)
(* answers, every time budget and any number of crashes.                   *)
(***************************************************************************)
EXTENDS ReviewRound, OperationRecordProofs

-----------------------------------------------------------------------------
(* What the writes of the round return.                                    *)

\* All but the state, its attention fields and the revision stays.
Keeps(r, t) ==
  /\ t.pending_effect = r.pending_effect /\ t.effect_id = r.effect_id
  /\ t.effect_outcome = r.effect_outcome
  /\ t.resources = r.resources /\ t.accepted_callback = r.accepted_callback
  /\ t.deadline_at = r.deadline_at

\* The absent reason and the absent answer are none of the present ones.
LEMMA NoneIsOther ==
  /\ None \notin AttentionReason /\ None \notin Callback /\ None \notin Effect
  /\ None \notin Resource
<1>1. None \notin AttentionReason
  BY Zenon DEF None, AttentionReason
<1> QED
  BY <1>1, Zenon, IdentityAssumption

\* A record without its revision is as well formed as with it.
LEMMA PlainKeeps ==
  ASSUME NEW r, WellFormed(r), NEW t, t = Plain(r)
  PROVE  /\ WellFormed(t) /\ Keeps(r, t)
         /\ t.state = r.state /\ t.attention_reason = r.attention_reason
         /\ t.resume_state = r.resume_state /\ t.used = r.used /\ t.limit = r.limit
<1>1. r \in Record
  BY DEF WellFormed
<1>2. /\ t \in Record
      /\ t.state = r.state /\ t.attention_reason = r.attention_reason
      /\ t.resume_state = r.resume_state /\ t.used = r.used /\ t.limit = r.limit
      /\ Keeps(r, t)
  <2>1. t = [r EXCEPT !.revision = 0]
    BY DEF Plain
  <2>2. 0 \in Nat
    OBVIOUS
  <2> QED
    BY <1>1, <2>1, <2>2 DEF Record, Keeps
<1>3. WellFormed(t)
  BY <1>2 DEF WellFormed, Constructible, Explained, SettledAtEnd, UnspentUntilConfigured, Keeps
<1> QED
  BY <1>2, <1>3

\* A legal move sets the state and, when it is another one, the reason.
LEMMA GoKeeps ==
  ASSUME NEW r, WellFormed(r), NEW s \in States, MayMove(r, s),
         NEW reason \in AttentionReason \cup {None},
         (s = "attention-required") <=> (reason # None),
         NEW t, t = Go(r, s, reason)
  PROVE  /\ WellFormed(t) /\ Keeps(r, t) /\ t.state = s
         /\ t.attention_reason = IF r.state = s THEN r.attention_reason ELSE reason
<1> DEFINE q == Moved(r, s, reason)
<1>1. WellFormed(q)
  BY MovedBuilds DEF Successor
<1>2. r \in Record
  BY DEF WellFormed
<1>3. Keeps(r, q) /\ q.state = s
      /\ q.attention_reason = IF r.state = s THEN r.attention_reason ELSE reason
  BY <1>2 DEF Moved, Keeps, Record
<1>4. t = Plain(q)
  BY DEF Go
<1> HIDE DEF q
<1>5. /\ WellFormed(t) /\ Keeps(q, t)
      /\ t.state = q.state /\ t.attention_reason = q.attention_reason
  BY <1>1, <1>4, PlainKeeps
<1> QED
  BY <1>3, <1>5 DEF Keeps

\* Asking for attention works on every live record and on no other.
LEMMA RaisedKeeps ==
  ASSUME NEW r, WellFormed(r), NEW reason \in AttentionReason,
         NEW t, t = Raised(r, reason)
  PROVE  /\ WellFormed(t) /\ Keeps(r, t)
         /\ t.state = IF r.state \in TERMINAL THEN r.state ELSE "attention-required"
         /\ t.attention_reason =
              IF r.state \in TERMINAL \cup {"attention-required"} THEN r.attention_reason ELSE reason
<1>1. r.state \in States
  BY DEF WellFormed, Record
<1>2. MayMove(r, "attention-required") <=> r.state \notin TERMINAL
  BY <1>1, Zenon DEF MayMove, TRANSITIONS, States, TERMINAL
<1>3. CASE r.state \in TERMINAL
  BY <1>2, <1>3 DEF Raised, Keeps
<1>4. CASE r.state \notin TERMINAL
  <2>1. t = Go(r, "attention-required", reason)
    BY <1>2, <1>4 DEF Raised
  <2>2. "attention-required" \in States /\ reason # None
    BY NoneIsOther DEF States
  <2>3. /\ WellFormed(t) /\ Keeps(r, t) /\ t.state = "attention-required"
        /\ t.attention_reason = IF r.state = "attention-required" THEN r.attention_reason ELSE reason
    BY <1>2, <1>4, <2>1, <2>2, GoKeeps
  <2> QED
    BY <1>4, <2>3
<1> QED
  BY <1>3, <1>4

\* A reservation is written on a live record without one.
LEMMA BegunKeeps ==
  ASSUME NEW r, WellFormed(r), r.state \notin TERMINAL, r.pending_effect = None,
         NEW e \in Effect, NEW t, t = Plain(Begun(r, e))
  PROVE  /\ WellFormed(t) /\ t.effect_id = e
         /\ t.state = r.state /\ t.attention_reason = r.attention_reason
         /\ t.resources = r.resources /\ t.accepted_callback = r.accepted_callback
         /\ t.deadline_at = r.deadline_at
<1> DEFINE q == Begun(r, e)
<1>1. MayBegin(r, e)
  BY DEF MayBegin
<1>2. WellFormed(q)
  BY <1>1, BegunBuilds DEF Successor
<1>3. r \in Record /\ e # None
  BY NoneIsOther DEF WellFormed
<1>4. /\ q.effect_id = e
      /\ q.state = r.state /\ q.attention_reason = r.attention_reason
      /\ q.resources = r.resources /\ q.accepted_callback = r.accepted_callback
      /\ q.deadline_at = r.deadline_at
  BY <1>3 DEF Begun, Record
<1> HIDE DEF q
<1> QED
  BY <1>2, <1>4, PlainKeeps DEF Keeps, q

\* A settled record has no reservation left.
LEMMA SettledKeeps ==
  ASSUME NEW r, WellFormed(r), NEW t, t = Plain(Settled(r, "succeeded"))
  PROVE  /\ WellFormed(t) /\ t.effect_id = r.effect_id /\ t.pending_effect = None
         /\ t.state = r.state /\ t.attention_reason = r.attention_reason
         /\ t.resources = r.resources /\ t.accepted_callback = r.accepted_callback
         /\ t.deadline_at = r.deadline_at
<1> DEFINE q == Settled(r, "succeeded")
<1>1. "succeeded" \in Resolved
  BY DEF Resolved
<1>2. WellFormed(q)
  BY <1>1, SettledBuilds DEF Successor
<1>3. r \in Record
  BY DEF WellFormed
<1>4. /\ q.effect_id = r.effect_id /\ q.pending_effect = None
      /\ q.state = r.state /\ q.attention_reason = r.attention_reason
      /\ q.resources = r.resources /\ q.accepted_callback = r.accepted_callback
      /\ q.deadline_at = r.deadline_at
  BY <1>3 DEF Settled, Record
<1> HIDE DEF q
<1> QED
  BY <1>2, <1>4, PlainKeeps DEF Keeps, q

\* A re-armed record waits again, until later.
LEMMA RearmedKeeps ==
  ASSUME WellFormed(parent), Rearmable, now \in Nat, NEW t, t = Rearmed(parent)
  PROVE  /\ WellFormed(t) /\ t.state = "awaiting-callback" /\ t.attention_reason = None
         /\ t.deadline_at = now + TimeBudget
         /\ t.pending_effect = parent.pending_effect /\ t.effect_id = parent.effect_id
         /\ t.resources = parent.resources /\ t.accepted_callback = parent.accepted_callback
<1> DEFINE q == Go(parent, "awaiting-callback", None)
           d == now + TimeBudget
<1>1. /\ MayMove(parent, "awaiting-callback") /\ parent.state = "attention-required"
      /\ "awaiting-callback" \in States
  BY DEF Rearmable, TimedOut, States
<1>2. /\ WellFormed(q) /\ Keeps(parent, q) /\ q.state = "awaiting-callback"
      /\ q.attention_reason = None
  BY <1>1, GoKeeps
<1>3. t = [q EXCEPT !.deadline_at = d]
  BY DEF Rearmed
<1>4. d \in Nat /\ d # 0
  BY RoundAssumption
<1>5. q \in Record
  BY <1>2 DEF WellFormed
<1> HIDE DEF q, d
<1>6. /\ t \in Record /\ t.deadline_at = d
      /\ t.state = q.state /\ t.attention_reason = q.attention_reason
      /\ t.resume_state = q.resume_state /\ t.used = q.used /\ t.limit = q.limit
      /\ t.pending_effect = q.pending_effect /\ t.effect_id = q.effect_id
      /\ t.effect_outcome = q.effect_outcome
      /\ t.resources = q.resources /\ t.accepted_callback = q.accepted_callback
  BY <1>3, <1>4, <1>5 DEF Record
<1>7. WellFormed(t)
  BY <1>2, <1>4, <1>6
  DEF WellFormed, Constructible, Explained, SettledAtEnd, UnspentUntilConfigured
<1> QED
  BY <1>2, <1>6, <1>7 DEF Keeps, d

\* The answered round has left its wait, with the answer.
LEMMA AnsweredKeeps ==
  ASSUME WellFormed(child), child.state = "awaiting-callback", child.pending_effect = None,
         NEW a \in Callback, NEW t, t = Answered(a)
  PROVE  /\ WellFormed(t) /\ t.accepted_callback = a /\ t.pending_effect = None
         /\ t.state \in {"finalizing", "verifying", "attention-required"}
<1> DEFINE reason == IF Says(a) = "blocked" THEN "attention-required" ELSE None
           q == Go(child, NextState(a), reason)
<1>1. Says(a) \in {"approve", "changes-requested", "blocked"}
  BY RoundAssumption
<1>2. /\ NextState(a) \in {"finalizing", "verifying", "attention-required"}
      /\ NextState(a) = "attention-required" <=> Says(a) = "blocked"
  BY <1>1 DEF NextState
<1>3. NextState(a) \in States /\ MayMove(child, NextState(a))
  BY <1>2 DEF States, MayMove, TRANSITIONS
<1>4. "attention-required" \in AttentionReason
  BY DEF AttentionReason
<1>5. /\ reason \in AttentionReason \cup {None}
      /\ (NextState(a) = "attention-required") <=> (reason # None)
  BY <1>2, <1>4, NoneIsOther
<1>6. t = [q EXCEPT !.accepted_callback = a]
  BY DEF Answered
<1>7. /\ WellFormed(q) /\ Keeps(child, q) /\ q.state = NextState(a)
  <2> HIDE DEF reason
  <2> QED
    BY <1>3, <1>5, GoKeeps
<1>8. q \in Record
  BY <1>7 DEF WellFormed
<1> HIDE DEF q, reason
<1>9. /\ t \in Record /\ t.accepted_callback = a
      /\ t.state = q.state /\ t.attention_reason = q.attention_reason
      /\ t.resume_state = q.resume_state /\ t.used = q.used /\ t.limit = q.limit
      /\ t.pending_effect = q.pending_effect /\ t.effect_id = q.effect_id
      /\ t.effect_outcome = q.effect_outcome /\ t.deadline_at = q.deadline_at
  BY <1>6, <1>8 DEF Record
<1>10. WellFormed(t)
  BY <1>7, <1>9
  DEF WellFormed, Constructible, Explained, SettledAtEnd, UnspentUntilConfigured
<1> QED
  BY <1>2, <1>7, <1>9, <1>10 DEF Keeps

\* Letting the resources go touches nothing else.
LEMMA ReleasedKeeps ==
  ASSUME NEW r, WellFormed(r), NEW t, t = [r EXCEPT !.resources = None]
  PROVE  /\ WellFormed(t) /\ t.resources = None
         /\ t.state = r.state /\ t.attention_reason = r.attention_reason
         /\ t.pending_effect = r.pending_effect /\ t.effect_id = r.effect_id
         /\ t.accepted_callback = r.accepted_callback /\ t.deadline_at = r.deadline_at
<1>1. r \in Record
  BY DEF WellFormed
<1>2. /\ t \in Record /\ t.resources = None
      /\ t.state = r.state /\ t.attention_reason = r.attention_reason
      /\ t.resume_state = r.resume_state /\ t.used = r.used /\ t.limit = r.limit
      /\ t.pending_effect = r.pending_effect /\ t.effect_id = r.effect_id
      /\ t.effect_outcome = r.effect_outcome
      /\ t.accepted_callback = r.accepted_callback /\ t.deadline_at = r.deadline_at
  BY <1>1 DEF Record
<1>3. WellFormed(t)
  BY <1>2 DEF WellFormed, Constructible, Explained, SettledAtEnd, UnspentUntilConfigured
<1> QED
  BY <1>2, <1>3

-----------------------------------------------------------------------------
(* The inductive invariant.                                                *)

\* The points of the driver's way through the shutdown.
Closing == {"close", "resolve-close", "release", "end"}
Exit == {"begin", "act", "resolve", "leave"}
Ending == {"ask", "move", "retry", "cleanup"} \cup Exit \cup Closing
Ingesting == {"accept", "finalizing", "exiting", "complete", "closed"}
DriverPC == {"idle", "finish", "settle"} \cup Ingesting \cup Ending

\* The points of the worker between a look at the file and the recorded result.
Taking == {"accept", "prepare", "rearm", "reaccept", "record"}
WorkerPC == {"poll", "read", "conclude", "invalid", "expire", "gone"} \cup Taking

Answer == Callback \cup {None}

WorkerState ==
  [pc: WorkerPC, seen: Answer, held: Answer, handled: BOOLEAN, draining: BOOLEAN, left: Nat]

DriverState ==
  [pc: DriverPC, held: Answer, to: {None, "finalizing", "cancelling"}, alive: BOOLEAN,
   tries: Nat, recovering: BOOLEAN]

TypeOK ==
  /\ WellFormed(parent) /\ WellFormed(child)
  /\ outbox \in Answer /\ marker \in Answer
  /\ provider \in {"alive", "asked", "dead"} /\ surface \in {"alive", "missing"}
  /\ stream \in [result: Answer, exited: BOOLEAN]
  /\ gate \in {"awaiting", "attention", "answered"}
  /\ worker \in WorkerState /\ drv \in DriverState
  /\ now \in Nat /\ crashes \in Nat

\* What a process holds when it is about to act on an answer is one.
HoldsAnswer ==
  /\ worker.pc = "read" => outbox # None
  /\ worker.pc \in Taking \cup {"conclude"} => worker.held # None
  /\ worker.pc \in {"rearm", "reaccept"} => marker # None
  /\ drv.pc = "accept" => drv.held # None

\* Once the result is recorded the worker is done with the file.
WorkerDone ==
  stream.result # None =>
    \/ worker.pc \in {"conclude", "invalid", "gone"}
    \/ worker.pc = "poll" /\ worker.handled

\* The shutdown, begun or over, has the recorded answer.
ExitHasResult ==
  (drv.pc \in Ending \/ parent.effect_id # "start-provider" \/ parent.state \in TERMINAL)
    => ResultReady

\* The states a session passes through, and where the driver finds it.
SessionPath ==
  /\ parent.state \in {"awaiting-callback", "attention-required", "finalizing",
                       "cancelling", "exiting", "complete"}
  /\ parent.state = "exiting" \/ drv.pc \in {"act", "resolve", "leave"}
       => parent.effect_id # "start-provider"
  /\ drv.pc \in Exit => parent.state \in {"finalizing", "cancelling", "attention-required"}
  /\ drv.pc = "move" =>
       /\ parent.state \in {"awaiting-callback", "cancelling", "attention-required"}
       /\ drv.to \in {"finalizing", "cancelling"}
  /\ drv.pc \in {"finalizing", "closed", "finish"} => child.accepted_callback # None
  /\ drv.pc = "cleanup" => parent.state \in {"exiting", "attention-required", "complete"}
  /\ drv.pc \in Closing => parent.state = "exiting" /\ OwnersGone

\* A session that has ended, or is about to, owns nothing.
Gone ==
  /\ drv.pc = "end" \/ parent.state = "complete"
       => surface = "missing" /\ parent.resources = None
  /\ parent.state = "complete" => OwnersGone

\* The states of a round, and where the driver finds it.
RoundPath ==
  /\ child.pending_effect = None
  /\ child.state \in {"awaiting-callback", "attention-required", "verifying",
                      "finalizing", "exiting", "complete"}
  /\ child.state = "awaiting-callback" <=> child.accepted_callback = None
  /\ drv.pc = "exiting" => child.state = "finalizing"
  /\ drv.pc = "complete" => child.state = "exiting"
  /\ ~drv.recovering /\ drv.pc \in {"closed", "finish", "settle"} \cup Ending
       => child.state = "complete"

\* An answered attempt's records have ended, with the result.
GateAnswered == gate = "answered" => parent.state = "complete" /\ child.state = "complete"

\* Until something crashes, a half-done step is the driver's present one.
NothingStranded ==
  crashes = 0 =>
    /\ parent.pending_effect # None => drv.pc \in {"act", "resolve", "close", "resolve-close"}
    /\ parent.state = "cancelling" => drv.pc \in Exit
    /\ child.state = "exiting" => drv.pc = "complete"
    /\ drv.pc = "move" =>
         \/ drv.to = "finalizing" /\ parent.state \in {"awaiting-callback", "attention-required"}
         \/ drv.to = "cancelling" /\ parent.state = "attention-required"

IInv ==
  /\ TypeOK /\ HoldsAnswer /\ WorkerDone /\ ExitHasResult
  /\ SessionPath /\ Gone /\ RoundPath /\ GateAnswered /\ NothingStranded

-----------------------------------------------------------------------------
(* Steps that leave both records alone.                                    *)

\* The reviewer publishes.
LEMMA PublishKeeps ==
  ASSUME IInv, NEW a \in Callback, Publish(a)
  PROVE  IInv'
<1>1. a \in Answer /\ a # None
  BY NoneIsOther DEF Answer
<1>2. TypeOK'
  BY <1>1 DEF IInv, TypeOK, Publish, records
<1>3. /\ HoldsAnswer' /\ WorkerDone' /\ ExitHasResult' /\ SessionPath'
      /\ Gone' /\ RoundPath' /\ GateAnswered' /\ NothingStranded'
  BY <1>1 DEF IInv, HoldsAnswer, WorkerDone, ExitHasResult, SessionPath, Gone, RoundPath,
    GateAnswered, NothingStranded, ResultReady, OwnersGone, Publish, records
<1> QED
  BY <1>2, <1>3 DEF IInv

\* The reviewer exits, and time passes.
LEMMA EnvironmentKeeps ==
  ASSUME IInv, ProviderExits \/ Tick
  PROVE  IInv'
<1>1. TypeOK'
  BY DEF IInv, TypeOK, ProviderExits, Tick, records, world, bounds
<1>2. /\ HoldsAnswer' /\ WorkerDone' /\ ExitHasResult' /\ SessionPath'
      /\ Gone' /\ RoundPath' /\ GateAnswered' /\ NothingStranded'
  BY DEF IInv, HoldsAnswer, WorkerDone, ExitHasResult, SessionPath, Gone, RoundPath,
    GateAnswered, NothingStranded, ResultReady, OwnersGone, ProviderExits, Tick, records,
    world, bounds
<1> QED
  BY <1>1, <1>2 DEF IInv

\* One of the two processes dies.
LEMMA CrashKeeps ==
  ASSUME IInv, Crash
  PROVE  IInv'
<1>1. /\ drv' \in DriverState /\ drv'.pc \in {drv.pc, "idle"}
      /\ drv'.held = drv.held /\ drv'.to = drv.to /\ drv'.recovering = drv.recovering
  BY DEF Crash, IInv, TypeOK, DriverState, DriverPC
<1>2. /\ worker' \in WorkerState /\ worker'.pc \in {worker.pc, "gone"}
      /\ worker'.held = worker.held /\ worker'.handled = worker.handled
  BY DEF Crash, IInv, TypeOK, WorkerState, WorkerPC
<1>3. crashes' \in Nat /\ crashes' # 0
  BY DEF Crash, IInv, TypeOK
<1>4. /\ UNCHANGED <<parent, child, outbox, provider, surface, stream, marker, gate, now>>
  BY DEF Crash, records, world
<1>5. TypeOK'
  BY <1>1, <1>2, <1>3, <1>4 DEF IInv, TypeOK
<1>6. /\ HoldsAnswer' /\ WorkerDone' /\ ExitHasResult' /\ SessionPath'
      /\ Gone' /\ RoundPath' /\ GateAnswered' /\ NothingStranded'
  BY <1>1, <1>2, <1>3, <1>4 DEF IInv, HoldsAnswer, WorkerDone, ExitHasResult, SessionPath, Gone, RoundPath,
    GateAnswered, NothingStranded, ResultReady, OwnersGone, Ending, Exit, Closing, Taking
<1> QED
  BY <1>5, <1>6 DEF IInv

\* Counting a look at the file changes nothing else.
LEMMA CountedKeeps ==
  ASSUME NEW w \in WorkerState, w.draining => w.left > 0, NEW t, t = Counted(w)
  PROVE  /\ t \in WorkerState
         /\ t.pc = w.pc /\ t.held = w.held /\ t.handled = w.handled
<1>1. CASE ~w.draining
  BY <1>1 DEF Counted
<1>2. CASE w.draining
  <2>1. w.left - 1 \in Nat
    BY <1>2 DEF WorkerState
  <2> DEFINE n == w.left - 1
  <2>2. t = [w EXCEPT !.left = n]
    BY <1>2 DEF Counted, WorkerState
  <2> HIDE DEF n
  <2> QED
    BY <2>1, <2>2 DEF WorkerState, n
<1> QED
  BY <1>1, <1>2

\* Worker steps that write no record.
LEMMA WorkerLooksKeeps ==
  ASSUME IInv,
         Observe \/ Stabilize \/ ReadAnswer \/ Prepare \/ Conclude \/ NoticeDeadline
           \/ Drain \/ Leave
  PROVE  IInv'
<1>1. UNCHANGED <<parent, child, outbox, provider, surface, stream, gate, drv, now, crashes>>
  BY DEF Observe, Stabilize, ReadAnswer, Prepare, Conclude, NoticeDeadline, Drain, Leave,
    WorkerKeeps, records, world, bounds
<1>2. /\ worker' \in WorkerState /\ marker' \in Answer
      /\ marker # None => marker' # None
      /\ worker'.pc = "read" => outbox # None
      /\ worker'.pc \in Taking \cup {"conclude"} => worker'.held # None
      /\ worker'.pc \in {"rearm", "reaccept"} => marker' # None
      /\ stream.result # None =>
           \/ worker'.pc \in {"conclude", "invalid", "gone"}
           \/ worker'.pc = "poll" /\ worker'.handled
      /\ worker.pc = "gone" => worker'.pc = "gone"
  <2>1. /\ worker \in WorkerState /\ marker \in Answer /\ outbox \in Answer
        /\ HoldsAnswer /\ WorkerDone
    BY DEF IInv, TypeOK
  <2>2. CASE Observe
    <3> DEFINE w == [worker EXCEPT !.seen = outbox]
    <3>1. /\ w \in WorkerState /\ w.pc = worker.pc /\ w.held = worker.held
          /\ w.handled = worker.handled /\ (w.draining => w.left > 0)
      BY <2>1, <2>2 DEF Observe, Inspecting, Watching, WorkerState
    <3>2. worker' = Counted(w)
      BY <2>2 DEF Observe
    <3> HIDE DEF w
    <3>3. /\ worker' \in WorkerState /\ worker'.pc = worker.pc /\ worker'.held = worker.held
          /\ worker'.handled = worker.handled
      BY <3>1, <3>2, CountedKeeps
    <3> QED
      BY <2>1, <2>2, <3>3 DEF Observe, Inspecting, Watching, HoldsAnswer, WorkerDone, Taking
  <2>3. CASE Stabilize
    <3> DEFINE w == [worker EXCEPT !.pc = "read"]
    <3>1. /\ w \in WorkerState /\ w.pc = "read" /\ w.held = worker.held
          /\ w.handled = worker.handled /\ (w.draining => w.left > 0)
      BY <2>1, <2>3 DEF Stabilize, Inspecting, Watching, WorkerState, WorkerPC
    <3>2. worker' = Counted(w)
      BY <2>3 DEF Stabilize
    <3> HIDE DEF w
    <3>3. /\ worker' \in WorkerState /\ worker'.pc = "read" /\ worker'.held = worker.held
          /\ worker'.handled = worker.handled
      BY <3>1, <3>2, CountedKeeps
    <3> QED
      BY <2>1, <2>3, <3>3 DEF Stabilize, Inspecting, Watching, HoldsAnswer, WorkerDone, Taking
  <2>4. CASE ReadAnswer
    BY <2>1, <2>4 DEF ReadAnswer, WorkerState, WorkerPC, HoldsAnswer, WorkerDone, Taking
  <2>5. CASE Prepare
    BY <2>1, <2>5 DEF Prepare, WorkerState, WorkerPC, HoldsAnswer, WorkerDone, Taking
  <2>6. CASE Conclude
    BY <2>1, <2>6 DEF Conclude, WorkerState, WorkerPC, HoldsAnswer, WorkerDone, Taking
  <2>7. CASE NoticeDeadline
    BY <2>1, <2>7 DEF NoticeDeadline, Watching, WorkerState, WorkerPC, HoldsAnswer, WorkerDone,
      Taking
  <2>8. CASE Drain \/ Leave
    BY <2>1, <2>8 DEF Drain, Leave, WorkerState, WorkerPC, HoldsAnswer, WorkerDone, Taking
  <2> QED
    BY <2>2, <2>3, <2>4, <2>5, <2>6, <2>7, <2>8
<1>3. TypeOK'
  BY <1>1, <1>2 DEF IInv, TypeOK
<1>4. HoldsAnswer' /\ WorkerDone'
  BY <1>1, <1>2 DEF IInv, HoldsAnswer, WorkerDone
<1>5. /\ ExitHasResult' /\ SessionPath'
      /\ Gone' /\ RoundPath' /\ GateAnswered' /\ NothingStranded'
  BY <1>1, <1>2 DEF IInv, ExitHasResult, SessionPath, Gone, RoundPath,
    GateAnswered, NothingStranded, ResultReady, OwnersGone
<1> QED
  BY <1>3, <1>4, <1>5 DEF IInv

\* The worker records the result, which is the one it holds from then on.
LEMMA RecordResultKeeps ==
  ASSUME IInv, RecordResult
  PROVE  IInv'
<1>1. UNCHANGED <<parent, child, outbox, provider, surface, marker, gate, drv, now, crashes>>
  BY DEF RecordResult, WorkerKeeps, records, world, bounds
<1>2. /\ worker' \in WorkerState /\ worker'.held = worker.held
      /\ worker'.pc \in {"conclude", "invalid"}
      /\ stream' \in [result: Answer, exited: BOOLEAN]
      /\ stream'.result # stream.result => stream.result = None
      /\ worker.held # None /\ worker.pc = "record"
  BY DEF IInv, TypeOK, RecordResult, WorkerState, WorkerPC, HoldsAnswer, Taking
<1>3. TypeOK'
  BY <1>1, <1>2 DEF IInv, TypeOK
<1>4. HoldsAnswer' /\ WorkerDone'
  BY <1>1, <1>2 DEF IInv, HoldsAnswer, WorkerDone, Taking
<1>5. /\ ExitHasResult' /\ SessionPath'
      /\ Gone' /\ RoundPath' /\ GateAnswered' /\ NothingStranded'
  BY <1>1, <1>2 DEF IInv, ExitHasResult, SessionPath, Gone, RoundPath,
    GateAnswered, NothingStranded, ResultReady, OwnersGone
<1> QED
  BY <1>3, <1>4, <1>5 DEF IInv

-----------------------------------------------------------------------------
(* Steps that write a record.                                              *)

\* What the parent may undergo while the driver stands still: it asks for
\* attention, or not.
Complains ==
  /\ WellFormed(parent') /\ Keeps(parent, parent')
  /\ parent'.state = parent.state \/
       (parent.state \notin TERMINAL /\ parent'.state = "attention-required")

\* A parent that at most asks for attention keeps the parts about records.
LEMMA ComplainsKeeps ==
  ASSUME IInv, Complains,
         UNCHANGED <<child, surface, gate, drv, crashes>>,
         provider' = provider, worker.pc = "gone" => worker'.pc = "gone",
         stream'.result = stream.result,
         drv.pc \in Closing => parent'.state = parent.state
  PROVE  /\ ExitHasResult' /\ SessionPath' /\ Gone' /\ RoundPath' /\ GateAnswered'
         /\ NothingStranded'
<1>1. ExitHasResult' /\ SessionPath'
  BY DEF IInv, Complains, Keeps, ExitHasResult, SessionPath, ResultReady, OwnersGone, TERMINAL,
    Exit, Closing
<1>2. Gone' /\ RoundPath' /\ GateAnswered'
  BY DEF IInv, Complains, Keeps, Gone, RoundPath, GateAnswered, OwnersGone, TERMINAL
<1>3. NothingStranded'
  BY DEF IInv, Complains, Keeps, NothingStranded
<1> QED
  BY <1>1, <1>2, <1>3

\* The worker asks for attention: over an invalid answer, a wait that ran out,
\* an exit without an answer.
LEMMA WorkerRaisesKeeps ==
  ASSUME IInv, Complain \/ Expire \/ ObserveExit
  PROVE  IInv'
<1>1. UNCHANGED <<child, outbox, provider, surface, marker, gate, drv, now, crashes>>
      /\ stream'.result = stream.result /\ stream' \in [result: Answer, exited: BOOLEAN]
  BY DEF Complain, Expire, ObserveExit, WorkerKeeps, records, world, bounds, IInv, TypeOK
<1>2. parent' = parent \/ \E reason \in AttentionReason : parent' = Raised(parent, reason)
  BY DEF Complain, Expire, ObserveExit, AttentionReason
<1>3. WellFormed(parent)
  BY DEF IInv, TypeOK
<1>4. Complains
  <2>1. CASE parent' = parent
    BY <1>3, <2>1 DEF Complains, Keeps
  <2>2. CASE \E reason \in AttentionReason : parent' = Raised(parent, reason)
    BY <1>3, <2>2, RaisedKeeps DEF Complains
  <2> QED
    BY <1>2, <2>1, <2>2
<1>5. /\ worker' \in WorkerState /\ worker'.held = worker.held
      /\ worker.pc # "gone"
      /\ worker'.pc \in {"poll", "gone"} 
      /\ stream.result # None => worker'.pc = "gone" \/ worker'.handled
  BY DEF IInv, TypeOK, Complain, Expire, ObserveExit, Watching, WorkerState, WorkerPC, WorkerDone
<1>6. drv.pc \notin Closing
  BY <1>5 DEF IInv, SessionPath, OwnersGone
<1>7. TypeOK'
  BY <1>1, <1>4, <1>5 DEF IInv, TypeOK, Complains
<1>8. HoldsAnswer' /\ WorkerDone'
  BY <1>1, <1>5 DEF IInv, HoldsAnswer, WorkerDone, Taking
<1> QED
  BY <1>1, <1>4, <1>5, <1>6, <1>7, <1>8, ComplainsKeeps DEF IInv

\* The four answers of accept_callback, and what each writes.
LEMMA AcceptWrites ==
  ASSUME IInv, NEW a \in Callback, AcceptCallback(a)
  PROVE  \/ /\ Acceptance(a) = "accepted" /\ parent' = parent
            /\ child.accepted_callback = None /\ child.state = "awaiting-callback"
            /\ WellFormed(child') /\ child'.accepted_callback = a
            /\ child'.pending_effect = None
            /\ child'.state \in {"finalizing", "verifying", "attention-required"}
         \/ /\ Acceptance(a) = "late" /\ child' = child
            /\ child.accepted_callback = None /\ Complains
         \/ /\ Acceptance(a) = "duplicate" /\ UNCHANGED <<parent, child>>
            /\ child.accepted_callback = a
         \/ Acceptance(a) = "refused" /\ UNCHANGED <<parent, child>>
<1>1. /\ WellFormed(parent) /\ WellFormed(child) /\ child.pending_effect = None
  BY DEF IInv, TypeOK, RoundPath
<1>2. CASE Acceptance(a) = "accepted"
  <2>1. child.accepted_callback = None /\ child.state = "awaiting-callback"
    BY <1>2 DEF Acceptance
  <2>2. child' = Answered(a) /\ parent' = parent
    BY <1>2 DEF AcceptCallback
  <2> QED
    BY <1>1, <1>2, <2>1, <2>2, AnsweredKeeps
<1>3. CASE Acceptance(a) = "late"
  <2>1. child' = child /\ parent' = Raised(parent, "callback-timeout")
    BY <1>3 DEF AcceptCallback
  <2>2. "callback-timeout" \in AttentionReason
    BY DEF AttentionReason
  <2>3. child.accepted_callback = None
    BY <1>3 DEF Acceptance
  <2> QED
    BY <1>1, <1>3, <2>1, <2>2, <2>3, RaisedKeeps DEF Complains
<1>4. CASE Acceptance(a) = "duplicate"
  BY <1>4 DEF AcceptCallback, Acceptance
<1>5. CASE Acceptance(a) = "refused"
  BY <1>5 DEF AcceptCallback
<1> QED
  BY <1>2, <1>3, <1>4, <1>5 DEF Acceptance

\* The worker ingests.
LEMMA IngestKeeps ==
  ASSUME IInv, Ingest
  PROVE  IInv'
<1> DEFINE a == worker.held
<1>1. UNCHANGED <<outbox, provider, surface, stream, marker, gate, drv, now, crashes>>
  BY DEF Ingest, WorkerKeeps, world, bounds
<1>2. a \in Callback /\ AcceptCallback(a)
  BY DEF IInv, TypeOK, Ingest, HoldsAnswer, Taking, WorkerState, Answer
<1>3. /\ worker' \in WorkerState /\ worker'.held = a /\ worker'.held # None
      /\ worker'.pc \in {"record", "prepare", "invalid"}
      /\ worker.pc \notin {"gone", "conclude", "invalid", "poll"}
  BY DEF IInv, TypeOK, Ingest, HoldsAnswer, Taking, WorkerState, WorkerPC
<1>4. stream.result = None /\ drv.pc \notin Closing
  BY <1>3 DEF IInv, WorkerDone, SessionPath, OwnersGone
<1>5. HoldsAnswer' /\ WorkerDone'
  BY <1>1, <1>3, <1>4 DEF IInv, HoldsAnswer, WorkerDone, Taking
<1>6. /\ TypeOK' /\ ExitHasResult' /\ SessionPath' /\ Gone' /\ RoundPath' /\ GateAnswered'
      /\ NothingStranded'
  <2>1. CASE parent' = parent /\ child' = child
    BY <1>1, <1>3, <2>1 DEF IInv, TypeOK, ExitHasResult, SessionPath, Gone, RoundPath,
      GateAnswered, NothingStranded, ResultReady, OwnersGone
  <2>2. CASE /\ parent' = parent
             /\ child.accepted_callback = None /\ child.state = "awaiting-callback"
             /\ WellFormed(child') /\ child'.accepted_callback = a
             /\ child'.pending_effect = None
             /\ child'.state \in {"finalizing", "verifying", "attention-required"}
    BY <1>1, <1>2, <1>3, <2>2, NoneIsOther DEF IInv, TypeOK, ExitHasResult, SessionPath, Gone,
      RoundPath, GateAnswered, NothingStranded, ResultReady, OwnersGone
  <2>3. CASE child' = child /\ Complains
    <3>1. TypeOK'
      BY <1>1, <1>3, <2>3 DEF IInv, TypeOK, Complains
    <3> QED
      BY <1>1, <1>3, <1>4, <2>3, <3>1, ComplainsKeeps
  <2> HIDE DEF a
  <2> QED
    BY <1>2, <2>1, <2>2, <2>3, AcceptWrites
<1> QED
  BY <1>5, <1>6 DEF IInv

\* The worker re-arms the wait; nothing has been accepted yet, or the driver
\* has accepted it and stands before the shutdown.
LEMMA RearmKeeps ==
  ASSUME IInv, Rearm
  PROVE  IInv'
<1>1. UNCHANGED <<child, outbox, provider, surface, stream, marker, gate, drv, now, crashes>>
  BY DEF Rearm, WorkerKeeps, world, bounds
<1>2. /\ worker' \in WorkerState /\ worker'.held = worker.held /\ worker.pc = "rearm"
      /\ worker'.pc \in {"reaccept", "invalid"}
  BY DEF IInv, TypeOK, Rearm, WorkerState, WorkerPC, Taking
<1>3. stream.result = None
  BY <1>2 DEF IInv, WorkerDone
<1>4. /\ drv.pc \notin Ending /\ parent.effect_id = "start-provider"
      /\ parent.state \notin TERMINAL
  BY <1>3 DEF IInv, ExitHasResult, ResultReady
<1>5. HoldsAnswer' /\ WorkerDone'
  BY <1>1, <1>2, <1>3 DEF IInv, HoldsAnswer, WorkerDone, Taking
<1>6. CASE parent' = parent
  <2>1. TypeOK'
    BY <1>1, <1>2, <1>6 DEF IInv, TypeOK
  <2> QED
    BY <1>1, <1>2, <1>5, <1>6, <2>1 DEF IInv, ExitHasResult, SessionPath, Gone, RoundPath,
      GateAnswered, NothingStranded, ResultReady, OwnersGone
<1>7. CASE Rearmable /\ parent' = Rearmed(parent)
  <2>1. /\ WellFormed(parent') /\ parent'.state = "awaiting-callback"
        /\ parent'.pending_effect = parent.pending_effect
        /\ parent'.effect_id = parent.effect_id
        /\ parent.state = "attention-required"
    BY <1>7, RearmedKeeps DEF IInv, TypeOK, Rearmable, TimedOut
  <2>2. TypeOK'
    BY <1>1, <1>2, <2>1 DEF IInv, TypeOK
  <2>3. ExitHasResult' /\ SessionPath' /\ Gone'
    BY <1>1, <1>2, <1>4, <2>1 DEF IInv, ExitHasResult, SessionPath, Gone, ResultReady,
      OwnersGone, TERMINAL, Ending, Exit, Closing
  <2>4. RoundPath' /\ GateAnswered' /\ NothingStranded'
    BY <1>1, <1>4, <2>1 DEF IInv, RoundPath, GateAnswered, NothingStranded, Ending, Exit,
      Closing
  <2> QED
    BY <1>5, <2>2, <2>3, <2>4 DEF IInv
<1> QED
  BY <1>6, <1>7 DEF Rearm

-----------------------------------------------------------------------------
(* Steps of the driver.                                                    *)

\* What a driver step leaves alone, and the two parts that depend on it only.
LEMMA DriverStepKeeps ==
  ASSUME IInv, DriverKeeps, drv' \in DriverState,
         drv'.pc = "accept" => drv'.held # None
  PROVE  /\ UNCHANGED <<outbox, stream, marker, worker, now, crashes>>
         /\ HoldsAnswer' /\ WorkerDone'
  BY DEF IInv, DriverKeeps, bounds, HoldsAnswer, WorkerDone

\* Going to a point of the program, or back to its start, keeps what is held.
LEMMA GoingTo ==
  ASSUME IInv, NEW pc \in DriverPC, drv' = [drv EXCEPT !.pc = pc]
  PROVE  /\ drv' \in DriverState /\ drv'.pc = pc /\ drv'.held = drv.held
         /\ drv'.to = drv.to /\ drv'.recovering = drv.recovering
  BY DEF IInv, TypeOK, DriverState

\* The driver starts a run with an answer, or takes one up again.
LEMMA StartKeeps ==
  ASSUME IInv, Collect \/ Recover
  PROVE  IInv'
<1>1. UNCHANGED <<parent, child, provider, surface, gate>> /\ DriverKeeps
  BY DEF Collect, Recover, records
<1>2. /\ drv' \in DriverState /\ drv.pc = "idle"
      /\ \/ drv'.pc = "accept" /\ drv'.held # None
         \/ drv'.pc = "finish" /\ drv'.recovering /\ child.accepted_callback # None
  <2>1. drv \in DriverState /\ outbox \in Answer /\ {"accept", "finish"} \subseteq DriverPC
    BY DEF IInv, TypeOK, DriverPC, Ingesting
  <2>2. CASE Collect
    <3>1. /\ outbox # None /\ drv.pc = "idle"
          /\ drv' = [drv EXCEPT !.pc = "accept", !.held = outbox, !.tries = 0, !.recovering = FALSE]
      BY <2>2 DEF Collect, At
    <3> QED
      BY <2>1, <3>1 DEF DriverState
  <2>3. CASE Recover
    <3>1. /\ child.accepted_callback # None /\ drv.pc = "idle"
          /\ drv' = [drv EXCEPT !.pc = "finish", !.tries = 0, !.recovering = TRUE]
      BY <2>3 DEF Recover, At
    <3> QED
      BY <2>1, <3>1 DEF DriverState
  <2> QED
    BY <2>2, <2>3
<1>3. UNCHANGED <<outbox, stream, marker, worker, now, crashes>> /\ HoldsAnswer' /\ WorkerDone'
  BY <1>1, <1>2, DriverStepKeeps
<1>4. TypeOK'
  BY <1>1, <1>2, <1>3 DEF IInv, TypeOK
<1>5. /\ ExitHasResult' /\ SessionPath' /\ Gone' /\ RoundPath' /\ GateAnswered' /\ NothingStranded'
  BY <1>1, <1>2, <1>3 DEF IInv, ExitHasResult, SessionPath, Gone, RoundPath, GateAnswered,
    NothingStranded, ResultReady, OwnersGone, Ending, Exit, Closing
<1> QED
  BY <1>3, <1>4, <1>5 DEF IInv

\* The driver waits for the result, gives up, or tries again.
LEMMA WaitKeeps ==
  ASSUME IInv, AwaitResult \/ GiveUp \/ Retry
  PROVE  IInv'
<1>1. UNCHANGED <<parent, child, provider, surface, gate>> /\ DriverKeeps
  BY DEF AwaitResult, GiveUp, Retry, records
<1>2. /\ drv' \in DriverState /\ drv.pc \in {"finish", "cleanup", "retry"}
      /\ drv'.recovering = drv.recovering
      /\ \/ drv'.pc = "ask" /\ (drv.pc = "retry" \/ ResultReady)
         \/ drv'.pc = "settle"
  <2>1. {"ask", "settle"} \subseteq DriverPC /\ drv \in DriverState
    BY DEF IInv, TypeOK, DriverPC, Ending
  <2>2. CASE AwaitResult
    BY <2>1, <2>2, GoingTo DEF AwaitResult, At, Then
  <2>3. CASE GiveUp
    BY <2>1, <2>3, GoingTo DEF GiveUp, Then
  <2>4. CASE Retry
    <3>1. CASE drv' = [drv EXCEPT !.pc = "ask", !.tries = @ + 1]
      <4> DEFINE n == drv.tries + 1
      <4>1. n \in Nat
        BY <2>1 DEF DriverState
      <4>2. drv' = [drv EXCEPT !.pc = "ask", !.tries = n]
        BY <2>1, <3>1 DEF DriverState
      <4> HIDE DEF n
      <4> QED
        BY <2>1, <2>4, <4>1, <4>2 DEF DriverState, Retry, At
    <3>2. CASE Then("settle")
      BY <2>1, <2>4, <3>2, GoingTo DEF Retry, At, Then
    <3> QED
      BY <2>4, <3>1, <3>2 DEF Retry
  <2> QED
    BY <2>2, <2>3, <2>4
<1>3. UNCHANGED <<outbox, stream, marker, worker, now, crashes>> /\ HoldsAnswer' /\ WorkerDone'
  BY <1>1, <1>2, DriverStepKeeps
<1>4. TypeOK'
  BY <1>1, <1>2, <1>3 DEF IInv, TypeOK
<1>5. /\ ExitHasResult' /\ SessionPath' /\ Gone' /\ RoundPath' /\ GateAnswered' /\ NothingStranded'
  BY <1>1, <1>2, <1>3 DEF IInv, ExitHasResult, SessionPath, Gone, RoundPath, GateAnswered,
    NothingStranded, ResultReady, OwnersGone, Ending, Exit, Closing
<1> QED
  BY <1>3, <1>4, <1>5 DEF IInv

\* The request reaches the reviewer, or the surface is asked to close.
LEMMA EffectKeeps ==
  ASSUME IInv, SignalProvider \/ CloseSurface
  PROVE  IInv'
<1>1. UNCHANGED <<parent, child, gate>> /\ DriverKeeps
  BY DEF SignalProvider, CloseSurface, records
<1>2. /\ drv' \in DriverState /\ drv'.recovering = drv.recovering
      /\ \/ drv.pc = "act" /\ drv'.pc = "resolve" /\ surface' = surface
         \/ drv.pc = "close" /\ drv'.pc = "resolve-close" /\ provider' = provider
      /\ provider' \in {"alive", "asked", "dead"} /\ surface' \in {"alive", "missing"}
      /\ provider = "dead" => provider' = "dead"
  BY DEF IInv, TypeOK, SignalProvider, CloseSurface, At, Then, DriverState, DriverPC, Ending,
    Exit, Closing
<1>3. UNCHANGED <<outbox, stream, marker, worker, now, crashes>> /\ HoldsAnswer' /\ WorkerDone'
  BY <1>1, <1>2, DriverStepKeeps
<1>4. TypeOK'
  BY <1>1, <1>2, <1>3 DEF IInv, TypeOK
<1>5. /\ ExitHasResult' /\ SessionPath' /\ Gone' /\ RoundPath' /\ GateAnswered' /\ NothingStranded'
  BY <1>1, <1>2, <1>3 DEF IInv, ExitHasResult, SessionPath, Gone, RoundPath, GateAnswered,
    NothingStranded, ResultReady, OwnersGone, Ending, Exit, Closing
<1> QED
  BY <1>3, <1>4, <1>5 DEF IInv

\* The gate is told; an attempt is answered only over a finished session.
LEMMA SettleKeeps ==
  ASSUME IInv, Settle
  PROVE  IInv'
<1>1. UNCHANGED <<parent, child, provider, surface>> /\ DriverKeeps
  BY DEF Settle, records
<1>2. /\ drv' \in DriverState /\ drv.pc = "settle" /\ drv'.pc = "idle"
  BY DEF IInv, TypeOK, Settle, At, Then, DriverState, DriverPC
<1>3. UNCHANGED <<outbox, stream, marker, worker, now, crashes>> /\ HoldsAnswer' /\ WorkerDone'
  BY <1>1, <1>2, DriverStepKeeps
<1>4. /\ gate' \in {"awaiting", "attention", "answered"}
      /\ gate' = "answered" => gate = "answered" \/ (~drv.recovering /\ parent.state = "complete")
  BY DEF IInv, TypeOK, Settle, CleanedUp
<1>5. TypeOK'
  BY <1>1, <1>2, <1>3, <1>4 DEF IInv, TypeOK
<1>6. /\ ExitHasResult' /\ SessionPath' /\ Gone' /\ RoundPath' /\ GateAnswered' /\ NothingStranded'
  BY <1>1, <1>2, <1>3, <1>4 DEF IInv, ExitHasResult, SessionPath, Gone, RoundPath, GateAnswered,
    NothingStranded, ResultReady, OwnersGone, Ending, Exit, Closing
<1> QED
  BY <1>3, <1>5, <1>6 DEF IInv

\* The driver's own acceptance.
LEMMA AcceptRoundKeeps ==
  ASSUME IInv, AcceptRound
  PROVE  IInv'
<1> DEFINE a == drv.held
<1>1. UNCHANGED <<provider, surface, gate>> /\ DriverKeeps
  BY DEF AcceptRound
<1>2. a \in Callback /\ AcceptCallback(a) /\ drv.pc = "accept"
  BY DEF IInv, TypeOK, AcceptRound, At, HoldsAnswer, DriverState, Answer
<1>3. /\ drv' \in DriverState
      /\ drv'.pc = IF Acceptance(a) \in {"accepted", "duplicate"} THEN "finalizing" ELSE "idle"
  BY DEF IInv, TypeOK, AcceptRound, Then, Raises, DriverState, DriverPC, Ingesting
<1>4. UNCHANGED <<outbox, stream, marker, worker, now, crashes>> /\ HoldsAnswer' /\ WorkerDone'
  BY <1>1, <1>3, DriverStepKeeps
<1>5. a # None
  BY <1>2, NoneIsOther
<1> HIDE DEF a
<1>6. /\ TypeOK' /\ ExitHasResult' /\ SessionPath' /\ Gone' /\ RoundPath' /\ GateAnswered'
      /\ NothingStranded'
  <2>1. CASE /\ parent' = parent /\ child' = child
             /\ Acceptance(a) = "duplicate" /\ child.accepted_callback = a
    BY <1>1, <1>2, <1>3, <1>4, <1>5, <2>1 DEF IInv, TypeOK, ExitHasResult, SessionPath, Gone,
      RoundPath, GateAnswered, NothingStranded, ResultReady, OwnersGone, Ending, Exit, Closing
  <2>2. CASE parent' = parent /\ child' = child /\ Acceptance(a) = "refused"
    BY <1>1, <1>2, <1>3, <1>4, <2>2 DEF IInv, TypeOK, ExitHasResult, SessionPath, Gone,
      RoundPath, GateAnswered, NothingStranded, ResultReady, OwnersGone, Ending, Exit, Closing
  <2>3. CASE /\ parent' = parent
             /\ child.accepted_callback = None /\ child.state = "awaiting-callback"
             /\ WellFormed(child') /\ child'.accepted_callback = a
             /\ child'.pending_effect = None
             /\ child'.state \in {"finalizing", "verifying", "attention-required"}
             /\ Acceptance(a) = "accepted"
    BY <1>1, <1>2, <1>3, <1>4, <1>5, <2>3 DEF IInv, TypeOK, ExitHasResult, SessionPath, Gone,
      RoundPath, GateAnswered, NothingStranded, ResultReady, OwnersGone, Ending, Exit, Closing
  <2>4. CASE child' = child /\ Complains /\ Acceptance(a) = "late"
    <3>1. TypeOK'
      BY <1>1, <1>3, <1>4, <2>4 DEF IInv, TypeOK, Complains
    <3>2. ExitHasResult' /\ SessionPath' /\ Gone'
      BY <1>1, <1>2, <1>3, <1>4, <2>4 DEF IInv, Complains, Keeps, ExitHasResult, SessionPath,
        Gone, ResultReady, OwnersGone, TERMINAL, Ending, Exit, Closing
    <3>3. RoundPath' /\ GateAnswered' /\ NothingStranded'
      BY <1>1, <1>2, <1>3, <1>4, <2>4 DEF IInv, Complains, Keeps, RoundPath, GateAnswered,
        NothingStranded, TERMINAL, Ending, Exit, Closing
    <3> QED
      BY <3>1, <3>2, <3>3
  <2> QED
    BY <1>2, <2>1, <2>2, <2>3, <2>4, AcceptWrites
<1> QED
  BY <1>4, <1>6 DEF IInv

\* The driver moves the round to its end.
LEMMA CloseRoundKeeps ==
  ASSUME IInv, CloseRound
  PROVE  IInv'
<1>1. UNCHANGED <<parent, provider, surface, gate>> /\ DriverKeeps
  BY DEF CloseRound
<1>2. /\ drv.pc \in {"finalizing", "exiting", "complete"}
      /\ {"exiting", "complete", "closed", "idle"} \subseteq DriverPC
      /\ {"finalizing", "exiting", "complete"} \subseteq States
      /\ WellFormed(child) /\ child.pending_effect = None
      /\ None \in AttentionReason \cup {None}
  BY DEF CloseRound, DriverPC, Ingesting, States, TERMINAL, IInv, TypeOK, RoundPath
<1>3. CASE drv.pc = "finalizing" /\ child.state \in TERMINAL
  <2>1. drv' = [drv EXCEPT !.pc = "closed"] /\ child' = child
    BY <1>3 DEF CloseRound, Then
  <2>2. drv' \in DriverState /\ drv'.pc = "closed" /\ drv'.recovering = drv.recovering
    BY <1>2, <2>1, GoingTo
  <2>3. UNCHANGED <<outbox, stream, marker, worker, now, crashes>> /\ HoldsAnswer' /\ WorkerDone'
    BY <1>1, <2>2, DriverStepKeeps
  <2>4. TypeOK'
    BY <1>1, <2>1, <2>2, <2>3 DEF IInv, TypeOK
  <2>5. /\ ExitHasResult' /\ SessionPath' /\ Gone' /\ RoundPath' /\ GateAnswered'
        /\ NothingStranded'
    BY <1>1, <1>3, <2>1, <2>2, <2>3 DEF IInv, ExitHasResult, SessionPath, Gone, RoundPath,
      GateAnswered, NothingStranded, ResultReady, OwnersGone, Ending, Exit, Closing, TERMINAL
  <2> QED
    BY <2>3, <2>4, <2>5 DEF IInv
<1>4. CASE ~(drv.pc = "finalizing" /\ child.state \in TERMINAL) /\ MayMove(child, drv.pc)
  <2>1. child' = Go(child, drv.pc, None)
    BY <1>4 DEF CloseRound
  <2>2. drv.pc # "attention-required"
    BY <1>2
  <2>3. /\ WellFormed(child') /\ Keeps(child, child') /\ child'.state = drv.pc
    <3> DEFINE s == drv.pc
    <3>1. s \in States /\ MayMove(child, s) /\ ((s = "attention-required") <=> (None # None))
      BY <1>2, <1>4, <2>2
    <3> QED
      BY <1>2, <2>1, <3>1, GoKeeps
  <2>4. /\ drv' \in DriverState /\ drv'.recovering = drv.recovering
        /\ drv'.pc = CASE drv.pc = "finalizing" -> "exiting"
                       [] drv.pc = "exiting" -> "complete"
                       [] OTHER -> "closed"
    <3> DEFINE next == CASE drv.pc = "finalizing" -> "exiting"
                         [] drv.pc = "exiting" -> "complete"
                         [] OTHER -> "closed"
    <3>1. drv' = [drv EXCEPT !.pc = next] /\ next \in DriverPC
      BY <1>2, <1>4 DEF CloseRound, Then
    <3> HIDE DEF next
    <3>2. drv' \in DriverState /\ drv'.pc = next /\ drv'.recovering = drv.recovering
      BY <3>1, GoingTo
    <3> QED
      BY <3>2 DEF next
  <2>5. drv'.pc \in {"exiting", "complete", "closed"}
    BY <2>4
  <2>6. UNCHANGED <<outbox, stream, marker, worker, now, crashes>> /\ HoldsAnswer' /\ WorkerDone'
    BY <1>1, <2>4, <2>5, DriverStepKeeps
  <2>7. TypeOK'
    BY <1>1, <2>3, <2>4, <2>6 DEF IInv, TypeOK
  <2>8. child.state # "awaiting-callback" /\ child.state # "complete"
    BY <1>2, <1>4 DEF IInv, RoundPath, SessionPath, TERMINAL
  <2>9. ExitHasResult' /\ SessionPath' /\ Gone'
    BY <1>1, <1>2, <2>3, <2>5, <2>6 DEF IInv, Keeps, ExitHasResult, SessionPath, Gone, RoundPath,
      ResultReady, OwnersGone, Ending, Exit, Closing
  <2>10. RoundPath'
    <3>1. \/ drv.pc = "finalizing" /\ drv'.pc = "exiting" /\ child'.state = "finalizing"
          \/ drv.pc = "exiting" /\ drv'.pc = "complete" /\ child'.state = "exiting"
          \/ drv.pc = "complete" /\ drv'.pc = "closed" /\ child'.state = "complete"
      BY <1>2, <2>3, <2>4
    <3>2. child.accepted_callback # None /\ child'.accepted_callback # None
      BY <2>3, <2>8 DEF IInv, RoundPath, Keeps
    <3> QED
      BY <2>3, <2>4, <3>1, <3>2 DEF IInv, Keeps, RoundPath, Ending, Exit, Closing
  <2>11. GateAnswered' /\ NothingStranded'
    BY <1>1, <1>2, <2>3, <2>4, <2>6, <2>8 DEF IInv, Keeps, GateAnswered, NothingStranded, Exit
  <2> QED
    BY <2>6, <2>7, <2>9, <2>10, <2>11 DEF IInv
<1>5. CASE ~(drv.pc = "finalizing" /\ child.state \in TERMINAL) /\ ~MayMove(child, drv.pc)
  <2>1. drv' = [drv EXCEPT !.pc = "idle"] /\ child' = child
    BY <1>5 DEF CloseRound, Raises
  <2>2. drv' \in DriverState /\ drv'.pc = "idle" /\ drv'.recovering = drv.recovering
    BY <1>2, <2>1, GoingTo
  <2>3. UNCHANGED <<outbox, stream, marker, worker, now, crashes>> /\ HoldsAnswer' /\ WorkerDone'
    BY <1>1, <2>2, DriverStepKeeps
  <2>4. TypeOK'
    BY <1>1, <2>1, <2>2, <2>3 DEF IInv, TypeOK
  <2>5. drv.pc # "complete"
    BY <1>5 DEF IInv, RoundPath, MayMove, TRANSITIONS
  <2>6. /\ ExitHasResult' /\ SessionPath' /\ Gone' /\ RoundPath' /\ GateAnswered'
        /\ NothingStranded'
    BY <1>1, <1>2, <2>1, <2>2, <2>3, <2>5 DEF IInv, ExitHasResult, SessionPath, Gone, RoundPath,
      GateAnswered, NothingStranded, ResultReady, OwnersGone, Ending, Exit, Closing
  <2> QED
    BY <2>3, <2>4, <2>6 DEF IInv
<1> QED
  BY <1>3, <1>4, <1>5

\* A blocked verdict, a request that finds no worker: the driver asks for
\* attention, or does not, and goes on before or after the exit.
LEMMA DriverRaisesKeeps ==
  ASSUME IInv, Complains, UNCHANGED <<child, provider, surface, gate>>, DriverKeeps,
         drv' \in DriverState, drv'.recovering = drv.recovering,
         \/ drv.pc = "closed" /\ drv'.pc = "finish"
         \/ drv.pc \in {"ask", "cleanup", "release"} /\ drv'.pc \in {"retry", "settle"}
  PROVE  IInv'
<1>1. UNCHANGED <<outbox, stream, marker, worker, now, crashes>> /\ HoldsAnswer' /\ WorkerDone'
  BY DriverStepKeeps
<1>2. TypeOK'
  BY <1>1 DEF IInv, TypeOK, Complains
<1>3. ExitHasResult' /\ SessionPath' /\ Gone'
  BY <1>1 DEF IInv, Complains, Keeps, ExitHasResult, SessionPath, Gone, ResultReady, OwnersGone,
    TERMINAL, Ending, Exit, Closing
<1>4. RoundPath' /\ GateAnswered' /\ NothingStranded'
  BY <1>1 DEF IInv, Complains, Keeps, RoundPath, GateAnswered, NothingStranded, TERMINAL,
    Ending, Exit, Closing
<1> QED
  BY <1>1, <1>2, <1>3, <1>4 DEF IInv

\* An attention the driver asks for is a complaint.
LEMMA RaisedComplains ==
  ASSUME IInv, NEW reason \in AttentionReason,
         parent' = parent \/ parent' = Raised(parent, reason)
  PROVE  Complains
<1>1. WellFormed(parent)
  BY DEF IInv, TypeOK
<1>2. CASE parent' = parent
  BY <1>1, <1>2 DEF Complains, Keeps
<1>3. CASE parent' = Raised(parent, reason)
  BY <1>1, <1>3, RaisedKeeps DEF Complains
<1> QED
  BY <1>2, <1>3

\* The round is closed.
LEMMA ClosedKeeps ==
  ASSUME IInv, Closed
  PROVE  IInv'
<1>1. "finish" \in DriverPC /\ "attention-required" \in AttentionReason
  BY DEF DriverPC, AttentionReason
<1>2. UNCHANGED <<child, provider, surface, gate>> /\ DriverKeeps /\ drv.pc = "closed"
  BY DEF Closed, At
<1>3. drv' \in DriverState /\ drv'.pc = "finish" /\ drv'.recovering = drv.recovering
  BY <1>1, GoingTo DEF Closed, Then
<1>4. Complains
  BY <1>1, RaisedComplains DEF Closed
<1> QED
  BY <1>2, <1>3, <1>4, DriverRaisesKeeps

\* The driver looks at the session and decides how to ask it to exit.
LEMMA RequestExitKeeps ==
  ASSUME IInv, RequestExit
  PROVE  IInv'
<1> DEFINE orphan == Orphaned /\ parent.state \notin TERMINAL \cup {"exiting"}
           to == IF parent.state = "attention-required" THEN "cancelling" ELSE "finalizing"
           next == CASE parent.state \in TERMINAL -> "settle"
                     [] parent.state = "exiting" -> "cleanup"
                     [] orphan -> "retry"
                     [] parent.state = "finalizing" /\ ~orphan -> "begin"
                     [] OTHER -> "move"
<1>1. UNCHANGED <<child, provider, surface, gate>> /\ DriverKeeps /\ drv.pc = "ask"
  BY DEF RequestExit, At
<1>2. /\ drv' = [drv EXCEPT !.alive = provider # "dead", !.to = to, !.pc = next]
      /\ parent' = IF orphan THEN Raised(parent, "attention-required") ELSE parent
  BY DEF RequestExit
<1>3. next \in {"settle", "cleanup", "retry", "begin", "move"} /\ to \in {"cancelling", "finalizing"}
  OBVIOUS
<1>4. next \in DriverPC
  BY <1>3 DEF DriverPC, Ending, Exit
<1> HIDE DEF next, to
<1>5. /\ drv' \in DriverState /\ drv'.pc = next /\ drv'.to = to
      /\ drv'.recovering = drv.recovering
  <2>1. drv \in DriverState /\ (provider # "dead") \in BOOLEAN
    BY DEF IInv, TypeOK
  <2> DEFINE alive == provider # "dead"
  <2>2. alive \in BOOLEAN /\ drv' = [drv EXCEPT !.alive = alive, !.to = to, !.pc = next]
    BY <1>2
  <2> HIDE DEF alive
  <2> QED
    BY <1>3, <1>4, <2>1, <2>2 DEF DriverState
<1>6. CASE orphan
  <2>1. next = "retry"
    BY <1>6 DEF next
  <2>2. "attention-required" \in AttentionReason
    BY DEF AttentionReason
  <2>3. Complains
    BY <1>2, <1>6, <2>2, RaisedComplains
  <2> QED
    BY <1>1, <1>5, <2>1, <2>3, DriverRaisesKeeps
<1>7. CASE ~orphan
  <2>1. parent' = parent
    BY <1>2, <1>7
  <2>2. UNCHANGED <<outbox, stream, marker, worker, now, crashes>> /\ HoldsAnswer' /\ WorkerDone'
    BY <1>1, <1>3, <1>5, DriverStepKeeps
  <2>3. TypeOK'
    BY <1>1, <1>5, <2>1, <2>2 DEF IInv, TypeOK
  <2>4. /\ next = "begin" => parent.state = "finalizing"
        /\ next = "cleanup" => parent.state = "exiting"
        /\ next = "move" => /\ parent.state \notin TERMINAL \cup {"exiting", "finalizing"}
                            /\ to = "cancelling" <=> parent.state = "attention-required"
    BY <1>7 DEF next, to
  <2>5. ExitHasResult' /\ Gone' /\ SessionPath'
    BY <1>1, <1>3, <1>5, <2>1, <2>2, <2>4 DEF IInv, ExitHasResult, SessionPath, Gone, ResultReady,
      OwnersGone, TERMINAL, Ending, Exit, Closing
  <2>6. RoundPath' /\ GateAnswered' /\ NothingStranded'
    BY <1>1, <1>3, <1>5, <2>1, <2>2, <2>4 DEF IInv, RoundPath, SessionPath, GateAnswered,
      NothingStranded, TERMINAL, Ending, Exit, Closing
  <2> QED
    BY <2>2, <2>3, <2>5, <2>6 DEF IInv
<1> QED
  BY <1>6, <1>7

\* The driver sets the session on its way out.
LEMMA MoveToExitKeeps ==
  ASSUME IInv, MoveToExit
  PROVE  IInv'
<1>1. UNCHANGED <<child, provider, surface, gate>> /\ DriverKeeps /\ drv.pc = "move"
  BY DEF MoveToExit, At
<1>2. {"begin", "idle"} \subseteq DriverPC /\ {"finalizing", "cancelling"} \subseteq States
  BY DEF DriverPC, Ending, Exit, States
<1>3. WellFormed(parent) /\ None \in AttentionReason \cup {None}
  BY DEF IInv, TypeOK
<1>4. CASE MayMove(parent, drv.to)
  <2> DEFINE s == drv.to
  <2>1. s \in {"finalizing", "cancelling"}
    BY <1>1 DEF IInv, SessionPath
  <2>2. s \in States /\ MayMove(parent, s) /\ ((s = "attention-required") <=> (None # None))
    BY <1>2, <1>4, <2>1
  <2>3. parent' = Go(parent, s, None) /\ drv' = [drv EXCEPT !.pc = "begin"]
    BY <1>4 DEF MoveToExit, Then
  <2>4. WellFormed(parent') /\ Keeps(parent, parent') /\ parent'.state = s
    <3> HIDE DEF s
    <3> QED
      BY <1>3, <2>2, <2>3, GoKeeps
  <2>5. drv' \in DriverState /\ drv'.pc = "begin" /\ drv'.recovering = drv.recovering
    BY <1>2, <2>3, GoingTo
  <2>6. UNCHANGED <<outbox, stream, marker, worker, now, crashes>> /\ HoldsAnswer' /\ WorkerDone'
    BY <1>1, <2>5, DriverStepKeeps
  <2>7. TypeOK'
    BY <1>1, <2>4, <2>5, <2>6 DEF IInv, TypeOK
  <2>8. ExitHasResult' /\ SessionPath' /\ Gone'
    BY <1>1, <2>1, <2>4, <2>5, <2>6 DEF IInv, Keeps, ExitHasResult, SessionPath, Gone,
      ResultReady, OwnersGone, TERMINAL, Ending, Exit, Closing
  <2>9. RoundPath' /\ GateAnswered' /\ NothingStranded'
    BY <1>1, <2>1, <2>4, <2>5, <2>6 DEF IInv, Keeps, RoundPath, SessionPath, GateAnswered,
      NothingStranded, TERMINAL, Ending, Exit, Closing
  <2> QED
    BY <2>6, <2>7, <2>8, <2>9 DEF IInv
<1>5. CASE ~MayMove(parent, drv.to)
  <2>1. parent' = parent /\ drv' = [drv EXCEPT !.pc = "idle"]
    BY <1>5 DEF MoveToExit, Raises
  <2>2. drv' \in DriverState /\ drv'.pc = "idle" /\ drv'.recovering = drv.recovering
    BY <1>2, <2>1, GoingTo
  <2>3. UNCHANGED <<outbox, stream, marker, worker, now, crashes>> /\ HoldsAnswer' /\ WorkerDone'
    BY <1>1, <2>2, DriverStepKeeps
  <2>4. TypeOK'
    BY <1>1, <2>1, <2>2, <2>3 DEF IInv, TypeOK
  <2>5. ExitHasResult' /\ SessionPath' /\ Gone' /\ RoundPath' /\ GateAnswered' /\ NothingStranded'
    BY <1>1, <2>1, <2>2, <2>3 DEF IInv, ExitHasResult, SessionPath, Gone, RoundPath,
      GateAnswered, NothingStranded, ResultReady, OwnersGone, Ending, Exit, Closing
  <2> QED
    BY <2>3, <2>4, <2>5 DEF IInv
<1> QED
  BY <1>4, <1>5

\* The request to exit is reserved, or has been made before.
LEMMA BeginExitKeeps ==
  ASSUME IInv, BeginExit
  PROVE  IInv'
<1>1. UNCHANGED <<child, provider, surface, gate>> /\ DriverKeeps /\ drv.pc = "begin"
  BY DEF BeginExit, At
<1>2. {"act", "leave", "idle"} \subseteq DriverPC
  BY DEF DriverPC, Ending, Exit
<1>3. WellFormed(parent) /\ "request-exit" \in Effect /\ parent.state \notin TERMINAL
  <2>1. "request-exit" \in Effect
    BY RoundAssumption
  <2> QED
    BY <1>1, <2>1 DEF IInv, TypeOK, SessionPath, Exit, TERMINAL
<1>4. CASE \/ parent' = parent /\ drv' = [drv EXCEPT !.pc = "idle"] /\ parent.pending_effect # None
           \/ /\ parent' = parent /\ drv' = [drv EXCEPT !.pc = "leave"]
              /\ parent.pending_effect = None /\ parent.effect_id = "request-exit"
  <2>1. /\ drv' \in DriverState /\ drv'.recovering = drv.recovering
        /\ \/ drv'.pc = "idle" /\ parent.pending_effect # None
           \/ drv'.pc = "leave" /\ parent.effect_id = "request-exit" /\ parent.pending_effect = None
    BY <1>2, <1>4, GoingTo
  <2>2. UNCHANGED <<outbox, stream, marker, worker, now, crashes>> /\ HoldsAnswer' /\ WorkerDone'
    BY <1>1, <2>1, DriverStepKeeps
  <2>3. TypeOK'
    BY <1>1, <1>4, <2>1, <2>2 DEF IInv, TypeOK
  <2>4. ExitHasResult' /\ SessionPath' /\ Gone' /\ RoundPath' /\ GateAnswered' /\ NothingStranded'
    BY <1>1, <1>4, <2>1, <2>2 DEF IInv, ExitHasResult, SessionPath, Gone, RoundPath,
      GateAnswered, NothingStranded, ResultReady, OwnersGone, Ending, Exit, Closing
  <2> QED
    BY <2>2, <2>3, <2>4 DEF IInv
<1>5. CASE /\ parent.pending_effect = None
           /\ parent' = Plain(Begun(parent, "request-exit")) /\ drv' = [drv EXCEPT !.pc = "act"]
  <2>1. drv' \in DriverState /\ drv'.pc = "act" /\ drv'.recovering = drv.recovering
    BY <1>2, <1>5, GoingTo
  <2>2. UNCHANGED <<outbox, stream, marker, worker, now, crashes>> /\ HoldsAnswer' /\ WorkerDone'
    BY <1>1, <2>1, DriverStepKeeps
  <2>3. /\ WellFormed(parent') /\ parent'.effect_id = "request-exit"
        /\ parent'.state = parent.state /\ parent'.resources = parent.resources
    BY <1>3, <1>5, BegunKeeps
  <2>4. TypeOK'
    BY <1>1, <2>1, <2>2, <2>3 DEF IInv, TypeOK
  <2>5. ExitHasResult' /\ SessionPath' /\ Gone' /\ RoundPath' /\ GateAnswered' /\ NothingStranded'
    BY <1>1, <2>1, <2>2, <2>3 DEF IInv, ExitHasResult, SessionPath, Gone, RoundPath,
      GateAnswered, NothingStranded, ResultReady, OwnersGone, Ending, Exit, Closing
  <2> QED
    BY <2>2, <2>4, <2>5 DEF IInv
<1> QED
  BY <1>4, <1>5 DEF BeginExit, Then, Raises

\* An effect is settled, and the driver goes on.
LEMMA ResolvesKeeps ==
  ASSUME IInv, ResolveExit \/ ResolveClose
  PROVE  IInv'
<1>1. UNCHANGED <<child, provider, surface, gate>> /\ DriverKeeps
  BY DEF ResolveExit, ResolveClose
<1>2. {"leave", "release"} \subseteq DriverPC
  BY DEF DriverPC, Ending, Exit, Closing
<1>3. /\ drv' \in DriverState /\ drv'.recovering = drv.recovering
      /\ \/ drv.pc = "resolve" /\ drv'.pc = "leave"
         \/ drv.pc = "resolve-close" /\ drv'.pc = "release"
  BY <1>2, GoingTo DEF ResolveExit, ResolveClose, At, Then
<1>4. WellFormed(parent) /\ parent' = Plain(Settled(parent, "succeeded"))
  BY DEF IInv, TypeOK, ResolveExit, ResolveClose
<1>5. /\ WellFormed(parent') /\ parent'.effect_id = parent.effect_id
      /\ parent'.pending_effect = None
      /\ parent'.state = parent.state /\ parent'.resources = parent.resources
  BY <1>4, SettledKeeps
<1>6. UNCHANGED <<outbox, stream, marker, worker, now, crashes>> /\ HoldsAnswer' /\ WorkerDone'
  BY <1>1, <1>3, DriverStepKeeps
<1>7. TypeOK'
  BY <1>1, <1>3, <1>5, <1>6 DEF IInv, TypeOK
<1>8. ExitHasResult' /\ SessionPath' /\ Gone' /\ RoundPath' /\ GateAnswered' /\ NothingStranded'
  BY <1>1, <1>3, <1>5, <1>6 DEF IInv, ExitHasResult, SessionPath, Gone, RoundPath,
    GateAnswered, NothingStranded, ResultReady, OwnersGone, Ending, Exit, Closing
<1> QED
  BY <1>6, <1>7, <1>8 DEF IInv

\* The session is exiting, and ends: the two moves of the way out.
LEMMA LeavingKeeps ==
  ASSUME IInv, Exiting \/ End
  PROVE  IInv'
<1>1. UNCHANGED <<child, provider, surface, gate>> /\ DriverKeeps
  BY DEF Exiting, End
<1>2. /\ {"cleanup", "settle", "idle"} \subseteq DriverPC
      /\ {"exiting", "complete"} \subseteq States
      /\ None \in AttentionReason \cup {None} /\ WellFormed(parent)
  BY DEF DriverPC, Ending, States, TERMINAL, IInv, TypeOK
<1>3. PICK s \in {"exiting", "complete"} :
         /\ s = "exiting" <=> drv.pc = "leave"
         /\ s = "complete" <=> drv.pc = "end"
         /\ IF MayMove(parent, s)
            THEN /\ parent' = Go(parent, s, None)
                 /\ drv' = [drv EXCEPT !.pc = IF s = "exiting" THEN "cleanup" ELSE "settle"]
            ELSE parent' = parent /\ drv' = [drv EXCEPT !.pc = "idle"]
  <2>1. CASE Exiting
    BY <2>1 DEF Exiting, At, Then, Raises
  <2>2. CASE End
    BY <2>2 DEF End, At, Then, Raises
  <2> QED
    BY <2>1, <2>2
<1>4. drv.pc \in {"leave", "end"}
  BY <1>3
<1>5. CASE MayMove(parent, s)
  <2>1. s \in States /\ ((s = "attention-required") <=> (None # None))
    BY <1>2
  <2>2. parent' = Go(parent, s, None)
    BY <1>3, <1>5
  <2>3. WellFormed(parent') /\ Keeps(parent, parent') /\ parent'.state = s
    BY <1>2, <1>5, <2>1, <2>2, GoKeeps
  <2>4. /\ drv' \in DriverState /\ drv'.recovering = drv.recovering
        /\ drv'.pc = IF s = "exiting" THEN "cleanup" ELSE "settle"
    BY <1>2, <1>3, <1>5, GoingTo
  <2>5. UNCHANGED <<outbox, stream, marker, worker, now, crashes>> /\ HoldsAnswer' /\ WorkerDone'
    BY <1>1, <2>4, DriverStepKeeps
  <2>6. TypeOK'
    BY <1>1, <2>3, <2>4, <2>5 DEF IInv, TypeOK
  <2>7. ExitHasResult' /\ SessionPath' /\ Gone'
    BY <1>1, <1>3, <1>4, <2>3, <2>4, <2>5 DEF IInv, Keeps, ExitHasResult, SessionPath, Gone,
      ResultReady, OwnersGone, TERMINAL, Ending, Exit, Closing
  <2>8. RoundPath' /\ GateAnswered' /\ NothingStranded'
    BY <1>1, <1>3, <1>4, <2>3, <2>4, <2>5 DEF IInv, Keeps, RoundPath, SessionPath, GateAnswered,
      NothingStranded, TERMINAL, Ending, Exit, Closing
  <2> QED
    BY <2>5, <2>6, <2>7, <2>8 DEF IInv
<1>6. CASE ~MayMove(parent, s)
  <2>1. parent' = parent /\ drv' \in DriverState /\ drv'.pc = "idle"
    BY <1>2, <1>3, <1>6, GoingTo
  <2>2. UNCHANGED <<outbox, stream, marker, worker, now, crashes>> /\ HoldsAnswer' /\ WorkerDone'
    BY <1>1, <2>1, DriverStepKeeps
  <2>3. TypeOK'
    BY <1>1, <2>1, <2>2 DEF IInv, TypeOK
  <2>4. parent.pending_effect = None => parent.state # "cancelling" \/ drv.pc # "leave"
    BY <1>3, <1>4, <1>6 DEF MayMove, TRANSITIONS
  <2>5. ExitHasResult' /\ SessionPath' /\ Gone' /\ RoundPath' /\ GateAnswered' /\ NothingStranded'
    BY <1>1, <1>4, <2>1, <2>2, <2>4 DEF IInv, ExitHasResult, SessionPath, Gone, RoundPath,
      GateAnswered, NothingStranded, ResultReady, OwnersGone, Ending, Exit, Closing
  <2> QED
    BY <2>2, <2>3, <2>5 DEF IInv
<1> QED
  BY <1>5, <1>6

\* Cleanup: it waits, gives back, or begins to close the surface.
LEMMA CleanupKeeps ==
  ASSUME IInv, Cleanup
  PROVE  IInv'
<1>1. UNCHANGED <<child, provider, surface, gate>> /\ DriverKeeps /\ drv.pc = "cleanup"
  BY DEF Cleanup, At
<1>2. {"retry", "settle", "idle", "release", "close"} \subseteq DriverPC
  BY DEF DriverPC, Ending, Closing
<1>3. WellFormed(parent)
  BY DEF IInv, TypeOK
<1>4. CASE /\ \/ parent' = parent
              \/ parent' = Raised(parent, "cleanup-incomplete")
           /\ Then("retry") \/ Then("settle")
  <2>1. "cleanup-incomplete" \in AttentionReason
    BY DEF AttentionReason
  <2>2. Complains
    BY <1>4, <2>1, RaisedComplains
  <2>3. drv' \in DriverState /\ drv'.pc \in {"retry", "settle"} /\ drv'.recovering = drv.recovering
    BY <1>2, <1>4, GoingTo DEF Then
  <2> QED
    BY <1>1, <2>2, <2>3, DriverRaisesKeeps
<1>5. CASE /\ parent' = parent
           /\ \/ Raises /\ (parent.state \notin TERMINAL \cup {"attention-required", "exiting"}
                            \/ parent.pending_effect # None)
              \/ Then("release") /\ surface = "missing" /\ parent.state = "exiting" /\ OwnersGone
  <2>1. /\ drv' \in DriverState /\ drv'.recovering = drv.recovering
        /\ \/ drv'.pc = "idle" /\ (parent.state \notin TERMINAL \cup {"attention-required", "exiting"}
                                   \/ parent.pending_effect # None)
           \/ drv'.pc = "release" /\ parent.state = "exiting" /\ OwnersGone
    BY <1>2, <1>5, GoingTo DEF Then, Raises
  <2>2. UNCHANGED <<outbox, stream, marker, worker, now, crashes>> /\ HoldsAnswer' /\ WorkerDone'
    BY <1>1, <2>1, DriverStepKeeps
  <2>3. TypeOK'
    BY <1>1, <1>5, <2>1, <2>2 DEF IInv, TypeOK
  <2>4. ExitHasResult' /\ SessionPath' /\ Gone' /\ RoundPath' /\ GateAnswered' /\ NothingStranded'
    BY <1>1, <1>5, <2>1, <2>2 DEF IInv, ExitHasResult, SessionPath, Gone, RoundPath,
      GateAnswered, NothingStranded, ResultReady, OwnersGone, Ending, Exit, Closing
  <2> QED
    BY <2>2, <2>3, <2>4 DEF IInv
<1>6. CASE /\ parent.state = "exiting" /\ OwnersGone /\ parent.pending_effect = None
           /\ parent' = Plain(Begun(parent, "close-surface")) /\ Then("close")
  <2>1. drv' \in DriverState /\ drv'.pc = "close" /\ drv'.recovering = drv.recovering
    BY <1>2, <1>6, GoingTo DEF Then
  <2>2. UNCHANGED <<outbox, stream, marker, worker, now, crashes>> /\ HoldsAnswer' /\ WorkerDone'
    BY <1>1, <2>1, DriverStepKeeps
  <2>3. "close-surface" \in Effect
    BY RoundAssumption
  <2>4. /\ WellFormed(parent') /\ parent'.effect_id = "close-surface"
        /\ parent'.state = parent.state /\ parent'.resources = parent.resources
    <3>1. parent.state \notin TERMINAL
      BY <1>6 DEF TERMINAL
    <3> QED
      BY <1>3, <1>6, <2>3, <3>1, BegunKeeps
  <2>5. TypeOK'
    BY <1>1, <2>1, <2>2, <2>4 DEF IInv, TypeOK
  <2>6. ExitHasResult' /\ SessionPath' /\ Gone' /\ RoundPath' /\ GateAnswered' /\ NothingStranded'
    BY <1>1, <1>6, <2>1, <2>2, <2>4 DEF IInv, ExitHasResult, SessionPath, Gone, RoundPath,
      GateAnswered, NothingStranded, ResultReady, OwnersGone, Ending, Exit, Closing
  <2> QED
    BY <2>2, <2>5, <2>6 DEF IInv
<1> QED
  BY <1>4, <1>5, <1>6 DEF Cleanup

\* The surface is gone and the result there: the resources are let go.
LEMMA ReleaseKeeps ==
  ASSUME IInv, Release
  PROVE  IInv'
<1>1. UNCHANGED <<child, provider, surface, gate>> /\ DriverKeeps /\ drv.pc = "release"
  BY DEF Release, At
<1>2. {"retry", "end"} \subseteq DriverPC
  BY DEF DriverPC, Ending, Closing
<1>3. WellFormed(parent)
  BY DEF IInv, TypeOK
<1>4. CASE /\ \/ parent' = Raised(parent, "cleanup-incomplete")
              \/ parent' = Raised(parent, "attention-required")
           /\ Then("retry")
  <2>1. {"cleanup-incomplete", "attention-required"} \subseteq AttentionReason
    BY DEF AttentionReason
  <2>2. Complains
    BY <1>4, <2>1, RaisedComplains
  <2>3. drv' \in DriverState /\ drv'.pc = "retry" /\ drv'.recovering = drv.recovering
    BY <1>2, <1>4, GoingTo DEF Then
  <2> QED
    BY <1>1, <2>2, <2>3, DriverRaisesKeeps
<1>5. CASE /\ surface = "missing" /\ parent' = [parent EXCEPT !.resources = None] /\ Then("end")
  <2>1. drv' \in DriverState /\ drv'.pc = "end" /\ drv'.recovering = drv.recovering
    BY <1>2, <1>5, GoingTo DEF Then
  <2>2. UNCHANGED <<outbox, stream, marker, worker, now, crashes>> /\ HoldsAnswer' /\ WorkerDone'
    BY <1>1, <2>1, DriverStepKeeps
  <2>3. /\ WellFormed(parent') /\ parent'.resources = None
        /\ parent'.state = parent.state /\ parent'.effect_id = parent.effect_id
        /\ parent'.pending_effect = parent.pending_effect
    BY <1>3, <1>5, ReleasedKeeps
  <2>4. TypeOK'
    BY <1>1, <2>1, <2>2, <2>3 DEF IInv, TypeOK
  <2>5. ExitHasResult' /\ SessionPath' /\ Gone' /\ RoundPath' /\ GateAnswered' /\ NothingStranded'
    BY <1>1, <1>5, <2>1, <2>2, <2>3 DEF IInv, ExitHasResult, SessionPath, Gone, RoundPath,
      GateAnswered, NothingStranded, ResultReady, OwnersGone, Ending, Exit, Closing
  <2> QED
    BY <2>2, <2>4, <2>5 DEF IInv
<1> QED
  BY <1>4, <1>5 DEF Release

-----------------------------------------------------------------------------
(* The invariant holds.                                                    *)

\* The session and its round, as they are set up.
LEMMA SessionAndRound ==
  /\ WellFormed(Session) /\ WellFormed(Round)
  /\ Session.state = "awaiting-callback" /\ Session.effect_id = "start-provider"
  /\ Session.pending_effect = None
  /\ Round.state = "awaiting-callback" /\ Round.accepted_callback = None
  /\ Round.pending_effect = None
<1> DEFINE new == NewRecord(Unlimited)
           res == CHOOSE r \in Resource : TRUE
<1>1. Unlimited \in [Meter -> Nat] /\ \A m \in Meter : Unlimited[m] = 1
  BY DEF Unlimited
<1>2. /\ {"created", "awaiting-callback"} \subseteq States
      /\ {"none", "succeeded"} \subseteq Outcome
      /\ {"attempt", "tokens_used"} \subseteq Meter
  BY DEF States, Outcome, Meter
<1>3. /\ res \in Resource /\ "start-provider" \in Effect
      /\ TimeBudget \in Nat /\ TimeBudget # 0
  BY RoundAssumption
<1>4. "start-provider" # None
  BY <1>3, NoneIsOther
<1>5. /\ new \in Record /\ new.limit = Unlimited
      /\ \A m \in Meter : new.used[m] = 0
      /\ new.attention_reason = None /\ new.resume_state = None
      /\ new.pending_effect = None /\ new.effect_id = None /\ new.effect_outcome = "none"
      /\ new.accepted_callback = None /\ new.used \in [Meter -> Nat]
  <2>1. [m \in Meter |-> 0] \in [Meter -> Nat] /\ 0 \in Nat
    OBVIOUS
  <2> QED
    BY <1>1, <1>2, <2>1 DEF NewRecord, Record
<1> HIDE DEF new, res
<1>6. /\ Round \in Record /\ Round.limit = Unlimited /\ Round.used = new.used
      /\ Round.state = "awaiting-callback"
      /\ Round.attention_reason = None /\ Round.resume_state = None
      /\ Round.pending_effect = None /\ Round.effect_id = None
      /\ Round.effect_outcome = "none" /\ Round.accepted_callback = None
  BY <1>2, <1>5 DEF Round, Record, new
<1>7. /\ Session \in Record /\ Session.limit = Unlimited /\ Session.used = new.used
      /\ Session.state = "awaiting-callback"
      /\ Session.attention_reason = None /\ Session.resume_state = None
      /\ Session.pending_effect = None /\ Session.effect_id = "start-provider"
      /\ Session.effect_outcome = "succeeded"
  <2>1. Session = [new EXCEPT !.state = "awaiting-callback", !.effect_id = "start-provider",
                     !.effect_outcome = "succeeded", !.deadline_at = TimeBudget,
                     !.resources = res]
    BY DEF Session, new, res
  <2> QED
    BY <1>2, <1>3, <1>5, <2>1 DEF Record
<1>8. WellFormed(Round)
  BY <1>1, <1>2, <1>5, <1>6
  DEF WellFormed, Constructible, Explained, SettledAtEnd, UnspentUntilConfigured, TERMINAL
<1>9. WellFormed(Session)
  BY <1>1, <1>2, <1>4, <1>5, <1>7
  DEF WellFormed, Constructible, Explained, SettledAtEnd, UnspentUntilConfigured, TERMINAL
<1> QED
  BY <1>6, <1>7, <1>8, <1>9

\* The invariant holds when the reviewer has been started.
LEMMA InitHolds == Init => IInv
<1> SUFFICES ASSUME Init PROVE IInv
  OBVIOUS
<1>1. TypeOK
  <2>1. None \in Answer
    BY DEF Answer
  <2>2. worker \in WorkerState
    BY <2>1 DEF Init, WorkerState, WorkerPC
  <2>3. drv \in DriverState
    BY <2>1 DEF Init, DriverState, DriverPC
  <2> QED
    BY <2>1, <2>2, <2>3, SessionAndRound DEF Init, TypeOK
<1>2. HoldsAnswer /\ WorkerDone /\ ExitHasResult /\ SessionPath /\ Gone /\ RoundPath
      /\ GateAnswered /\ NothingStranded
  BY SessionAndRound DEF Init, HoldsAnswer, WorkerDone, ExitHasResult, SessionPath, Gone,
    RoundPath, GateAnswered, NothingStranded, Taking, Ending, Exit, Closing, TERMINAL
<1> QED
  BY <1>1, <1>2 DEF IInv

\* A step that changes nothing.
LEMMA StutterKeeps ==
  ASSUME IInv, UNCHANGED roundVars
  PROVE  IInv'
<1>1. UNCHANGED <<parent, child, outbox, provider, surface, stream, marker, gate, worker, drv,
                  now, crashes>>
  BY DEF roundVars, records, world, bounds
<1>2. TypeOK'
  BY <1>1 DEF IInv, TypeOK
<1> QED
  BY <1>1, <1>2 DEF IInv, HoldsAnswer, WorkerDone, ExitHasResult, SessionPath, Gone,
    RoundPath, GateAnswered, NothingStranded, ResultReady, OwnersGone

\* Every step keeps it.
LEMMA StepKeeps == IInv /\ [Next]_roundVars => IInv'
<1> SUFFICES ASSUME IInv, [Next]_roundVars PROVE IInv'
  OBVIOUS
<1>1. CASE \E a \in Callback : Publish(a)
  BY <1>1, PublishKeeps
<1>2. CASE ProviderExits \/ Tick
  BY <1>2, EnvironmentKeeps
<1>3. CASE Crash
  BY <1>3, CrashKeeps
<1>4. CASE WorkerStep
  BY <1>4, WorkerLooksKeeps, RecordResultKeeps, WorkerRaisesKeeps, IngestKeeps, RearmKeeps
  DEF WorkerStep
<1>5. CASE DriverStep
  BY <1>5, StartKeeps, WaitKeeps, EffectKeeps, SettleKeeps, AcceptRoundKeeps, CloseRoundKeeps,
    ClosedKeeps, RequestExitKeeps, MoveToExitKeeps, BeginExitKeeps, ResolvesKeeps, LeavingKeeps,
    CleanupKeeps, ReleaseKeeps
  DEF DriverStep
<1>6. CASE UNCHANGED roundVars
  BY <1>6, StutterKeeps
<1> QED
  BY <1>1, <1>2, <1>3, <1>4, <1>5, <1>6 DEF Next

\* The inductive invariant is one.
THEOREM Invariance == Spec => []IInv
  BY InitHolds, StepKeeps, PTL DEF Spec

-----------------------------------------------------------------------------
(* The invariants a reader knows.                                          *)

\* Both records stay readable and explained, whatever the processes do.
THEOREM TypeCorrect == Spec => []RoundTypeOK
<1>1. IInv => RoundTypeOK
  BY DEF IInv, TypeOK, RoundTypeOK, WellFormed, WorkerState, DriverState, Answer
<1> QED
  BY <1>1, Invariance, PTL

\* A session that is over has no process, no surface and no resources left.
THEOREM FinishedIsFree == Spec => []FinishedOwnsNothing
<1>1. IInv => FinishedOwnsNothing
  BY DEF IInv, SessionPath, Gone, FinishedOwnsNothing, OwnersGone, TERMINAL
<1> QED
  BY <1>1, Invariance, PTL

\* An attempt is answered only by what was accepted and recorded.
THEOREM AnsweredIsClosed == Spec => []AnsweredAttemptIsClosed
<1>1. IInv => AnsweredAttemptIsClosed
  BY DEF IInv, GateAnswered, ExitHasResult, ResultReady, AnsweredAttemptIsClosed, TERMINAL
<1> QED
  BY <1>1, Invariance, PTL

\* Only a crash leaves a shutdown half done.
THEOREM CrashesStrand == Spec => []OnlyACrashStrands
<1>1. IInv => OnlyACrashStrands
  BY DEF IInv, NothingStranded, OnlyACrashStrands, Exit
<1> QED
  BY <1>1, Invariance, PTL

-----------------------------------------------------------------------------
(* What a step may never do.                                               *)

\* The answer of the round changes in one way: accept_callback takes the first.
LEMMA AnswerStep ==
  ASSUME IInv, [Next]_roundVars
  PROVE  \/ child'.accepted_callback = child.accepted_callback
         \/ /\ child.accepted_callback = None /\ ~Late
            /\ parent' = parent /\ marker' = marker
            /\ child'.accepted_callback \in Callback
<1>1. ASSUME NEW a \in Callback, AcceptCallback(a), marker' = marker
      PROVE  \/ child'.accepted_callback = child.accepted_callback
             \/ /\ child.accepted_callback = None /\ ~Late
                /\ parent' = parent /\ marker' = marker
                /\ child'.accepted_callback \in Callback
  <2>1. CASE Acceptance(a) = "accepted"
    <3>1. ~Late /\ child.accepted_callback = None
      BY <2>1 DEF Acceptance
    <3> QED
      BY <1>1, <2>1, <3>1, AcceptWrites
  <2>2. CASE Acceptance(a) # "accepted"
    BY <1>1, <2>2 DEF AcceptCallback
  <2> QED
    BY <2>1, <2>2
<1>2. CASE Ingest
  <2>1. worker.held \in Callback
    BY <1>2 DEF IInv, TypeOK, Ingest, HoldsAnswer, Taking, WorkerState, Answer
  <2> QED
    BY <1>1, <1>2, <2>1 DEF Ingest
<1>3. CASE AcceptRound
  <2>1. drv.held \in Callback
    BY <1>3 DEF IInv, TypeOK, AcceptRound, At, HoldsAnswer, DriverState, Answer
  <2> QED
    BY <1>1, <1>3, <2>1 DEF AcceptRound, DriverKeeps
<1>4. CASE CloseRound
  <2>1. CASE child' = Go(child, drv.pc, None) /\ MayMove(child, drv.pc)
    <3>1. /\ drv.pc \in States /\ drv.pc # "attention-required" /\ WellFormed(child)
          /\ None \in AttentionReason \cup {None}
      BY <1>4 DEF CloseRound, States, TERMINAL, IInv, TypeOK
    <3> DEFINE s == drv.pc
    <3>2. s \in States /\ MayMove(child, s) /\ ((s = "attention-required") <=> (None # None))
      BY <2>1, <3>1
    <3>3. child' = Go(child, s, None)
      BY <2>1
    <3> HIDE DEF s
    <3> QED
      BY <3>1, <3>2, <3>3, GoKeeps DEF Keeps
  <2>2. CASE child' = child
    BY <2>2
  <2> QED
    BY <1>4, <2>1, <2>2 DEF CloseRound
<1>5. CASE WorkerStep /\ ~Ingest
  BY <1>5 DEF WorkerStep, Observe, Stabilize, ReadAnswer, Prepare, Rearm, RecordResult, Conclude,
    Complain, NoticeDeadline, Expire, ObserveExit, Drain, Leave, records
<1>6. CASE DriverStep /\ ~AcceptRound /\ ~CloseRound
  BY <1>6 DEF DriverStep, Collect, Recover, Closed, AwaitResult, GiveUp, RequestExit, MoveToExit,
    BeginExit, SignalProvider, ResolveExit, Exiting, Retry, Cleanup, CloseSurface, ResolveClose,
    Release, End, Settle, records
<1>7. CASE (\E a \in Callback : Publish(a)) \/ ProviderExits \/ Tick \/ Crash
  BY <1>7 DEF Publish, ProviderExits, Tick, Crash, records
<1>8. CASE UNCHANGED roundVars
  BY <1>8 DEF roundVars, records
<1> QED
  BY <1>2, <1>3, <1>4, <1>5, <1>6, <1>7, <1>8 DEF Next

\* No answer slips into a wait that has run out.
THEOREM WaitsStayClosed == Spec => NoAnswerInAClosedWait
<1>1. IInv /\ [Next]_roundVars =>
        [child'.accepted_callback # child.accepted_callback =>
           now < parent.deadline_at /\ parent.attention_reason # "callback-timeout"]_roundVars
  <2> SUFFICES ASSUME IInv, [Next]_roundVars,
                      child'.accepted_callback # child.accepted_callback
               PROVE  now < parent.deadline_at /\ parent.attention_reason # "callback-timeout"
    OBVIOUS
  <2>1. child.accepted_callback = None /\ ~Late
    BY AnswerStep
  <2>2. parent.state \notin TERMINAL
    BY <2>1 DEF IInv, ExitHasResult, ResultReady
  <2>3. parent.deadline_at \in Nat /\ now \in Nat
    BY DEF IInv, TypeOK, WellFormed, Record
  <2>4. parent.attention_reason = "callback-timeout" => parent.state = "attention-required"
    <3>1. "callback-timeout" \in AttentionReason
      BY DEF AttentionReason
    <3>2. "callback-timeout" # None
      BY <3>1, NoneIsOther
    <3> QED
      BY <3>2 DEF IInv, TypeOK, WellFormed, Explained
  <2> QED
    BY <2>1, <2>2, <2>3, <2>4 DEF Late, TimedOut
<1> QED
  BY <1>1, Invariance, PTL DEF Spec, NoAnswerInAClosedWait

\* Nobody is asked to exit before the accepted answer is recorded.
THEOREM ResultComesFirst == Spec => RecordedBeforeExit
<1>1. IInv /\ [Next]_roundVars =>
        [provider' = "asked" /\ provider # "asked" =>
           child.accepted_callback # None /\ stream.result = child.accepted_callback]_roundVars
  <2> SUFFICES ASSUME IInv, [Next]_roundVars, provider' = "asked", provider # "asked"
               PROVE  child.accepted_callback # None /\ stream.result = child.accepted_callback
    OBVIOUS
  <2>1. CASE SignalProvider
    BY <2>1 DEF SignalProvider, At, IInv, ExitHasResult, ResultReady, Ending, Exit
  <2>2. CASE WorkerStep
    BY <2>2 DEF WorkerStep, Observe, Stabilize, ReadAnswer, Ingest, Prepare, Rearm, RecordResult,
      Conclude, Complain, NoticeDeadline, Expire, ObserveExit, Drain, Leave, WorkerKeeps, world
  <2>3. CASE DriverStep /\ ~SignalProvider
    BY <2>3 DEF DriverStep, Collect, Recover, AcceptRound, CloseRound, Closed, AwaitResult, GiveUp,
      RequestExit, MoveToExit, BeginExit, ResolveExit, Exiting, Retry, Cleanup, CloseSurface,
      ResolveClose, Release, End, Settle
  <2>4. CASE (\E a \in Callback : Publish(a)) \/ ProviderExits \/ Tick \/ Crash
    BY <2>4 DEF Publish, ProviderExits, Tick, Crash, world
  <2>5. CASE UNCHANGED roundVars
    BY <2>5 DEF roundVars, world
  <2> QED
    BY <2>1, <2>2, <2>3, <2>4, <2>5 DEF Next
<1> QED
  BY <1>1, Invariance, PTL DEF Spec, RecordedBeforeExit

-----------------------------------------------------------------------------
(* The round implements the lane.                                          *)

\* The parent stays at its stage, leaves, or is gone.
Idles ==
  /\ parent'.effect_id = parent.effect_id
  /\ parent'.state = "complete" <=> parent.state = "complete"
  /\ child.accepted_callback = None /\ TimedOut(parent) => TimedOut(parent') \/ marker # None

Begins ==
  /\ child.accepted_callback # None /\ parent'.effect_id # "start-provider"
  /\ parent.state # "complete" /\ parent'.state # "complete"

Ends ==
  /\ child.accepted_callback # None /\ parent.effect_id # "start-provider"
  /\ parent'.effect_id = parent.effect_id
  /\ parent.state # "complete" /\ parent'.state = "complete"

\* Asking for attention changes no stage.
LEMMA RaiseIdles ==
  ASSUME IInv, NEW reason \in AttentionReason, parent' = Raised(parent, reason)
  PROVE  Idles
<1>1. WellFormed(parent)
  BY DEF IInv, TypeOK
<1>2. /\ Keeps(parent, parent')
      /\ parent'.state = IF parent.state \in TERMINAL THEN parent.state ELSE "attention-required"
      /\ parent'.attention_reason =
           IF parent.state \in TERMINAL \cup {"attention-required"}
           THEN parent.attention_reason ELSE reason
  BY <1>1, RaisedKeeps
<1> QED
  BY <1>2 DEF Idles, Keeps, TimedOut, TERMINAL

\* Every step of worker and driver does one of the three to the parent.
LEMMA ParentStep ==
  ASSUME IInv, [Next]_roundVars
  PROVE  Idles \/ Begins \/ Ends
<1>1. WellFormed(parent)
  BY DEF IInv, TypeOK
<1>2. {"callback-timeout", "callback-invalid", "cleanup-incomplete", "attention-required"}
        \subseteq AttentionReason
  BY DEF AttentionReason
<1>3. CASE parent' = parent
  BY <1>3 DEF Idles
<1>4. ASSUME NEW reason \in {"callback-timeout", "callback-invalid", "cleanup-incomplete",
                             "attention-required"},
             parent' = Raised(parent, reason)
      PROVE  Idles
  BY <1>2, <1>4, RaiseIdles
<1>5. CASE Ingest \/ AcceptRound
  BY <1>3, <1>4, <1>5 DEF Ingest, AcceptRound, AcceptCallback
<1>6. CASE Complain \/ Expire \/ ObserveExit
  BY <1>3, <1>4, <1>6 DEF Complain, Expire, ObserveExit
<1>7. CASE Closed \/ RequestExit
  BY <1>3, <1>4, <1>7 DEF Closed, RequestExit
<1>8. CASE Rearm
  <2>1. marker # None /\ parent.state # "complete"
    BY <1>8 DEF IInv, HoldsAnswer, Rearm, WorkerDone, ExitHasResult, ResultReady, TERMINAL, Taking
  <2>2. CASE Rearmable /\ parent' = Rearmed(parent)
    <3>1. now \in Nat
      BY DEF IInv, TypeOK
    <3>2. parent'.effect_id = parent.effect_id /\ parent'.state = "awaiting-callback"
      BY <1>1, <2>2, <3>1, RearmedKeeps
    <3> QED
      BY <2>1, <3>2 DEF Idles
  <2> QED
    BY <1>3, <1>8, <2>2 DEF Rearm
<1>9. CASE MoveToExit
  <2>1. CASE parent' = Go(parent, drv.to, None) /\ MayMove(parent, drv.to)
    <3> DEFINE s == drv.to
    <3>1. /\ s \in {"finalizing", "cancelling"} /\ child.accepted_callback # None
          /\ parent.state # "complete"
      BY <1>9 DEF MoveToExit, At, IInv, SessionPath, ExitHasResult, ResultReady, Ending
    <3>2. s \in States /\ ((s = "attention-required") <=> (None # None))
          /\ None \in AttentionReason \cup {None}
      BY <3>1 DEF States
    <3>3. MayMove(parent, s) /\ parent' = Go(parent, s, None)
      BY <2>1
    <3> HIDE DEF s
    <3>4. parent'.effect_id = parent.effect_id /\ parent'.state = s
      BY <1>1, <3>2, <3>3, GoKeeps DEF Keeps
    <3> QED
      BY <3>1, <3>4 DEF Idles
  <2> QED
    BY <1>3, <1>9, <2>1 DEF MoveToExit
<1>10. CASE BeginExit
  <2>1. CASE parent.pending_effect = None /\ parent' = Plain(Begun(parent, "request-exit"))
    <3>1. "request-exit" \in Effect
      BY RoundAssumption
    <3>2. /\ parent.state \notin TERMINAL /\ parent.state # "complete"
          /\ child.accepted_callback # None
      BY <1>10 DEF BeginExit, At, IInv, SessionPath, ExitHasResult, ResultReady, Ending, Exit, TERMINAL
    <3>3. parent'.effect_id = "request-exit" /\ parent'.state = parent.state
      BY <1>1, <2>1, <3>1, <3>2, BegunKeeps
    <3> QED
      BY <3>2, <3>3 DEF Begins
  <2> QED
    BY <1>3, <1>10, <2>1 DEF BeginExit
<1>11. CASE ResolveExit \/ ResolveClose
  <2>1. parent' = Plain(Settled(parent, "succeeded")) /\ child.accepted_callback # None
    BY <1>11 DEF ResolveExit, ResolveClose, At, IInv, ExitHasResult, ResultReady, Ending, Exit, Closing
  <2>2. parent'.effect_id = parent.effect_id /\ parent'.state = parent.state
    BY <1>1, <2>1, SettledKeeps
  <2> QED
    BY <2>1, <2>2 DEF Idles
<1>12. CASE Exiting \/ End
  <2>1. PICK s \in {"exiting", "complete"} :
          /\ s = "exiting" <=> drv.pc = "leave"
          /\ s = "complete" <=> drv.pc = "end"
          /\ (parent' = Go(parent, s, None) /\ MayMove(parent, s)) \/ parent' = parent
    <3>1. CASE Exiting
      BY <3>1 DEF Exiting, At
    <3>2. CASE End
      BY <3>2 DEF End, At
    <3> QED
      BY <1>12, <3>1, <3>2
  <2>2. drv.pc \in {"leave", "end"}
    BY <2>1
  <2>3. CASE parent' = Go(parent, s, None) /\ MayMove(parent, s)
    <3>1. /\ s \in States /\ ((s = "attention-required") <=> (None # None))
          /\ None \in AttentionReason \cup {None}
      BY DEF States, TERMINAL
    <3>2. parent'.effect_id = parent.effect_id /\ parent'.state = s
      BY <1>1, <2>3, <3>1, GoKeeps DEF Keeps
    <3>3. /\ parent.effect_id # "start-provider" /\ parent.state # "complete"
          /\ child.accepted_callback # None
      BY <2>2 DEF IInv, SessionPath, ExitHasResult, ResultReady, Ending, Exit, Closing
    <3> QED
      BY <2>1, <3>2, <3>3 DEF Idles, Ends
  <2> QED
    BY <1>3, <2>1, <2>3
<1>13. CASE Cleanup
  <2>1. CASE /\ parent.state = "exiting" /\ parent.pending_effect = None
             /\ parent' = Plain(Begun(parent, "close-surface"))
    <3>1. "close-surface" \in Effect
      BY RoundAssumption
    <3>2. child.accepted_callback # None /\ parent.state \notin TERMINAL
      BY <1>13, <2>1 DEF Cleanup, At, IInv, ExitHasResult, ResultReady, Ending, TERMINAL
    <3>3. parent'.effect_id = "close-surface" /\ parent'.state = parent.state
      BY <1>1, <2>1, <3>1, <3>2, BegunKeeps
    <3> QED
      BY <2>1, <3>2, <3>3 DEF Begins
  <2> QED
    BY <1>3, <1>4, <1>13, <2>1 DEF Cleanup
<1>14. CASE Release
  <2>1. CASE parent' = [parent EXCEPT !.resources = None]
    <3>1. child.accepted_callback # None
      BY <1>14 DEF Release, At, IInv, ExitHasResult, ResultReady, Ending, Closing
    <3>2. parent'.effect_id = parent.effect_id /\ parent'.state = parent.state
      BY <1>1, <2>1, ReleasedKeeps
    <3> QED
      BY <3>1, <3>2 DEF Idles
  <2> QED
    BY <1>4, <1>14, <2>1 DEF Release
<1>15. CASE \/ Observe \/ Stabilize \/ ReadAnswer \/ Prepare \/ RecordResult \/ Conclude
            \/ NoticeDeadline \/ Drain \/ Leave
  <2>1. parent' = parent
    BY <1>15 DEF Observe, Stabilize, ReadAnswer, Prepare, RecordResult, Conclude, NoticeDeadline,
      Drain, Leave, records
  <2> QED
    BY <1>3, <2>1
<1>16. CASE \/ Collect \/ Recover \/ CloseRound \/ AwaitResult \/ GiveUp \/ SignalProvider \/ Retry
            \/ CloseSurface \/ Settle
  <2>1. parent' = parent
    BY <1>16 DEF Collect, Recover, CloseRound, AwaitResult, GiveUp, SignalProvider, Retry,
      CloseSurface, Settle, records
  <2> QED
    BY <1>3, <2>1
<1>17. CASE \/ \E a \in Callback : Publish(a)
            \/ ProviderExits \/ Tick \/ Crash \/ UNCHANGED roundVars
  <2>1. parent' = parent
    BY <1>17 DEF Publish, ProviderExits, Tick, Crash, roundVars, records
  <2> QED
    BY <1>3, <2>1
<1> QED
  BY <1>5, <1>6, <1>7, <1>8, <1>9, <1>10, <1>11, <1>12, <1>13, <1>14, <1>15, <1>16, <1>17
  DEF Next, WorkerStep, DriverStep

\* The marker is written over a wait that timed out, and never taken back.
LEMMA MarkerStep ==
  ASSUME IInv, [Next]_roundVars
  PROVE  marker' = marker \/ (marker' # None /\ (marker # None \/ TimedOut(parent)))
<1>1. CASE Prepare
  BY <1>1 DEF Prepare, IInv, HoldsAnswer, Taking
<1>2. CASE WorkerStep /\ ~Prepare
  BY <1>2 DEF WorkerStep, Observe, Stabilize, ReadAnswer, Ingest, Rearm, RecordResult, Conclude,
    Complain, NoticeDeadline, Expire, ObserveExit, Drain, Leave
<1>3. CASE DriverStep
  BY <1>3 DEF DriverStep, Collect, Recover, AcceptRound, CloseRound, Closed, AwaitResult, GiveUp,
    RequestExit, MoveToExit, BeginExit, SignalProvider, ResolveExit, Exiting, Retry, Cleanup,
    CloseSurface, ResolveClose, Release, End, Settle, DriverKeeps
<1>4. CASE \/ \E a \in Callback : Publish(a)
           \/ ProviderExits \/ Tick \/ Crash \/ UNCHANGED roundVars
  BY <1>4 DEF Publish, ProviderExits, Tick, Crash, roundVars
<1> QED
  BY <1>1, <1>2, <1>3, <1>4 DEF Next

\* Records, file and marker together are one lane.
THEOREM LaneCorrect == Spec => LaneImplemented
<1>1. Init => Lane!Init
  BY SessionAndRound DEF Init, Lane!Init, Stage, TimedOut
<1>2. IInv /\ [Next]_roundVars => [Lane!Next]_(Lane!laneVars)
  <2> SUFFICES ASSUME IInv, [Next]_roundVars PROVE [Lane!Next]_(Lane!laneVars)
    OBVIOUS
  <2> DEFINE answer == child.accepted_callback
             answerNext == child'.accepted_callback
  <2>1. /\ answer = None => parent.effect_id = "start-provider" /\ parent.state # "complete"
        /\ answerNext = None => parent'.effect_id = "start-provider" /\ parent'.state # "complete"
    <3>1. IInv'
      BY StepKeeps
    <3> QED
      BY <3>1 DEF IInv, ExitHasResult, ResultReady, TERMINAL
  <2>2. CASE answerNext # answer
    <3>1. answer = None /\ parent' = parent /\ answerNext \in Callback
      BY <2>2, AnswerStep
    <3>2. answerNext # None
      BY <3>1, NoneIsOther
    <3>3. Stage \in {"waiting", "timed-out"} /\ Stage' = "waiting"
      BY <2>1, <3>1, <3>2 DEF Stage
    <3> QED
      BY <3>1, <3>3 DEF Lane!Next, Lane!Take
  <2>3. CASE answerNext = answer /\ answer = None
    <3>1. Idles
      BY <2>3, ParentStep DEF Begins, Ends
    <3>2. TimedOut(parent) \/ marker # None => TimedOut(parent') \/ marker' # None
      BY <2>3, <3>1, MarkerStep DEF Idles
    <3>3. /\ Stage = IF TimedOut(parent) \/ marker # None THEN "timed-out" ELSE "waiting"
          /\ Stage' = IF TimedOut(parent') \/ marker' # None THEN "timed-out" ELSE "waiting"
      BY <2>1, <2>3 DEF Stage, TimedOut
    <3> QED
      BY <2>3, <3>2, <3>3 DEF Lane!Next, Lane!WaitRunsOut, Lane!laneVars
  <2>4. CASE answerNext = answer /\ answer # None
    <3>1. /\ Stage = IF parent.state = "complete" THEN "gone"
                     ELSE IF parent.effect_id # "start-provider" THEN "leaving" ELSE "waiting"
          /\ Stage' = IF parent'.state = "complete" THEN "gone"
                      ELSE IF parent'.effect_id # "start-provider" THEN "leaving" ELSE "waiting"
      BY <2>4 DEF Stage
    <3>2. CASE Idles
      BY <2>4, <3>1, <3>2 DEF Idles, Lane!laneVars
    <3>3. CASE Begins
      BY <2>4, <3>1, <3>3 DEF Begins, Lane!Next, Lane!ShutDown, Lane!laneVars
    <3>4. CASE Ends
      BY <2>4, <3>1, <3>4 DEF Ends, Lane!Next, Lane!Go, Lane!laneVars
    <3> QED
      BY <3>2, <3>3, <3>4, ParentStep
  <2> QED
    BY <2>2, <2>3, <2>4
<1> QED
  BY <1>1, <1>2, Invariance, PTL DEF Spec, LaneImplemented, Lane!Spec
=============================================================================
