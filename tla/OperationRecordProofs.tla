------------------------ MODULE OperationRecordProofs ------------------------
(***************************************************************************)
(* What the pure transitions of OperationRecord return: from a well-formed *)
(* record, the same record or a well-formed successor of it.  The          *)
(* components' proofs cite these lemmas for each of their store calls.     *)
(***************************************************************************)
EXTENDS OperationRecord, TLAPS

\* Counters are charged only under a configured budget.
UnspentUntilConfigured(r) == r.deadline_at = 0 => \A m \in Meter : r.used[m] = 0

\* The standing invariant of a stored record.
WellFormed(r) ==
  /\ r \in Record
  /\ Constructible(r)
  /\ Explained(r)
  /\ SettledAtEnd(r)
  /\ UnspentUntilConfigured(r)

\* A terminal record stays in its state, unless it is the untouched round.
KeepsEnd(r, s) ==
  r.state \in TERMINAL => s = r.state \/ (Untouched(r) /\ s = "awaiting-callback")

KeepsAnswer(r, answer) == r.accepted_callback # None => answer = r.accepted_callback

\* The later record t has taken a new revision and kept a configured limit, a
\* terminal state, an accepted answer and, while an effect stays pending, the
\* place of the operation.
Successor(r, t) ==
  /\ WellFormed(t)
  /\ t.revision > r.revision
  /\ r.deadline_at # 0 => t.limit = r.limit
  /\ KeepsEnd(r, t.state)
  /\ KeepsAnswer(r, t.accepted_callback)
  /\ r.pending_effect # None /\ t.pending_effect = r.pending_effect
       => t.state \in {r.state, "attention-required"}

\* The two shapes of update, named so that the lemmas about them can be cited.
WithState(r, s, reason, resume) ==
  [r EXCEPT !.state = s, !.revision = @ + 1, !.attention_reason = reason,
            !.resume_state = resume]

WithEffect(r, p, e, outcome) ==
  [r EXCEPT !.pending_effect = p, !.effect_id = e, !.effect_outcome = outcome,
            !.revision = @ + 1]

\* The fields of a record, each with its type.
LEMMA Fields ==
  ASSUME NEW r \in Record
  PROVE  /\ r.state \in States /\ r.revision \in Nat
         /\ r.attention_reason \in AttentionReason \cup {None}
         /\ r.resume_state \in States \cup {None}
         /\ r.pending_effect \in Effect \cup {None} /\ r.effect_id \in Effect \cup {None}
         /\ r.effect_outcome \in Outcome
         /\ r.resources \in Resource \cup {None}
         /\ r.accepted_callback \in Callback \cup {None}
         /\ r.used \in [Meter -> Nat] /\ r.limit \in [Meter -> Nat]
         /\ r.deadline_at \in Nat
  BY DEF Record

\* A record whose budget is untouched is as spent as it was.
LEMMA SameBudget ==
  ASSUME NEW r, WellFormed(r), NEW t, t.used = r.used, t.deadline_at = r.deadline_at
  PROVE  UnspentUntilConfigured(t)
  BY DEF WellFormed, UnspentUntilConfigured

\* A move of the state field, with its attention fields and a new revision.
LEMMA StateUpdate ==
  ASSUME NEW r \in Record, NEW s \in States, NEW reason \in AttentionReason \cup {None},
         NEW resume \in States \cup {None}, NEW t,
         t = WithState(r, s, reason, resume)
  PROVE  /\ t \in Record
         /\ t.state = s /\ t.attention_reason = reason /\ t.resume_state = resume
         /\ t.revision = r.revision + 1
         /\ t.pending_effect = r.pending_effect /\ t.effect_id = r.effect_id
         /\ t.effect_outcome = r.effect_outcome
         /\ t.used = r.used /\ t.limit = r.limit /\ t.deadline_at = r.deadline_at
         /\ t.resources = r.resources /\ t.accepted_callback = r.accepted_callback
<1>1. t.revision = r.revision + 1 /\ t.revision \in Nat
  BY DEF Record, WithState
<1>2. t = [r EXCEPT !.state = s, !.revision = t.revision, !.attention_reason = reason,
                    !.resume_state = resume]
  BY <1>1 DEF WithState
<1>3. t \in Record
  <2>1. \A q \in Record : [q EXCEPT !.state = s] \in Record
    BY Zenon DEF Record
  <2>2. \A q \in Record : \A n \in Nat : [q EXCEPT !.revision = n] \in Record
    BY Zenon DEF Record
  <2>3. \A q \in Record : [q EXCEPT !.attention_reason = reason] \in Record
    BY Zenon DEF Record
  <2>4. \A q \in Record : [q EXCEPT !.resume_state = resume] \in Record
    BY Zenon DEF Record
  <2> DEFINE moved == [r EXCEPT !.state = s]
             later == [moved EXCEPT !.revision = t.revision]
             asking == [later EXCEPT !.attention_reason = reason]
  <2>5. moved \in Record
    BY <2>1, Zenon
  <2>6. later \in Record
    BY <1>1, <2>2, <2>5, Zenon
  <2>7. asking \in Record
    BY <2>3, <2>6, Zenon
  <2>8. [asking EXCEPT !.resume_state = resume] \in Record
    BY <2>4, <2>7, Zenon
  <2> QED
    BY <1>2, <2>8
<1>4. t.state = s /\ t.attention_reason = reason /\ t.resume_state = resume
  BY DEF Record, WithState
<1>5. /\ t.pending_effect = r.pending_effect /\ t.effect_id = r.effect_id
      /\ t.effect_outcome = r.effect_outcome
  BY DEF Record, WithState
<1>6. t.used = r.used /\ t.limit = r.limit /\ t.deadline_at = r.deadline_at
  BY DEF Record, WithState
<1>7. t.resources = r.resources /\ t.accepted_callback = r.accepted_callback
  BY DEF Record, WithState
<1> QED
  BY <1>1, <1>3, <1>4, <1>5, <1>6, <1>7

\* Rewriting the three effect fields changes those fields and the revision only.
LEMMA EffectUpdate ==
  ASSUME NEW r \in Record, NEW p \in Effect \cup {None}, NEW e \in Effect \cup {None},
         NEW outcome \in Outcome, NEW t,
         t = WithEffect(r, p, e, outcome)
  PROVE  /\ t \in Record
         /\ t.pending_effect = p /\ t.effect_id = e /\ t.effect_outcome = outcome
         /\ t.revision = r.revision + 1
         /\ t.state = r.state /\ t.attention_reason = r.attention_reason
         /\ t.resume_state = r.resume_state
         /\ t.used = r.used /\ t.limit = r.limit /\ t.deadline_at = r.deadline_at
         /\ t.resources = r.resources /\ t.accepted_callback = r.accepted_callback
<1>1. t.revision = r.revision + 1 /\ t.revision \in Nat
  BY DEF Record, WithEffect
<1>2. t = [r EXCEPT !.pending_effect = p, !.effect_id = e, !.effect_outcome = outcome,
                    !.revision = t.revision]
  BY <1>1 DEF WithEffect
<1>3. t \in Record
  <2>1. \A q \in Record : [q EXCEPT !.pending_effect = p] \in Record
    BY Zenon DEF Record
  <2>2. \A q \in Record : [q EXCEPT !.effect_id = e] \in Record
    BY Zenon DEF Record
  <2>3. \A q \in Record : [q EXCEPT !.effect_outcome = outcome] \in Record
    BY Zenon DEF Record
  <2>4. \A q \in Record : \A n \in Nat : [q EXCEPT !.revision = n] \in Record
    BY Zenon DEF Record
  <2> DEFINE pending == [r EXCEPT !.pending_effect = p]
             named == [pending EXCEPT !.effect_id = e]
             judged == [named EXCEPT !.effect_outcome = outcome]
  <2>5. pending \in Record
    BY <2>1, Zenon
  <2>6. named \in Record
    BY <2>2, <2>5, Zenon
  <2>7. judged \in Record
    BY <2>3, <2>6, Zenon
  <2>8. [judged EXCEPT !.revision = t.revision] \in Record
    BY <1>1, <2>4, <2>7, Zenon
  <2> QED
    BY <1>2, <2>8
<1>4. t.pending_effect = p /\ t.effect_id = e /\ t.effect_outcome = outcome
  BY DEF Record, WithEffect
<1>5. /\ t.state = r.state /\ t.attention_reason = r.attention_reason
      /\ t.resume_state = r.resume_state
  BY DEF Record, WithEffect
<1>6. t.used = r.used /\ t.limit = r.limit /\ t.deadline_at = r.deadline_at
  BY DEF Record, WithEffect
<1>7. t.resources = r.resources /\ t.accepted_callback = r.accepted_callback
  BY DEF Record, WithEffect
<1> QED
  BY <1>1, <1>3, <1>4, <1>5, <1>6, <1>7

-----------------------------------------------------------------------------
\* A transition the table allows returns the record or a successor of it.
LEMMA MovedBuilds ==
  ASSUME NEW r, WellFormed(r), NEW s \in States, MayMove(r, s),
         NEW reason \in AttentionReason \cup {None},
         (s = "attention-required") <=> (reason # None)
  PROVE  Moved(r, s, reason) = r \/ Successor(r, Moved(r, s, reason))
<1>1. CASE s = r.state
  BY <1>1 DEF Moved
<1>2. CASE s # r.state
  <2> DEFINE resume == IF s = "attention-required" THEN r.state ELSE None
             t == Moved(r, s, reason)
  <2>1. s \in TRANSITIONS(r.state) /\ (r.pending_effect # None => s = "attention-required")
    BY <1>2 DEF MayMove
  <2>2. r \in Record /\ resume \in States \cup {None}
    BY Fields DEF WellFormed
  <2>3. r.state \notin TERMINAL
    BY <2>1, <2>2, Fields DEF TRANSITIONS, TERMINAL, States
  <2>4. t = WithState(r, s, reason, resume)
    BY <1>2 DEF Moved, WithState
  <2> HIDE DEF t
  <2>5. /\ t \in Record
        /\ t.state = s /\ t.attention_reason = reason /\ t.resume_state = resume
        /\ t.revision = r.revision + 1
        /\ t.pending_effect = r.pending_effect /\ t.effect_id = r.effect_id
        /\ t.effect_outcome = r.effect_outcome
        /\ t.used = r.used /\ t.limit = r.limit /\ t.deadline_at = r.deadline_at
        /\ t.accepted_callback = r.accepted_callback
    BY <2>2, <2>4, StateUpdate
  <2>6. Constructible(t)
    BY <2>5 DEF WellFormed, Constructible, None
  <2>7. Explained(t)
    BY <1>2, <2>2, <2>3, <2>5, Fields DEF Explained, None, States, TERMINAL
  <2>8. SettledAtEnd(t)
    BY <2>1, <2>5 DEF SettledAtEnd, TERMINAL
  <2>9. t.revision > r.revision
    BY <2>2, <2>5, Fields
  <2>10. Successor(r, t)
    BY <2>1, <2>2, <2>3, <2>5, <2>6, <2>7, <2>8, <2>9, SameBudget
       DEF Successor, WellFormed, KeepsEnd, KeepsAnswer
  <2> QED
    BY <2>10 DEF t
<1> QED
  BY <1>1, <1>2

\* Reserving an effect returns the record or a successor of it.
LEMMA BegunBuilds ==
  ASSUME NEW r, WellFormed(r), NEW e \in Effect, MayBegin(r, e)
  PROVE  Begun(r, e) = r \/ Successor(r, Begun(r, e))
<1>1. CASE r.pending_effect = e \/ (r.effect_id = e /\ r.effect_outcome \in Resolved)
  BY <1>1 DEF Begun
<1>2. CASE ~(r.pending_effect = e \/ (r.effect_id = e /\ r.effect_outcome \in Resolved))
  <2> DEFINE t == Begun(r, e)
  <2>1. r \in Record /\ r.state \notin TERMINAL /\ r.pending_effect = None
    BY <1>2 DEF WellFormed, MayBegin
  <2>2. t = WithEffect(r, e, e, "pending")
    BY <1>2 DEF Begun, WithEffect
  <2> HIDE DEF t
  <2>3. /\ t \in Record
        /\ t.pending_effect = e /\ t.effect_id = e /\ t.effect_outcome = "pending"
        /\ t.revision = r.revision + 1
        /\ t.state = r.state /\ t.attention_reason = r.attention_reason
        /\ t.resume_state = r.resume_state
        /\ t.used = r.used /\ t.limit = r.limit /\ t.deadline_at = r.deadline_at
        /\ t.accepted_callback = r.accepted_callback
    <3>1. "pending" \in Outcome
      BY DEF Outcome
    <3> QED
      BY <2>1, <2>2, <3>1, EffectUpdate
  <2>4. Constructible(t)
    BY <2>3, IdentityAssumption DEF WellFormed, Constructible
  <2>5. Explained(t) /\ SettledAtEnd(t)
    BY <2>1, <2>3 DEF WellFormed, Explained, SettledAtEnd
  <2>6. t.revision > r.revision
    BY <2>1, <2>3, Fields
  <2>7. Successor(r, t)
    BY <2>1, <2>3, <2>4, <2>5, <2>6, SameBudget
       DEF Successor, WellFormed, KeepsEnd, KeepsAnswer
  <2> QED
    BY <2>7 DEF t
<1> QED
  BY <1>1, <1>2

\* Resolving the pending effect returns the record or a successor of it.
LEMMA SettledBuilds ==
  ASSUME NEW r, WellFormed(r), NEW outcome \in Resolved
  PROVE  Settled(r, outcome) = r \/ Successor(r, Settled(r, outcome))
<1>1. CASE r.pending_effect = None
  BY <1>1 DEF Settled
<1>2. CASE r.pending_effect # None
  <2> DEFINE t == Settled(r, outcome)
  <2>1. r \in Record /\ r.state \notin TERMINAL /\ r.effect_id \in Effect \cup {None}
    BY <1>2, Fields DEF WellFormed, SettledAtEnd
  <2>2. t = [r EXCEPT !.pending_effect = None, !.effect_outcome = outcome, !.revision = @ + 1]
    BY <1>2 DEF Settled
  <2> HIDE DEF t
  <2>3. t = WithEffect(r, None, r.effect_id, outcome)
    BY <2>1, <2>2 DEF Record, WithEffect
  <2>4. outcome \in Outcome
    BY DEF Outcome, Resolved
  <2>5. /\ t \in Record
        /\ t.pending_effect = None /\ t.effect_id = r.effect_id /\ t.effect_outcome = outcome
        /\ t.revision = r.revision + 1
        /\ t.state = r.state /\ t.attention_reason = r.attention_reason
        /\ t.resume_state = r.resume_state
        /\ t.used = r.used /\ t.limit = r.limit /\ t.deadline_at = r.deadline_at
        /\ t.accepted_callback = r.accepted_callback
    <3>1. None \in Effect \cup {None}
      OBVIOUS
    <3> QED
      BY <2>1, <2>3, <2>4, <3>1, EffectUpdate
  <2>6. r.effect_id # None
    BY <1>2, <2>1, Fields DEF WellFormed, Constructible, Outcome
  <2>7. Constructible(t)
    BY <2>5, <2>6 DEF WellFormed, Constructible, Resolved
  <2>8. Explained(t) /\ SettledAtEnd(t)
    BY <2>1, <2>5 DEF WellFormed, Explained, SettledAtEnd
  <2>9. t.revision > r.revision
    BY <2>1, <2>5, Fields
  <2>10. Successor(r, t)
    BY <1>2, <2>1, <2>5, <2>7, <2>8, <2>9, SameBudget
       DEF Successor, WellFormed, KeepsEnd, KeepsAnswer
  <2> QED
    BY <2>10 DEF t
<1> QED
  BY <1>1, <1>2

-----------------------------------------------------------------------------
(* The rebuilt records of the supervisor.                                  *)

\* Taking the next revision changes nothing else.
LEMMA RevisionUpdate ==
  ASSUME NEW q \in Record, NEW t, t = NextRevision(q)
  PROVE  /\ t \in Record
         /\ t.revision = q.revision + 1
         /\ t.state = q.state /\ t.attention_reason = q.attention_reason
         /\ t.resume_state = q.resume_state
         /\ t.pending_effect = q.pending_effect /\ t.effect_id = q.effect_id
         /\ t.effect_outcome = q.effect_outcome
         /\ t.used = q.used /\ t.limit = q.limit /\ t.deadline_at = q.deadline_at
         /\ t.accepted_callback = q.accepted_callback
<1>1. t.revision = q.revision + 1 /\ t.revision \in Nat
  BY DEF Record, NextRevision
<1>2. t = [q EXCEPT !.revision = t.revision]
  BY <1>1 DEF NextRevision
<1>3. t \in Record
  BY <1>1, <1>2, Zenon DEF Record
<1>4. /\ t.state = q.state /\ t.attention_reason = q.attention_reason
      /\ t.resume_state = q.resume_state
  BY DEF Record, NextRevision
<1>5. /\ t.pending_effect = q.pending_effect /\ t.effect_id = q.effect_id
      /\ t.effect_outcome = q.effect_outcome
  BY DEF Record, NextRevision
<1>6. /\ t.used = q.used /\ t.limit = q.limit /\ t.deadline_at = q.deadline_at
      /\ t.accepted_callback = q.accepted_callback
  BY DEF Record, NextRevision
<1> QED
  BY <1>1, <1>3, <1>4, <1>5, <1>6

\* Everything Successor asks for but the revision survives a new revision.
LEMMA SavedBuilds ==
  ASSUME NEW r, NEW q, WellFormed(q), r \in Record, q.revision >= r.revision,
         r.deadline_at # 0 => q.limit = r.limit,
         KeepsEnd(r, q.state), KeepsAnswer(r, q.accepted_callback),
         r.pending_effect # None /\ q.pending_effect = r.pending_effect
           => q.state \in {r.state, "attention-required"}
  PROVE  Successor(r, NextRevision(q))
<1> DEFINE t == NextRevision(q)
<1>1. q \in Record
  BY DEF WellFormed
<1>2. t = NextRevision(q)
  OBVIOUS
<1> HIDE DEF t
<1>3. /\ t \in Record
      /\ t.revision = q.revision + 1
      /\ t.state = q.state /\ t.attention_reason = q.attention_reason
      /\ t.resume_state = q.resume_state
      /\ t.pending_effect = q.pending_effect /\ t.effect_id = q.effect_id
      /\ t.effect_outcome = q.effect_outcome
      /\ t.used = q.used /\ t.limit = q.limit /\ t.deadline_at = q.deadline_at
      /\ t.accepted_callback = q.accepted_callback
  BY <1>1, <1>2, RevisionUpdate
<1>4. Constructible(t)
  BY <1>3 DEF WellFormed, Constructible
<1>5. Explained(t) /\ SettledAtEnd(t)
  BY <1>3 DEF WellFormed, Explained, SettledAtEnd
<1>6. UnspentUntilConfigured(t)
  BY <1>3, SameBudget
<1>7. t.revision > r.revision
  BY <1>1, <1>3, Fields
<1>8. Successor(r, t)
  BY <1>3, <1>4, <1>5, <1>6, <1>7 DEF Successor, WellFormed
<1> QED
  BY <1>8 DEF t

\* Binding resources changes nothing else.
LEMMA BoundKeeps ==
  ASSUME NEW r, WellFormed(r), NEW res \in Resource \cup {None},
         NEW q, q = [r EXCEPT !.resources = res]
  PROVE  /\ WellFormed(q) /\ q.state = r.state /\ q.revision = r.revision
         /\ q.pending_effect = r.pending_effect
         /\ q.used = r.used /\ q.limit = r.limit
         /\ q.accepted_callback = r.accepted_callback
<1>1. r \in Record
  BY DEF WellFormed
<1>2. q \in Record
  BY <1>1, Zenon DEF Record
<1>3. /\ q.state = r.state /\ q.attention_reason = r.attention_reason
      /\ q.resume_state = r.resume_state /\ q.revision = r.revision
  BY <1>1 DEF Record
<1>4. /\ q.pending_effect = r.pending_effect /\ q.effect_id = r.effect_id
      /\ q.effect_outcome = r.effect_outcome
      /\ q.accepted_callback = r.accepted_callback
  BY <1>1 DEF Record
<1>5. q.used = r.used /\ q.limit = r.limit /\ q.deadline_at = r.deadline_at
  BY <1>1 DEF Record
<1>6. Constructible(q)
  BY <1>3, <1>4, <1>5 DEF WellFormed, Constructible
<1>7. Explained(q) /\ SettledAtEnd(q)
  BY <1>3, <1>4 DEF WellFormed, Explained, SettledAtEnd
<1> QED
  BY <1>2, <1>3, <1>4, <1>5, <1>6, <1>7, SameBudget DEF WellFormed

\* Binding resources builds on the record.
LEMMA BoundBuilds ==
  ASSUME NEW r, WellFormed(r), NEW res \in Resource \cup {None}
  PROVE  Successor(r, NextRevision([r EXCEPT !.resources = res]))
<1>1. PICK q : q = [r EXCEPT !.resources = res]
  OBVIOUS
<1>2. r \in Record
  BY DEF WellFormed
<1>3. /\ WellFormed(q) /\ q.state = r.state /\ q.revision = r.revision
      /\ q.limit = r.limit /\ q.accepted_callback = r.accepted_callback
  BY <1>1, BoundKeeps
<1>4. Successor(r, NextRevision(q))
  BY <1>2, <1>3, SavedBuilds, Fields DEF KeepsEnd, KeepsAnswer
<1> QED
  BY <1>1, <1>4

\* A budget configured once, from limits the parser accepts, builds on the record.
LEMMA ConfiguredBuilds ==
  ASSUME NEW r, WellFormed(r), r.deadline_at = 0,
         NEW limit \in [Meter -> Nat], limit["attempt"] >= 1, limit["tokens_used"] >= 1,
         NEW d \in Nat
  PROVE  Successor(r, NextRevision([r EXCEPT !.limit = limit, !.deadline_at = d]))
<1> DEFINE q == [r EXCEPT !.limit = limit, !.deadline_at = d]
<1>1. r \in Record
  BY DEF WellFormed
<1>2. q \in Record
  BY <1>1, Zenon DEF Record
<1>3. /\ q.state = r.state /\ q.attention_reason = r.attention_reason
      /\ q.resume_state = r.resume_state /\ q.revision = r.revision
  BY <1>1 DEF Record
<1>4. /\ q.pending_effect = r.pending_effect /\ q.effect_id = r.effect_id
      /\ q.effect_outcome = r.effect_outcome
  BY <1>1 DEF Record
<1>5. /\ q.used = r.used /\ q.limit = limit /\ q.deadline_at = d
      /\ q.accepted_callback = r.accepted_callback
  BY <1>1 DEF Record
<1> HIDE DEF q
<1>6. \A m \in Meter : r.used[m] = 0
  BY DEF WellFormed, UnspentUntilConfigured
<1>7. \A m \in Meter : q.used[m] <= q.limit[m]
  BY <1>5, <1>6
<1>8. Constructible(q)
  BY <1>3, <1>4, <1>5, <1>7 DEF WellFormed, Constructible
<1>9. Explained(q) /\ SettledAtEnd(q)
  BY <1>3, <1>4 DEF WellFormed, Explained, SettledAtEnd
<1>10. WellFormed(q)
  BY <1>2, <1>5, <1>6, <1>8, <1>9 DEF WellFormed, UnspentUntilConfigured
<1>11. Successor(r, NextRevision(q))
  BY <1>1, <1>3, <1>4, <1>5, <1>10, SavedBuilds, Fields DEF KeepsEnd, KeepsAnswer
<1> QED
  BY <1>11 DEF q

\* A charge inside the limits, with the deadline kept or extended to d.
LEMMA ChargedBuilds ==
  ASSUME NEW r, WellFormed(r), NEW cost \in [Meter -> Nat], ~Spent(r, cost),
         NEW q, NEW d \in Nat, d # 0,
         q = [Charge(r, cost) EXCEPT !.deadline_at = d]
  PROVE  Successor(r, NextRevision(q))
<1> DEFINE used == [m \in Meter |-> r.used[m] + cost[m]]
<1>1. r \in Record /\ r.used \in [Meter -> Nat]
  BY Fields DEF WellFormed
<1>2. used \in [Meter -> Nat]
  BY <1>1
<1>3. q = [r EXCEPT !.used = used, !.deadline_at = d]
  BY DEF Charge
<1>4. \A m \in Meter : used[m] <= r.limit[m]
  BY <1>1, Fields DEF Spent
<1> HIDE DEF used
<1>5. q \in Record
  BY <1>1, <1>2, <1>3, Zenon DEF Record
<1>6. /\ q.state = r.state /\ q.attention_reason = r.attention_reason
      /\ q.resume_state = r.resume_state /\ q.revision = r.revision
  BY <1>1, <1>3 DEF Record
<1>7. /\ q.pending_effect = r.pending_effect /\ q.effect_id = r.effect_id
      /\ q.effect_outcome = r.effect_outcome
  BY <1>1, <1>3 DEF Record
<1>8. /\ q.used = used /\ q.limit = r.limit /\ q.deadline_at = d
      /\ q.accepted_callback = r.accepted_callback
  BY <1>1, <1>3 DEF Record
<1>9. Constructible(q)
  BY <1>4, <1>7, <1>6, <1>8 DEF WellFormed, Constructible
<1>10. Explained(q) /\ SettledAtEnd(q)
  BY <1>6, <1>7 DEF WellFormed, Explained, SettledAtEnd
<1>11. WellFormed(q)
  BY <1>5, <1>8, <1>9, <1>10 DEF WellFormed, UnspentUntilConfigured
<1>12. q.revision >= r.revision
  BY <1>1, <1>6, Fields
<1> QED
  BY <1>1, <1>6, <1>8, <1>11, <1>12, SavedBuilds DEF KeepsEnd, KeepsAnswer

\* Retirement of a live record without a pending effect.
LEMMA RetiredKeeps ==
  ASSUME NEW r, WellFormed(r), r.pending_effect = None, NEW s \in TERMINAL,
         NEW q, q = Retired(r, s)
  PROVE  /\ WellFormed(q) /\ q.state = s /\ q.pending_effect = None
         /\ q.revision = r.revision /\ q.accepted_callback = r.accepted_callback
         /\ q.used = r.used /\ q.limit = r.limit /\ q.deadline_at = r.deadline_at
<1>1. r \in Record /\ s \in States /\ s # "attention-required"
  BY DEF WellFormed, States, TERMINAL
<1>2. /\ None \in AttentionReason \cup {None} /\ None \in States \cup {None}
      /\ None \in Resource \cup {None}
  OBVIOUS
<1>3. q = [r EXCEPT !.state = s, !.attention_reason = None, !.resume_state = None,
                    !.resources = None]
  BY DEF Retired
<1>4. q \in Record
  BY <1>1, <1>2, <1>3, Zenon DEF Record
<1>5. /\ q.state = s /\ q.attention_reason = None
      /\ q.resume_state = None /\ q.revision = r.revision
  BY <1>1, <1>3 DEF Record
<1>6. /\ q.pending_effect = r.pending_effect /\ q.effect_id = r.effect_id
      /\ q.effect_outcome = r.effect_outcome
  BY <1>1, <1>3 DEF Record
<1>7. /\ q.used = r.used /\ q.limit = r.limit /\ q.deadline_at = r.deadline_at
      /\ q.accepted_callback = r.accepted_callback
  BY <1>1, <1>3 DEF Record
<1>8. Constructible(q)
  BY <1>5, <1>6, <1>7 DEF WellFormed, Constructible
<1>9. Explained(q) /\ SettledAtEnd(q)
  BY <1>1, <1>5, <1>6 DEF Explained, SettledAtEnd
<1> QED
  BY <1>4, <1>5, <1>6, <1>7, <1>8, <1>9, SameBudget DEF WellFormed

\* Retiring a live record without a pending effect builds on it.
LEMMA RetiredBuilds ==
  ASSUME NEW r, WellFormed(r), r.state \notin TERMINAL, r.pending_effect = None,
         NEW s \in TERMINAL
  PROVE  Successor(r, NextRevision(Retired(r, s)))
<1> DEFINE q == Retired(r, s)
<1>1. r \in Record
  BY DEF WellFormed
<1>2. /\ WellFormed(q) /\ q.revision = r.revision
      /\ q.limit = r.limit /\ q.accepted_callback = r.accepted_callback
  BY RetiredKeeps
<1> HIDE DEF q
<1>3. Successor(r, NextRevision(q))
  BY <1>1, <1>2, SavedBuilds, Fields DEF KeepsEnd, KeepsAnswer
<1> QED
  BY <1>3 DEF q

\* Retirement of a live record whose pending effect is settled on the way.
LEMMA SettledRetiredBuilds ==
  ASSUME NEW r, WellFormed(r), r.pending_effect # None, NEW outcome \in Resolved,
         NEW s \in TERMINAL
  PROVE  Successor(r, NextRevision(Retired(Settled(r, outcome), s)))
<1> DEFINE p == Settled(r, outcome)
           q == Retired(p, s)
<1>1. r \in Record /\ r.state \notin TERMINAL
  BY DEF WellFormed, SettledAtEnd
<1>2. p.pending_effect = None /\ p.revision = r.revision + 1
      /\ p.limit = r.limit /\ p.accepted_callback = r.accepted_callback
  <2>1. p = [r EXCEPT !.pending_effect = None, !.effect_outcome = outcome, !.revision = @ + 1]
    BY DEF Settled
  <2> QED
    BY <1>1, <2>1 DEF Record
<1>3. WellFormed(p)
  <2>1. p # r
    BY <1>2
  <2> QED
    BY <2>1, SettledBuilds DEF Successor
<1> HIDE DEF p
<1>4. /\ WellFormed(q) /\ q.revision = r.revision + 1 /\ q.pending_effect = None
      /\ q.limit = r.limit /\ q.accepted_callback = r.accepted_callback
  BY <1>2, <1>3, RetiredKeeps
<1> HIDE DEF q
<1>5. q.revision >= r.revision
  BY <1>1, <1>4, Fields
<1>6. Successor(r, NextRevision(q))
  BY <1>1, <1>4, <1>5, SavedBuilds DEF KeepsEnd, KeepsAnswer
<1> QED
  BY <1>6 DEF p, q

-----------------------------------------------------------------------------
(* Operations that go on: recoveries, answers and re-armed waits.          *)

\* The states a stopped operation goes on in.
Onward == States \ (TERMINAL \cup {"attention-required"})

\* Going on changes the state and clears the explanation.
LEMMA ResumedKeeps ==
  ASSUME NEW r, WellFormed(r), NEW s \in Onward, NEW q, q = Resumed(r, s)
  PROVE  /\ WellFormed(q) /\ q.state = s /\ q.revision = r.revision
         /\ q.pending_effect = r.pending_effect /\ q.used = r.used
         /\ q.limit = r.limit /\ q.accepted_callback = r.accepted_callback
<1>1. r \in Record /\ s \in States /\ s \notin TERMINAL /\ s # "attention-required"
  BY DEF WellFormed, Onward
<1>2. None \in AttentionReason \cup {None} /\ None \in States \cup {None}
  OBVIOUS
<1>3. q = [r EXCEPT !.state = s, !.attention_reason = None, !.resume_state = None]
  BY DEF Resumed
<1>4. q \in Record
  BY <1>1, <1>2, <1>3, Zenon DEF Record
<1>5. /\ q.state = s /\ q.attention_reason = None
      /\ q.resume_state = None /\ q.revision = r.revision
  BY <1>1, <1>3 DEF Record
<1>6. /\ q.pending_effect = r.pending_effect /\ q.effect_id = r.effect_id
      /\ q.effect_outcome = r.effect_outcome
      /\ q.accepted_callback = r.accepted_callback
  BY <1>1, <1>3 DEF Record
<1>7. q.used = r.used /\ q.limit = r.limit /\ q.deadline_at = r.deadline_at
  BY <1>1, <1>3 DEF Record
<1>8. Constructible(q)
  BY <1>5, <1>6, <1>7 DEF WellFormed, Constructible
<1>9. Explained(q) /\ SettledAtEnd(q)
  BY <1>1, <1>5, <1>6 DEF Explained, SettledAtEnd
<1> QED
  BY <1>4, <1>5, <1>6, <1>7, <1>8, <1>9, SameBudget DEF WellFormed

\* A live operation without a pending effect, or the untouched round, goes on.
LEMMA ResumedBuilds ==
  ASSUME NEW r, WellFormed(r), r.pending_effect = None, NEW s \in Onward,
         r.state \in TERMINAL => Untouched(r) /\ s = "awaiting-callback"
  PROVE  Successor(r, NextRevision(Resumed(r, s)))
<1>1. PICK q : q = Resumed(r, s)
  OBVIOUS
<1>2. r \in Record
  BY DEF WellFormed
<1>3. /\ WellFormed(q) /\ q.state = s /\ q.revision = r.revision
      /\ q.limit = r.limit /\ q.accepted_callback = r.accepted_callback
  BY <1>1, ResumedKeeps
<1>4. Successor(r, NextRevision(q))
  BY <1>2, <1>3, SavedBuilds, Fields DEF KeepsEnd, KeepsAnswer
<1> QED
  BY <1>1, <1>4

\* Adopting a late process settles its effect and builds on the record.
LEMMA AdoptedBuilds ==
  ASSUME NEW r, WellFormed(r), r.pending_effect # None, NEW res \in Resource
  PROVE  Successor(r, Adopted(r, res))
<1>1. PICK p : p = Settled(r, "succeeded")
  OBVIOUS
<1>2. PICK w : w = Waiting(p)
  OBVIOUS
<1>3. PICK q : q = [w EXCEPT !.resources = res]
  OBVIOUS
<1>4. r \in Record /\ r.state \notin TERMINAL /\ "succeeded" \in Resolved
  BY DEF WellFormed, SettledAtEnd, Resolved
<1>5. p.pending_effect = None /\ p.revision = r.revision + 1
      /\ p.limit = r.limit /\ p.accepted_callback = r.accepted_callback
  <2>1. p = [r EXCEPT !.pending_effect = None, !.effect_outcome = "succeeded",
                      !.revision = @ + 1]
    BY <1>1 DEF Settled
  <2> QED
    BY <1>4, <2>1 DEF Record
<1>6. WellFormed(p)
  <2>1. p # r
    BY <1>5
  <2> QED
    BY <1>1, <1>4, <2>1, SettledBuilds DEF Successor
<1>7. "awaiting-callback" \in Onward
  BY DEF Onward, States, TERMINAL
<1>8. /\ WellFormed(w) /\ w.revision = r.revision + 1 /\ w.pending_effect = None
      /\ w.limit = r.limit /\ w.accepted_callback = r.accepted_callback
  BY <1>2, <1>5, <1>6, <1>7, ResumedKeeps DEF Waiting
<1>9. /\ WellFormed(q) /\ q.revision = r.revision + 1 /\ q.pending_effect = None
      /\ q.limit = r.limit /\ q.accepted_callback = r.accepted_callback
  BY <1>3, <1>8, BoundKeeps
<1>10. q.revision >= r.revision
  BY <1>4, <1>9, Fields
<1>11. Successor(r, NextRevision(q))
  BY <1>4, <1>9, <1>10, SavedBuilds DEF KeepsEnd, KeepsAnswer
<1>12. Adopted(r, res) = NextRevision(q)
  BY <1>1, <1>2, <1>3 DEF Adopted
<1> QED
  BY <1>11, <1>12

\* The first answer, taken with the move it asks for, builds on the record.
LEMMA AnsweredBuilds ==
  ASSUME NEW r, WellFormed(r), r.state = "awaiting-callback", r.accepted_callback = None,
         NEW s \in AnswerState, MayMove(r, s), NEW answer \in Callback
  PROVE  Successor(r, AnsweredWith(r, s, answer))
<1>1. PICK reason : reason = IF s = "attention-required" THEN "attention-required" ELSE None
  OBVIOUS
<1>2. PICK p : p = Moved(r, s, reason)
  OBVIOUS
<1>3. PICK q : q = [p EXCEPT !.accepted_callback = answer]
  OBVIOUS
<1>4. r \in Record
  BY DEF WellFormed
<1>5. /\ s \in States /\ s # r.state
      /\ reason \in AttentionReason \cup {None}
      /\ (s = "attention-required") <=> (reason # None)
  BY <1>1 DEF AnswerState, States, AttentionReason, None
<1>6. p.state = s /\ (r.pending_effect # None => s \in {r.state, "attention-required"})
  <2>1. p = WithState(r, s, reason, IF s = "attention-required" THEN r.state ELSE None)
    BY <1>2, <1>5 DEF Moved, WithState
  <2>2. p.state = s
    BY <1>4, <2>1 DEF WithState, Record
  <2> QED
    BY <2>2 DEF MayMove
<1>7. Successor(r, p)
  <2>1. p = r \/ Successor(r, p)
    BY <1>2, <1>5, MovedBuilds
  <2> QED
    BY <1>5, <1>6, <2>1
<1>8. /\ WellFormed(p) /\ p.revision > r.revision
      /\ r.deadline_at # 0 => p.limit = r.limit
  BY <1>7 DEF Successor
<1>9. p \in Record /\ q \in Record
  <2>1. p \in Record
    BY <1>8 DEF WellFormed
  <2> QED
    BY <1>3, <2>1, Zenon DEF Record
<1>10. /\ q.state = p.state /\ q.attention_reason = p.attention_reason
       /\ q.resume_state = p.resume_state /\ q.revision = p.revision
  BY <1>3, <1>9 DEF Record
<1>11. /\ q.pending_effect = p.pending_effect /\ q.effect_id = p.effect_id
       /\ q.effect_outcome = p.effect_outcome
  BY <1>3, <1>9 DEF Record
<1>12. q.used = p.used /\ q.limit = p.limit /\ q.deadline_at = p.deadline_at
  BY <1>3, <1>9 DEF Record
<1>13. Constructible(q)
  BY <1>8, <1>10, <1>11, <1>12 DEF WellFormed, Constructible
<1>14. Explained(q) /\ SettledAtEnd(q)
  BY <1>8, <1>10, <1>11 DEF WellFormed, Explained, SettledAtEnd
<1>15. WellFormed(q)
  BY <1>8, <1>9, <1>12, <1>13, <1>14, SameBudget DEF WellFormed
<1>16. Successor(r, q)
  <2>1. KeepsEnd(r, q.state) /\ KeepsAnswer(r, q.accepted_callback)
    BY DEF KeepsEnd, KeepsAnswer, TERMINAL
  <2>2. r.pending_effect # None => q.state \in {r.state, "attention-required"}
    BY <1>6, <1>10
  <2> QED
    BY <1>8, <1>10, <1>12, <1>15, <2>1, <2>2 DEF Successor
<1>17. AnsweredWith(r, s, answer) = q
  BY <1>1, <1>2, <1>3 DEF AnsweredWith
<1> QED
  BY <1>16, <1>17

\* A wait that is armed again under a new deadline builds on the record.
LEMMA RearmedBuilds ==
  ASSUME NEW r, WellFormed(r), r.state = "attention-required",
         MayMove(r, "awaiting-callback"), NEW d \in Nat, d # 0, r.deadline_at # 0
  PROVE  Successor(r, [Moved(r, "awaiting-callback", None) EXCEPT !.deadline_at = d])
<1>1. PICK p : p = Moved(r, "awaiting-callback", None)
  OBVIOUS
<1>2. PICK q : q = [p EXCEPT !.deadline_at = d]
  OBVIOUS
<1>3. "awaiting-callback" \in States /\ "awaiting-callback" # r.state
  BY DEF States
<1>4. r \in Record /\ None \in AttentionReason \cup {None}
  BY DEF WellFormed
<1>5. p.state = "awaiting-callback" /\ r.pending_effect = None
  <2>1. p = WithState(r, "awaiting-callback", None, None)
    BY <1>1, <1>3 DEF Moved, WithState
  <2> QED
    BY <1>3, <1>4, <2>1 DEF WithState, Record, MayMove
<1>6. Successor(r, p)
  <2>1. p = r \/ Successor(r, p)
    BY <1>1, <1>3, <1>4, MovedBuilds
  <2> QED
    BY <1>3, <1>5, <2>1
<1>7. /\ WellFormed(p) /\ p.revision > r.revision /\ p.limit = r.limit
      /\ KeepsAnswer(r, p.accepted_callback)
  BY <1>6 DEF Successor
<1>8. p \in Record /\ q \in Record
  <2>1. p \in Record
    BY <1>7 DEF WellFormed
  <2> QED
    BY <1>2, <2>1, Zenon DEF Record
<1>9. /\ q.state = p.state /\ q.attention_reason = p.attention_reason
      /\ q.resume_state = p.resume_state /\ q.revision = p.revision
      /\ q.accepted_callback = p.accepted_callback
  BY <1>2, <1>8 DEF Record
<1>10. /\ q.pending_effect = p.pending_effect /\ q.effect_id = p.effect_id
       /\ q.effect_outcome = p.effect_outcome
  BY <1>2, <1>8 DEF Record
<1>11. q.used = p.used /\ q.limit = p.limit /\ q.deadline_at = d
  BY <1>2, <1>8 DEF Record
<1>12. Constructible(q)
  BY <1>7, <1>9, <1>10, <1>11 DEF WellFormed, Constructible
<1>13. Explained(q) /\ SettledAtEnd(q)
  BY <1>7, <1>9, <1>10 DEF WellFormed, Explained, SettledAtEnd
<1>14. WellFormed(q)
  BY <1>8, <1>11, <1>12, <1>13 DEF WellFormed, UnspentUntilConfigured
<1>15. Successor(r, q)
  BY <1>5, <1>7, <1>9, <1>11, <1>14 DEF Successor, KeepsEnd, KeepsAnswer, TERMINAL
<1> QED
  BY <1>1, <1>2, <1>15
=============================================================================
