--------------------------- MODULE OperationRecord ---------------------------
(***************************************************************************)
(* The durable record of one harness operation and its pure state machine: *)
(* contracts.OperationRecord and state_machine.py.  Nothing here changes   *)
(* state; every component that stores a record builds its next value from  *)
(* these operators.                                                        *)
(*                                                                         *)
(* Effect, Callback and Resource stand for effect identifiers, callback    *)
(* identities (id, kind and digest together) and non-empty OwnedResources. *)
(* None is Python's empty string / None / OwnedResources().                *)
(***************************************************************************)
EXTENDS Naturals

CONSTANTS Effect, Callback, Resource

None == ""

ASSUME IdentityAssumption ==
  /\ None \notin Effect
  /\ None \notin Callback
  /\ None \notin Resource

TERMINAL == {"complete", "failed", "cancelled"}

States ==
  {"created", "preflight", "starting", "running", "awaiting-callback",
   "verifying", "finalizing", "cancelling", "exiting",
   "attention-required"} \cup TERMINAL

\* The states a record may move to from state s (TRANSITIONS).
TRANSITIONS(s) ==
  LET Abort == {"cancelling", "attention-required", "failed"} IN
  CASE s = "created"    -> {"preflight"} \cup Abort
    [] s = "preflight"  -> {"starting"} \cup Abort
    [] s = "starting"   -> {"running"} \cup Abort
    [] s = "running"    -> {"awaiting-callback", "verifying", "finalizing"} \cup Abort
    [] s = "awaiting-callback" -> {"running", "verifying", "finalizing"} \cup Abort
    [] s = "verifying"  -> {"running", "finalizing"} \cup Abort
    [] s = "finalizing" -> {"exiting"} \cup Abort
    [] s = "cancelling" -> {"exiting", "attention-required", "failed"}
    [] s = "exiting"    -> {"complete", "cancelled", "attention-required", "failed"}
    [] s = "attention-required" -> (States \ (TERMINAL \cup {"attention-required"})) \cup {"failed"}
    [] OTHER -> {}

AttentionReason ==
  {"runtime-unavailable", "capability-mismatch", "surface-open-failed",
   "process-start-failed", "prompt-unknown", "callback-invalid",
   "callback-timeout", "continuation-submit-unconfirmed",
   "verification-failed", "retry-exhausted", "surface-lost",
   "process-orphaned", "cleanup-incomplete", "contract-drift",
   "attention-required"}

Outcome == {"none", "pending", "succeeded", "failed"}
Resolved == {"succeeded", "failed"}

\* The counters of the persisted budget: attempts, model restarts, tokens.
Meter == {"attempt", "model_restarts", "tokens_used"}

Meters(attempts, restarts, tokens) ==
  [m \in Meter |-> CASE m = "attempt" -> attempts
                      [] m = "model_restarts" -> restarts
                      [] OTHER -> tokens]

Record ==
  [state: States, revision: Nat,
   attention_reason: AttentionReason \cup {None},
   resume_state: States \cup {None},
   pending_effect: Effect \cup {None}, effect_id: Effect \cup {None},
   effect_outcome: Outcome,
   resources: Resource \cup {None},
   accepted_callback: Callback \cup {None},
   used: [Meter -> Nat], limit: [Meter -> Nat], deadline_at: Nat]

\* A record as OperationStore.create publishes it, under the default limits.
NewRecord(limit) ==
  [state |-> "created", revision |-> 0, attention_reason |-> None,
   resume_state |-> None, pending_effect |-> None, effect_id |-> None,
   effect_outcome |-> "none", resources |-> None, accepted_callback |-> None,
   used |-> [m \in Meter |-> 0], limit |-> limit, deadline_at |-> 0]

\* What OperationRecord.__post_init__ demands of every record it builds: a
\* record that fails it can neither be written nor read back.
Constructible(r) ==
  /\ \A m \in Meter : r.used[m] <= r.limit[m]
  /\ r.limit["attempt"] >= 1 /\ r.limit["tokens_used"] >= 1
  /\ r.resume_state # None => r.state = "attention-required"
  /\ CASE r.effect_outcome = "none" -> r.effect_id = None /\ r.pending_effect = None
       [] r.effect_outcome = "pending" -> r.effect_id # None /\ r.pending_effect = r.effect_id
       [] OTHER -> r.effect_id # None /\ r.pending_effect = None

-----------------------------------------------------------------------------
\* state_machine.transition: a move to the current state changes nothing; an
\* unresolved effect blocks every move but the one to attention-required.
\* Fault: the guard on the pending effect is missing.
MayMovePastEffect(r, s) == s = r.state \/ s \in TRANSITIONS(r.state)

MayMove(r, s) ==
  \/ s = r.state
  \/ /\ s \in TRANSITIONS(r.state)
     /\ r.pending_effect # None => s = "attention-required"

Moved(r, s, reason) ==
  IF s = r.state THEN r
  ELSE [r EXCEPT !.state = s, !.revision = @ + 1, !.attention_reason = reason,
                 !.resume_state = IF s = "attention-required" THEN r.state ELSE None]

Attention(r, reason) == Moved(r, "attention-required", reason)

\* state_machine.begin_effect: an identical pending or resolved effect is
\* returned unchanged.
MayBegin(r, e) ==
  /\ r.state \notin TERMINAL
  /\ r.pending_effect \in {None, e}

Begun(r, e) ==
  IF r.pending_effect = e \/ (r.effect_id = e /\ r.effect_outcome \in Resolved)
  THEN r
  ELSE [r EXCEPT !.pending_effect = e, !.effect_id = e,
                 !.effect_outcome = "pending", !.revision = @ + 1]

\* state_machine.resolve_effect: it names an outcome and no effect, so it
\* settles whichever effect is pending.
MayResolve(r, outcome) == r.pending_effect # None \/ r.effect_outcome = outcome

\* Fault: the outcome is recorded and the reservation left in place.
SettledStillPending(r, outcome) ==
  IF r.pending_effect = None THEN r
  ELSE [r EXCEPT !.effect_outcome = outcome, !.revision = @ + 1]

Settled(r, outcome) ==
  IF r.pending_effect = None THEN r
  ELSE [r EXCEPT !.pending_effect = None, !.effect_outcome = outcome,
                 !.revision = @ + 1]

-----------------------------------------------------------------------------
(* The rebuilt records that OperationSupervisor saves.                     *)

NextRevision(r) == [r EXCEPT !.revision = @ + 1]

\* The consume calls compare what a counter would become with its limit.
Spent(r, cost) == \E m \in Meter : r.used[m] + cost[m] > r.limit[m]

Charge(r, cost) == [r EXCEPT !.used = [m \in Meter |-> @[m] + cost[m]]]

\* Fault: the attention reason outlives the wait.
RetiredUnanswered(r, s) ==
  [r EXCEPT !.state = s, !.resume_state = None, !.resources = None]

\* Both retirements: the moves up to the terminal state s and the release of
\* the resources, built in memory and saved as one write.
Retired(r, s) ==
  [r EXCEPT !.state = s, !.attention_reason = None, !.resume_state = None,
            !.resources = None]

\* A stopped operation goes on in state s.
Resumed(r, s) ==
  [r EXCEPT !.state = s, !.attention_reason = None, !.resume_state = None]

Waiting(r) == Resumed(r, "awaiting-callback")

\* A round that its start failed and nothing else has touched.
Untouched(r) ==
  /\ r.state = "failed" /\ r.resources = None /\ r.accepted_callback = None
  /\ r.pending_effect = None /\ r.effect_id = None /\ r.effect_outcome = "none"

\* The late process of a start whose outcome was unknown, with its resources.
Adopted(r, res) == NextRevision([Waiting(Settled(r, "succeeded")) EXCEPT !.resources = res])

\* CallbackBroker._next_state: where an answer takes the operation.
AnswerState == {"finalizing", "verifying", "attention-required"}

AnsweredWith(r, s, answer) ==
  [Moved(r, s, IF s = "attention-required" THEN "attention-required" ELSE None)
     EXCEPT !.accepted_callback = answer]

-----------------------------------------------------------------------------
\* A record asks for attention exactly when it says why, and then knows a
\* live state to resume.
Explained(r) ==
  /\ (r.state = "attention-required") <=> (r.attention_reason # None)
  /\ r.state = "attention-required" =>
       r.resume_state \in States \ (TERMINAL \cup {"attention-required"})

\* A finished record has no effect of unknown outcome.
SettledAtEnd(r) == r.state \in TERMINAL => r.pending_effect = None
=============================================================================
