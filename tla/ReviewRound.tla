----------------------------- MODULE ReviewRound -----------------------------
(***************************************************************************)
(* One reviewer session and its round: two operation records of one store, *)
(* the parent (the session with its process and surface) and the child     *)
(* (the one-shot round that takes the answer).  The runtime worker watches *)
(* the callback file and the parent's deadline; a driver of the review     *)
(* command ingests the same file, closes the round and takes the session   *)
(* down (store.py, runtime_worker*.py, review.py,                          *)
(* runtime_session_cleanup.py).  The reviewer may overwrite its answer or  *)
(* exit at any time, and worker and driver may die after any step.         *)
(*                                                                         *)
(* Revisions decide nothing here and are not counted.  Most writes lock the *)
(* owner from their read to their write; the two that are fenced by a      *)
(* revision read without the lock, AcceptCallback and Release, say why the *)
(* fence changes nothing.                                                  *)
(***************************************************************************)
EXTENDS OperationRecord

CONSTANTS
  Says(_),     \* the verdict of an answer
  TimeBudget,  \* seconds a wait, and a re-armed wait, may take
  MaxTime,     \* bound on the clock
  MaxPosts,    \* bound on the answers the reviewer publishes
  MaxCrashes   \* bound on the deaths of worker and driver

ASSUME RoundAssumption ==
  /\ {"start-provider", "request-exit", "close-surface"} \subseteq Effect
  /\ \A a \in Callback : Says(a) \in {"approve", "changes-requested", "blocked"}
  /\ TimeBudget \in Nat \ {0}
  /\ {MaxTime, MaxPosts, MaxCrashes} \subseteq Nat
  /\ Resource # {}

VARIABLES
  parent, child,  \* the two operation records
  outbox,         \* the callback file
  provider,       \* the reviewer process; "asked" when told to exit
  surface,        \* the terminal surface it runs in
  stream,         \* the provider events recorded: the result, the exit
  marker,         \* the answer a timed-out wait was re-armed for
  gate,           \* the attempt: awaiting, attention or answered
  worker, drv,    \* what each process holds between its steps
  now, posts, crashes

records == <<parent, child>>
world == <<outbox, provider, surface>>
bounds == <<now, posts, crashes>>
roundVars == <<records, world, stream, marker, gate, worker, drv, bounds>>

Unlimited == [m \in Meter |-> 1]
Plain(r) == [r EXCEPT !.revision = 0]
Go(r, s, reason) == Plain(Moved(r, s, reason))

\* Both records wait, the provider's start is settled and its input delivered.
Session ==
  [NewRecord(Unlimited) EXCEPT
     !.state = "awaiting-callback", !.effect_id = "start-provider",
     !.effect_outcome = "succeeded", !.deadline_at = TimeBudget,
     !.resources = CHOOSE r \in Resource : TRUE]

Round == [NewRecord(Unlimited) EXCEPT !.state = "awaiting-callback"]

Init ==
  /\ parent = Session /\ child = Round
  /\ outbox = None /\ provider = "alive" /\ surface = "alive"
  /\ stream = [result |-> None, exited |-> FALSE]
  /\ marker = None
  /\ gate = "awaiting"
  /\ worker = [pc |-> "poll", seen |-> None, held |-> None, handled |-> FALSE,
               draining |-> FALSE, left |-> 3]
  /\ drv = [pc |-> "idle", held |-> None, to |-> None, alive |-> FALSE, tries |-> 0,
            recovering |-> FALSE]
  /\ now = 0 /\ posts = 0 /\ crashes = 0

-----------------------------------------------------------------------------
(* The store's accept_callback, and writes that ask for attention.         *)

TimedOut(r) == r.state = "attention-required" /\ r.attention_reason = "callback-timeout"

Raised(r, reason) ==
  IF MayMove(r, "attention-required") THEN Go(r, "attention-required", reason) ELSE r

\* Fault: only a wait already marked is late.
LateOnceMarked == parent.state \notin TERMINAL /\ TimedOut(parent)

\* The wait has run out, whether or not anyone has marked it so.
Late == parent.state \notin TERMINAL /\ (TimedOut(parent) \/ now >= parent.deadline_at)

\* Fault: the round takes whatever comes until it has ended.
AcceptanceOfLatest(a) ==
  IF child.accepted_callback = a THEN "duplicate"
  ELSE IF child.state \in TERMINAL THEN "refused"
  ELSE IF Late THEN "late" ELSE "accepted"

Acceptance(a) ==
  IF child.accepted_callback = a THEN "duplicate"
  ELSE IF child.accepted_callback # None \/ child.state \in TERMINAL THEN "refused"
  ELSE IF Late THEN "late"
  ELSE IF child.state = "awaiting-callback" THEN "accepted" ELSE "refused"

\* CallbackBroker._next_state.
NextState(a) ==
  CASE Says(a) = "approve" -> "finalizing"
    [] Says(a) = "changes-requested" -> "verifying"
    [] OTHER -> "attention-required"

Answered(a) ==
  LET reason == IF Says(a) = "blocked" THEN "attention-required" ELSE None
  IN [Go(child, NextState(a), reason) EXCEPT !.accepted_callback = a]

\* The broker reads the child without the lock and the store refuses a stale
\* revision unless the answer is the accepted one.  Only acceptance and what
\* follows it write a child that waits, so a stale writer finds an answer and
\* is a duplicate or refused, as it is here.
AcceptCallback(a) ==
  /\ child' = IF Acceptance(a) = "accepted" THEN Answered(a) ELSE child
  /\ parent' = IF Acceptance(a) = "late" THEN Raised(parent, "callback-timeout") ELSE parent

-----------------------------------------------------------------------------
(* The reviewer, the clock and crashes.                                    *)

Publish(a) ==
  /\ provider # "dead" /\ posts < MaxPosts /\ a # outbox
  /\ outbox' = a /\ posts' = posts + 1
  /\ UNCHANGED <<records, provider, surface, stream, marker, gate, worker, drv, now, crashes>>

\* It exits by itself, or its worker passes the driver's request on.
ProviderExits ==
  /\ provider = "alive" \/ (provider = "asked" /\ worker.pc = "poll")
  /\ provider' = "dead"
  /\ UNCHANGED <<records, outbox, surface, stream, marker, gate, worker, drv, bounds>>

Tick ==
  /\ now < MaxTime /\ now' = now + 1
  /\ UNCHANGED <<records, world, stream, marker, gate, worker, drv, posts, crashes>>

Crash ==
  /\ crashes < MaxCrashes /\ crashes' = crashes + 1
  /\ \/ /\ worker.pc # "gone" /\ worker' = [worker EXCEPT !.pc = "gone"] /\ UNCHANGED drv
     \/ /\ drv.pc # "idle" /\ drv' = [drv EXCEPT !.pc = "idle"] /\ UNCHANGED worker
  /\ UNCHANGED <<records, world, stream, marker, gate, now, posts>>

-----------------------------------------------------------------------------
(* The worker: inspect_callback.                                           *)

WorkerKeeps == UNCHANGED <<world, gate, drv, bounds>>
Watching == worker.pc = "poll" /\ (worker.draining => worker.left > 0)
Inspecting == Watching /\ ~worker.handled
Counted(w) == IF w.draining THEN [w EXCEPT !.left = @ - 1] ELSE w

\* A first look at the file, or at another one than before.
Observe ==
  /\ Inspecting
  /\ outbox # worker.seen \/ (outbox = None /\ worker.draining)
  /\ worker' = Counted([worker EXCEPT !.seen = outbox])
  /\ UNCHANGED <<records, stream, marker>> /\ WorkerKeeps

\* The second look agrees; the file itself is read only now.
Stabilize ==
  /\ Inspecting /\ outbox # None /\ outbox = worker.seen
  /\ worker' = Counted([worker EXCEPT !.pc = "read"])
  /\ UNCHANGED <<records, stream, marker>> /\ WorkerKeeps

ReadAnswer ==
  /\ worker.pc = "read"
  /\ worker' = [worker EXCEPT !.pc = "accept", !.held = outbox]
  /\ UNCHANGED <<records, stream, marker>> /\ WorkerKeeps

\* A late answer is tried once more after the wait was re-armed.
Ingest ==
  /\ worker.pc \in {"accept", "reaccept"}
  /\ AcceptCallback(worker.held)
  /\ worker' = [worker EXCEPT !.pc =
       CASE Acceptance(worker.held) \in {"accepted", "duplicate"} -> "record"
         [] Acceptance(worker.held) = "late" /\ worker.pc = "accept" -> "prepare"
         [] OTHER -> "invalid"]
  /\ UNCHANGED <<stream, marker>> /\ WorkerKeeps

Prepare ==
  /\ worker.pc = "prepare"
  /\ IF TimedOut(parent) /\ child.state = "awaiting-callback" /\ marker \in {None, worker.held}
     THEN marker' = worker.held /\ worker' = [worker EXCEPT !.pc = "rearm"]
     ELSE UNCHANGED marker /\ worker' = [worker EXCEPT !.pc = "invalid"]
  /\ UNCHANGED <<records, stream>> /\ WorkerKeeps

\* Fault: only a wait that is still open can be extended.
RearmableWait == parent.state = "awaiting-callback" /\ now + TimeBudget > parent.deadline_at

Rearmable ==
  /\ TimedOut(parent) /\ MayMove(parent, "awaiting-callback")
  /\ now + TimeBudget > parent.deadline_at

\* Fault: the wait is open again and still explains why it stopped.
RearmedUnanswered(r) ==
  [r EXCEPT !.state = "awaiting-callback", !.deadline_at = now + TimeBudget]

Rearmed(r) == [Go(r, "awaiting-callback", None) EXCEPT !.deadline_at = now + TimeBudget]

Rearm ==
  /\ worker.pc = "rearm"
  /\ IF Rearmable
     THEN parent' = Rearmed(parent) /\ worker' = [worker EXCEPT !.pc = "reaccept"]
     ELSE UNCHANGED parent /\ worker' = [worker EXCEPT !.pc = "invalid"]
  /\ UNCHANGED <<child, stream, marker>> /\ WorkerKeeps

\* record_provider_result: an exit that came first leaves no place for it.
RecordResult ==
  /\ worker.pc = "record"
  /\ IF stream.result = worker.held \/ (stream.result = None /\ ~stream.exited)
     THEN /\ stream' = [stream EXCEPT !.result = worker.held]
          /\ worker' = [worker EXCEPT !.pc = "conclude"]
     ELSE UNCHANGED stream /\ worker' = [worker EXCEPT !.pc = "invalid"]
  /\ UNCHANGED <<records, marker>> /\ WorkerKeeps

\* The re-arm marker is settled, the receipt written and the coordinator woken.
Conclude ==
  /\ worker.pc = "conclude"
  /\ \E woken \in BOOLEAN :
       worker' = [worker EXCEPT !.handled = TRUE,
                    !.pc = IF marker \in {None, worker.held} /\ woken THEN "poll" ELSE "invalid"]
  /\ UNCHANGED <<records, stream, marker>> /\ WorkerKeeps

\* summary_attention.
Complain ==
  /\ worker.pc = "invalid"
  /\ parent' = Raised(parent, "callback-invalid")
  /\ worker' = [worker EXCEPT !.handled = TRUE, !.pc = "poll"]
  /\ UNCHANGED <<child, stream, marker>> /\ WorkerKeeps

-----------------------------------------------------------------------------
(* The worker: the deadline, the provider's exit and its own.              *)

\* enforce_callback_deadline reads a live wait that has run out ...
NoticeDeadline ==
  /\ Watching /\ ~worker.draining /\ ~worker.handled
  /\ parent.state \in {"running", "awaiting-callback", "verifying"}
  /\ now >= parent.deadline_at
  /\ worker' = [worker EXCEPT !.pc = "expire"]
  /\ UNCHANGED <<records, stream, marker>> /\ WorkerKeeps

\* ... and moves whatever the record is by then; a terminal one ends the worker.
Expire ==
  /\ worker.pc = "expire"
  /\ parent' = Raised(parent, "callback-timeout")
  /\ worker' = [worker EXCEPT !.pc = IF parent.state \in TERMINAL THEN "gone" ELSE "poll"]
  /\ UNCHANGED <<child, stream, marker>> /\ WorkerKeeps

ObserveExit ==
  /\ Watching /\ ~worker.draining
  /\ provider = "dead" /\ ~stream.exited
  /\ stream' = [stream EXCEPT !.exited = TRUE]
  /\ parent' = IF stream.result = None THEN Raised(parent, "attention-required") ELSE parent
  /\ UNCHANGED <<child, marker, worker>> /\ WorkerKeeps

\* Fault: nobody but an answer lets the worker go.
ExitIsFinalWhenHandled == worker.handled

ExitIsFinal ==
  worker.handled \/ parent.state \in {"attention-required", "cancelling", "exiting"} \cup TERMINAL

Drain ==
  /\ worker.pc = "poll" /\ ~worker.draining
  /\ stream.exited /\ ExitIsFinal
  /\ worker' = [worker EXCEPT !.draining = TRUE]
  /\ UNCHANGED <<records, stream, marker>> /\ WorkerKeeps

Leave ==
  /\ worker.pc = "poll" /\ worker.draining /\ (worker.handled \/ worker.left = 0)
  /\ worker' = [worker EXCEPT !.pc = "gone"]
  /\ UNCHANGED <<records, stream, marker>> /\ WorkerKeeps

-----------------------------------------------------------------------------
(* The driver: accept_review_round.                                        *)

DriverKeeps == UNCHANGED <<outbox, stream, marker, worker, bounds>>
At(pc) == drv.pc = pc
Then(pc) == drv' = [drv EXCEPT !.pc = pc]
\* A refused transition is an exception that ends the command.
Raises == drv' = [drv EXCEPT !.pc = "idle"]

Collect ==
  /\ At("idle") /\ gate = "awaiting" /\ outbox # None
  /\ drv' = [drv EXCEPT !.pc = "accept", !.held = outbox, !.tries = 0, !.recovering = FALSE]
  /\ UNCHANGED <<records, provider, surface, gate>> /\ DriverKeeps

\* The attempt was given up although its answer had been accepted.
Recover ==
  /\ At("idle") /\ gate = "attention"
  /\ parent.pending_effect = None /\ child.accepted_callback # None
  /\ parent.state \in {"exiting", "complete"} \/ parent.resume_state = "exiting"
  /\ child.state \in {"verifying", "finalizing", "exiting", "complete"}
  /\ drv' = [drv EXCEPT !.pc = "finish", !.tries = 0, !.recovering = TRUE]
  /\ UNCHANGED <<records, provider, surface, gate>> /\ DriverKeeps

AcceptRound ==
  /\ At("accept")
  /\ AcceptCallback(drv.held)
  /\ IF Acceptance(drv.held) \in {"accepted", "duplicate"} THEN Then("finalizing") ELSE Raises
  /\ UNCHANGED <<provider, surface, gate>> /\ DriverKeeps

\* The three moves that close the round; the first is skipped when the answer
\* itself made it, all of them when the round has ended.
CloseRound ==
  /\ drv.pc \in {"finalizing", "exiting", "complete"}
  /\ IF drv.pc = "finalizing" /\ child.state \in TERMINAL
     THEN Then("closed") /\ UNCHANGED child
     ELSE IF MayMove(child, drv.pc)
     THEN /\ child' = Go(child, drv.pc, None)
          /\ Then(CASE drv.pc = "finalizing" -> "exiting"
                    [] drv.pc = "exiting" -> "complete"
                    [] OTHER -> "closed")
     ELSE Raises /\ UNCHANGED child
  /\ UNCHANGED <<parent, provider, surface, gate>> /\ DriverKeeps

Closed ==
  /\ At("closed")
  /\ parent' = IF Says(drv.held) = "blocked" THEN Raised(parent, "attention-required") ELSE parent
  /\ Then("finish")
  /\ UNCHANGED <<child, provider, surface, gate>> /\ DriverKeeps

-----------------------------------------------------------------------------
(* The driver: finish_review_lane, request_exit and cleanup.               *)

\* Fault: the accepted answer is enough.
ResultAccepted == child.accepted_callback # None

\* review_result_ready: the worker has recorded the accepted answer.
ResultReady == child.accepted_callback # None /\ stream.result = child.accepted_callback

AwaitResult ==
  /\ At("finish") /\ ResultReady
  /\ Then("ask")
  /\ UNCHANGED <<records, provider, surface, gate>> /\ DriverKeeps

\* The thirty seconds are over.
GiveUp ==
  /\ drv.pc \in {"finish", "cleanup", "retry"}
  /\ Then("settle")
  /\ UNCHANGED <<records, provider, surface, gate>> /\ DriverKeeps

Orphaned == provider # "dead" /\ worker.pc = "gone"

RequestExit ==
  /\ At("ask")
  /\ LET orphan == Orphaned /\ parent.state \notin TERMINAL \cup {"exiting"}
     IN /\ parent' = IF orphan THEN Raised(parent, "attention-required") ELSE parent
        /\ drv' = [drv EXCEPT
             !.alive = provider # "dead",
             !.to = IF parent.state = "attention-required" THEN "cancelling" ELSE "finalizing",
             !.pc = CASE parent.state \in TERMINAL -> "settle"
                      [] parent.state = "exiting" -> "cleanup"
                      [] orphan -> "retry"
                      [] parent.state = "finalizing" /\ ~orphan -> "begin"
                      [] OTHER -> "move"]
  /\ UNCHANGED <<child, provider, surface, gate>> /\ DriverKeeps

\* From the record as it is now, which may no longer be the one looked at.
MoveToExit ==
  /\ At("move")
  /\ IF MayMove(parent, drv.to)
     THEN parent' = Go(parent, drv.to, None) /\ Then("begin")
     ELSE UNCHANGED parent /\ Raises
  /\ UNCHANGED <<child, provider, surface, gate>> /\ DriverKeeps

BeginExit ==
  /\ At("begin")
  /\ IF parent.pending_effect # None
     THEN UNCHANGED parent /\ Raises
     ELSE IF parent.effect_id = "request-exit" /\ parent.effect_outcome = "succeeded"
     THEN UNCHANGED parent /\ Then("leave")
     ELSE parent' = Plain(Begun(parent, "request-exit")) /\ Then("act")
  /\ UNCHANGED <<child, provider, surface, gate>> /\ DriverKeeps

SignalProvider ==
  /\ At("act")
  /\ provider' = IF drv.alive /\ provider = "alive" THEN "asked" ELSE provider
  /\ Then("resolve")
  /\ UNCHANGED <<records, surface, gate>> /\ DriverKeeps

\* Fault: the outcome of the request is never written.
ResolveExitUnsaved ==
  /\ At("resolve")
  /\ Then("leave")
  /\ UNCHANGED <<records, provider, surface, gate>> /\ DriverKeeps

ResolveExit ==
  /\ At("resolve")
  /\ parent' = Plain(Settled(parent, "succeeded"))
  /\ Then("leave")
  /\ UNCHANGED <<child, provider, surface, gate>> /\ DriverKeeps

Exiting ==
  /\ At("leave")
  /\ IF MayMove(parent, "exiting")
     THEN parent' = Go(parent, "exiting", None) /\ Then("cleanup")
     ELSE UNCHANGED parent /\ Raises
  /\ UNCHANGED <<child, provider, surface, gate>> /\ DriverKeeps

\* Two more tries for an attention that may pass.
Retry ==
  /\ At("retry")
  /\ IF parent.attention_reason \in {"attention-required", "cleanup-incomplete"} /\ drv.tries < 2
     THEN drv' = [drv EXCEPT !.pc = "ask", !.tries = @ + 1]
     ELSE Then("settle")
  /\ UNCHANGED <<records, provider, surface, gate>> /\ DriverKeeps

\* Fault: cleanup does not wait for the worker.
ProviderGone == provider = "dead"

OwnersGone == provider = "dead" /\ worker.pc = "gone"

\* cleanup waits while the processes it owns may still leave by themselves.
Cleanup ==
  /\ At("cleanup")
  /\ parent.state = "exiting" => OwnersGone \/ Orphaned
  /\ IF parent.state = "attention-required" THEN UNCHANGED parent /\ Then("retry")
     ELSE IF parent.state \in TERMINAL THEN UNCHANGED parent /\ Then("settle")
     ELSE IF parent.state # "exiting" THEN UNCHANGED parent /\ Raises
     ELSE IF Orphaned THEN parent' = Raised(parent, "cleanup-incomplete") /\ Then("retry")
     ELSE IF surface = "missing" THEN UNCHANGED parent /\ Then("release")
     ELSE IF parent.pending_effect # None THEN UNCHANGED parent /\ Raises
     ELSE parent' = Plain(Begun(parent, "close-surface")) /\ Then("close")
  /\ UNCHANGED <<child, provider, surface, gate>> /\ DriverKeeps

CloseSurface ==
  /\ At("close")
  /\ surface' \in {"alive", "missing"}
  /\ Then("resolve-close")
  /\ UNCHANGED <<records, provider, gate>> /\ DriverKeeps

ResolveClose ==
  /\ At("resolve-close")
  /\ parent' = Plain(Settled(parent, "succeeded"))
  /\ Then("release")
  /\ UNCHANGED <<child, provider, surface, gate>> /\ DriverKeeps

\* The close receipt needs the recorded answer; then the resources are let go,
\* by a save under the revision just read.  The worker is gone by then and the
\* driver is the only one left to write, so the save is never stale.
Release ==
  /\ At("release")
  /\ IF surface # "missing"
     THEN parent' = Raised(parent, "cleanup-incomplete") /\ Then("retry")
     ELSE IF ResultReady
     THEN parent' = [parent EXCEPT !.resources = None] /\ Then("end")
     ELSE parent' = Raised(parent, "attention-required") /\ Then("retry")
  /\ UNCHANGED <<child, provider, surface, gate>> /\ DriverKeeps

End ==
  /\ At("end")
  /\ IF MayMove(parent, "complete")
     THEN parent' = Go(parent, "complete", None) /\ Then("settle")
     ELSE UNCHANGED parent /\ Raises
  /\ UNCHANGED <<child, provider, surface, gate>> /\ DriverKeeps

\* Fault: a session on its way out counts as gone.
CleanedUpNearly == parent.state \in {"exiting", "complete"}

CleanedUp == parent.state = "complete"

\* The attempt is answered or given up, or opened again by a recovery.
Settle ==
  /\ At("settle")
  /\ gate' = IF drv.recovering THEN (IF CleanedUp THEN "awaiting" ELSE gate)
             ELSE IF CleanedUp THEN "answered" ELSE "attention"
  /\ Then("idle")
  /\ UNCHANGED <<records, provider, surface>> /\ DriverKeeps

-----------------------------------------------------------------------------
WorkerStep ==
  \/ Observe \/ Stabilize \/ ReadAnswer \/ Ingest \/ Prepare \/ Rearm
  \/ RecordResult \/ Conclude \/ Complain
  \/ NoticeDeadline \/ Expire \/ ObserveExit \/ Drain \/ Leave

DriverStep ==
  \/ Collect \/ Recover \/ AcceptRound \/ CloseRound \/ Closed
  \/ AwaitResult \/ GiveUp \/ RequestExit \/ MoveToExit \/ BeginExit
  \/ SignalProvider \/ ResolveExit \/ Exiting \/ Retry
  \/ Cleanup \/ CloseSurface \/ ResolveClose \/ Release \/ End \/ Settle

Next ==
  \/ \E a \in Callback : Publish(a)
  \/ ProviderExits \/ Tick \/ Crash
  \/ WorkerStep \/ DriverStep

\* The worker polls in a loop and time passes; nobody has to run the driver.
Fairness == WF_roundVars(WorkerStep) /\ WF_roundVars(Tick)

Spec == Init /\ [][Next]_roundVars /\ Fairness

-----------------------------------------------------------------------------
(* Properties.                                                             *)

\* Both records can be stored and read back, and a record that asks for
\* attention says why and what to resume.
RoundTypeOK ==
  /\ \A r \in {parent, child} :
       r \in Record /\ Constructible(r) /\ Explained(r) /\ SettledAtEnd(r)
  /\ {outbox, stream.result, marker, worker.seen, worker.held, drv.held} \subseteq Callback \cup {None}
  /\ provider \in {"alive", "asked", "dead"} /\ surface \in {"alive", "missing"}
  /\ gate \in {"awaiting", "attention", "answered"}

\* The lane as the gate sees it: a wait that was marked, or re-armed for an
\* answer not yet taken, has timed out; it is leaving once its exit is begun.
Stage ==
  IF parent.state = "complete" THEN "gone"
  ELSE IF parent.effect_id # "start-provider" THEN "leaving"
  ELSE IF child.accepted_callback = None /\ (TimedOut(parent) \/ marker # None)
  THEN "timed-out" ELSE "waiting"

Lane == INSTANCE ReviewLane WITH answer <- child.accepted_callback, stage <- Stage

\* Two records written one at a time by two processes, while the reviewer
\* overwrites its file and waits time out and are re-armed, are one lane: the
\* first answer stands, and nothing is shut down before there is one.
LaneImplemented == Lane!Spec

\* An answer never slips into a wait that has run out, marked or not: it is
\* taken before the deadline or after a re-arm.
NoAnswerInAClosedWait ==
  [][child'.accepted_callback # child.accepted_callback =>
       now < parent.deadline_at /\ parent.attention_reason # "callback-timeout"]_roundVars

\* The driver asks no reviewer to exit before the other process, its worker,
\* has recorded the very answer the round accepted.
RecordedBeforeExit ==
  [][provider' = "asked" /\ provider # "asked" =>
       child.accepted_callback # None /\ stream.result = child.accepted_callback]_roundVars

\* A finished session owns nothing: the deadline check of a live worker can
\* therefore never meet a terminal record, which would kill the worker.
FinishedOwnsNothing ==
  parent.state \in TERMINAL =>
    provider = "dead" /\ worker.pc = "gone" /\ surface = "missing" /\ parent.resources = None

\* An attempt counts as answered only when round and session have ended and
\* the recorded result is the accepted answer.
AnsweredAttemptIsClosed ==
  gate = "answered" =>
    /\ parent.state = "complete" /\ child.state = "complete"
    /\ child.accepted_callback # None /\ stream.result = child.accepted_callback

\* However worker, driver and reviewer interleave, only a crash can leave a
\* step of the shutdown half done.
OnlyACrashStrands ==
  crashes = 0 /\ drv.pc = "idle" =>
    /\ parent.pending_effect = None /\ parent.state # "cancelling"
    /\ child.state # "exiting"

\* A worker outlives its provider only so long: the answer, the deadline or
\* the shutdown lets it go.
WorkerLeaves == provider = "dead" ~> worker.pc = "gone"

\* A published answer is taken while its worker lives, even after the wait ran
\* out, unless the session asks for attention for another reason.
AnswerIsTaken ==
  outbox # None ~>
    \/ child.accepted_callback # None
    \/ worker.pc = "gone"
    \/ parent.attention_reason \notin {None, "callback-timeout"}
=============================================================================
