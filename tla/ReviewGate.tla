----------------------------- MODULE ReviewGate -----------------------------
(***************************************************************************)
(* Exact-HEAD review of one task: drivers (task_review_flow.py) that       *)
(* settle the previous attempt, reserve a cycle of the finalization ledger,*)
(* open an attempt in the gate file (review_gate_attempt.py), launch its   *)
(* reviewer lanes, ingest their answers and write the verdict back.        *)
(*                                                                         *)
(* The gate file is locked only for each read-modify-write, the ledger for *)
(* each call, and a lane's records for each store call; a driver holds     *)
(* copies of all of them between its steps, may crash after any step, and  *)
(* runs again from the start.  HEAD may move at any time.  Plan amendments *)
(* and refreshed summaries, which only add ways to supersede an approval,  *)
(* are left to the ledger's own model.                                     *)
(***************************************************************************)
EXTENDS FinalizationLedger

CONSTANTS
  Axis,             \* reviewer lanes an attempt may have
  LaneAxes,         \* the lanes the policy gives the attempts of each cycle
  Driver,           \* processes that run the review command
  FirstId(_, _),    \* _attempt_id(head, cycle) without a predecessor
  HeadOf(_),        \* the HEAD an attempt identity was derived from
  MaxCommits,       \* bound on the moves of HEAD
  MaxCrashes        \* bound on the crashes of drivers

ASSUME GateAssumption ==
  /\ LaneAxes \in [1..MaxCycles -> (SUBSET Axis) \ {{}}]
  /\ \A h \in HeadSha, c \in 1..MaxCycles + 1 : FirstId(h, c) \in Attempt
  /\ \A p \in Attempt, h \in HeadSha, c \in 1..MaxCycles : BoundId(p, h, c) \in Attempt
  /\ MaxCommits \in Nat /\ MaxCrashes \in Nat

Verdict == {"approve", "changes-requested", "blocked"}

VARIABLES
  head,       \* HEAD of the product worktree
  gate,       \* review-gate.json
  session,    \* the store records of each lane: reviewer session and round
  answers,    \* accepted callbacks of every round there ever was
  outbox,     \* the callback file of each axis
  drv,        \* what each driver holds between its steps
  commits, crashes

gateVars == <<head, gate, session, answers, outbox, drv, commits, crashes, ledger, granted>>

Identity(g) == [id |-> g.id, cycle |-> g.cycle, head |-> g.head]

NoLane == [a \in Axis |-> "none"]
NoFinal == [a \in Axis |-> ""]
NoPost == [op |-> NoAttempt, answer |-> ""]
NoSession == [op |-> NoAttempt, child |-> "none", answer |-> "", parent |-> "none"]

\* The gate file before it exists, and the one _initialize_attempt writes.
FreshGate(id, cycle, h) ==
  [id |-> id, cycle |-> cycle, head |-> h, phase |-> "pending", result |-> "",
   graded |-> FALSE, op |-> id, status |-> "pending", lanes |-> NoLane, finals |-> NoFinal]

NoGate == FreshGate(NoAttempt, 0, NoAttempt)

NoRequest(h) ==
  [attempt |-> NoAttempt, head |-> h, predecessor |-> NoAttempt,
   supersedes |-> NoAttempt, recover |-> FALSE]

\* A driver that is not running holds nothing.
Idle ==
  [pc |-> "idle", head |-> NoAttempt, seen |-> NoGate, run |-> Identity(NoGate),
   ready |-> NoFinal, axis |-> CHOOSE a \in Axis : TRUE, q |-> NoRequest(NoAttempt), cycle |-> 0,
   mine |-> {}, draining |-> FALSE]

Init ==
  /\ LedgerInit
  /\ head \in HeadSha
  /\ gate = NoGate
  /\ session = [a \in Axis |-> NoSession]
  /\ answers = {}
  /\ outbox = [a \in Axis |-> NoPost]
  /\ drv = [d \in Driver |-> Idle]
  /\ commits = 0 /\ crashes = 0

Exists(g) == g.id # NoAttempt
Axes(identity) == LaneAxes[identity.cycle]

-----------------------------------------------------------------------------
(* What the environment does: the executor, the reviewers, their workers.  *)

Commit ==
  /\ commits < MaxCommits
  /\ head' \in HeadSha \ {head}
  /\ commits' = commits + 1
  /\ UNCHANGED <<gate, session, answers, outbox, drv, crashes, ledger, granted>>

\* A reviewer publishes its answer, or publishes another one over it.
Answer(a, v) ==
  /\ session[a].parent = "live"
  /\ outbox' = [outbox EXCEPT ![a] = [op |-> session[a].op, answer |-> v]]
  /\ UNCHANGED <<head, gate, session, answers, drv, commits, crashes, ledger, granted>>

\* Fault: a later file replaces the answer a round has accepted.
TakeAgain(a, parent) ==
  /\ outbox[a].op = session[a].op /\ session[a].child \in {"awaiting", "accepted"}
  /\ session' = [session EXCEPT ![a].child = "accepted", ![a].answer = outbox[a].answer,
                                ![a].parent = parent]
  /\ answers' = answers \cup {<<session[a].op, a, outbox[a].answer>>}

\* The round takes the answer the outbox holds.
Take(a, parent) ==
  /\ outbox[a].op = session[a].op /\ session[a].child = "awaiting"
  /\ session' = [session EXCEPT ![a].child = "accepted", ![a].answer = outbox[a].answer,
                                ![a].parent = parent]
  /\ answers' = answers \cup {<<session[a].op, a, outbox[a].answer>>}

\* The worker accepts in time, or after it re-armed a wait that ran out.
WorkerAccepts(a) ==
  /\ session[a].parent \in {"live", "attention"}
  /\ Take(a, "live")
  /\ UNCHANGED <<head, gate, outbox, drv, commits, crashes, ledger, granted>>

WaitRunsOut(a) ==
  /\ session[a].parent = "live" /\ session[a].child = "awaiting"
  /\ session' = [session EXCEPT ![a].parent = "attention"]
  /\ UNCHANGED <<head, gate, answers, outbox, drv, commits, crashes, ledger, granted>>

\* A session whose start is uncertain is cancelled by an operator.
Retire(a) ==
  /\ session[a].parent = "attention" /\ session[a].child = "failed"
  /\ session' = [session EXCEPT ![a].parent = "failed"]
  /\ UNCHANGED <<head, gate, answers, outbox, drv, commits, crashes, ledger, granted>>

-----------------------------------------------------------------------------
(* Steps of a driver.                                                      *)

\* The driver goes on holding r, or it returned or raised.
Hold(d, r) == drv' = [drv EXCEPT ![d] = r]
Leave(d) == Hold(d, Idle)

KeepLedger == UNCHANGED <<ledger, granted>>
KeepWorld == UNCHANGED <<head, commits, crashes>>
KeepLanes == UNCHANGED <<session, answers, outbox>>
ReadOnly == UNCHANGED gate /\ KeepLedger /\ KeepWorld /\ KeepLanes

Crash(d) ==
  /\ drv[d].pc # "idle" /\ crashes < MaxCrashes
  /\ crashes' = crashes + 1
  /\ Leave(d)
  /\ UNCHANGED <<head, gate, session, answers, outbox, commits, ledger, granted>>

\* rehydrate_attempt and _collect_ready_results: every callback file present
\* belongs to a round of this attempt.
Rehydrates(g) ==
  /\ g.phase = "awaiting-callback" /\ g.lanes # NoLane
  /\ \A a \in Axes(g) :
       /\ g.lanes[a] = "done" => session[a].child \in {"accepted", "complete"}
       /\ outbox[a].op \in {NoAttempt, g.id}

Collected(g) == [a \in Axis |-> IF a \in Axes(g) THEN outbox[a].answer ELSE ""]

\* The first reads: an answered attempt of another HEAD is drained first.
Observe(d) ==
  /\ drv[d].pc = "idle"
  /\ IF Exists(gate) /\ gate.phase # "terminal" /\ gate.head # head
     THEN /\ Rehydrates(gate) /\ Collected(gate) # NoFinal
          /\ Hold(d, [Idle EXCEPT !.pc = "pick", !.run = Identity(gate),
                                  !.ready = Collected(gate), !.draining = TRUE])
     ELSE Hold(d, [Idle EXCEPT !.pc = "decide"])
  /\ ReadOnly

\* accepted_callback_cleanup_is_complete: the one lane is answered and gone.
CleanupComplete(g) ==
  /\ g.phase = "awaiting-callback" /\ g.status = "reviewing"
  /\ \E a \in Axis : /\ Axes(g) = {a} /\ g.lanes[a] = "done"
                     /\ session[a].child \in {"accepted", "complete"}
                     /\ session[a].parent = "complete"

\* Fault: any ended attempt whose lane answered counts as interrupted.
InterruptedByAnswer(g) ==
  /\ g.phase = "terminal"
  /\ \E a \in Axis : /\ Axes(g) = {a} /\ session[a].op = g.id
                     /\ session[a].child \in {"accepted", "complete"}
                     /\ session[a].parent \in {"exiting", "complete"}

\* _attention_attempt and _accepted_records: a one-lane attempt that was given
\* up although its answer had been accepted.
Interrupted(g) ==
  /\ g.phase = "terminal" /\ g.result = "attention-required" /\ ~g.graded
  /\ g.status = "attention-required" /\ g.finals = NoFinal
  /\ \E a \in Axis : /\ Axes(g) = {a} /\ g.lanes[a] # "none"
                     /\ session[a].op = g.id
                     /\ session[a].child \in {"accepted", "complete"}
                     /\ session[a].parent \in {"exiting", "complete"}

Held(g, h) ==
  [NoRequest(h) EXCEPT !.attempt = g.id, !.recover = CleanupComplete(g)]

Decide(d) ==
  /\ drv[d].pc = "decide"
  /\ LET r == [drv[d] EXCEPT !.head = head, !.seen = gate]
     IN IF ~Exists(gate)
        THEN Hold(d, [r EXCEPT !.pc = "reserve", !.cycle = 1,
                               !.q = [NoRequest(head) EXCEPT !.attempt = FirstId(head, 1)]])
        ELSE IF gate.phase # "terminal"
        THEN Hold(d, [r EXCEPT !.pc = "reserve", !.cycle = gate.cycle, !.q = Held(gate, head)])
        ELSE Hold(d, [r EXCEPT !.pc = IF Interrupted(gate) THEN "recover" ELSE "settle"])
  /\ ReadOnly

\* The bounded exit and cleanup of a lane, complete or not when it gives up.
CleanedUp(a) ==
  {p \in {"live", "exiting", "complete", "failed"} :
     CASE session[a].parent \in {"complete", "failed"} -> p = session[a].parent
       [] session[a].parent = "live" -> p # "failed"
       [] OTHER -> p \in {"exiting", "complete"}}

\* finish_review_lane inside recover_accepted_callback_cleanup.
Recover(d) ==
  /\ drv[d].pc = "recover"
  /\ LET a == CHOOSE x \in Axes(drv[d].seen) : TRUE
     IN \E p \in CleanedUp(a) :
          /\ session' = [session EXCEPT ![a].parent = p]
          /\ Hold(d, [drv[d] EXCEPT !.pc = IF p = "complete" THEN "reopen" ELSE "settle",
                                    !.axis = a])
  /\ UNCHANGED <<gate, answers, outbox>> /\ KeepLedger /\ KeepWorld

\* Fault: the attempt is opened again with its old result.
ReopenedWithResult(g, a) ==
  [g EXCEPT !.phase = "awaiting-callback", !.status = "reviewing", !.lanes[a] = "done"]

Reopened(g, a) ==
  [g EXCEPT !.phase = "awaiting-callback", !.result = "", !.status = "reviewing",
            !.lanes[a] = "done"]

\* Its compare-and-swap of the gate.
Reopen(d) ==
  /\ drv[d].pc = "reopen"
  /\ IF gate # drv[d].seen THEN Leave(d) /\ UNCHANGED gate
     ELSE LET g == Reopened(gate, drv[d].axis)
          IN /\ gate' = g
             /\ Hold(d, [drv[d] EXCEPT !.pc = "reserve", !.seen = g, !.cycle = g.cycle,
                           !.q = [NoRequest(drv[d].head) EXCEPT !.attempt = g.id, !.recover = TRUE]])
  /\ KeepLedger /\ KeepWorld /\ KeepLanes

Terminated(s) == s.parent \in {"none", "complete", "failed"}
                 /\ s.child \in {"none", "complete", "failed"}

\* zero_effect_terminal_attempt: given up before a lane was ever recorded.
ZeroEffect(g) ==
  /\ g.phase = "terminal" /\ g.result = "attention-required" /\ ~g.graded
  /\ g.status = "attention-required" /\ g.lanes = NoLane /\ g.finals = NoFinal

\* Fault: the parent's uncertain effect is not looked at.
QuiescentChild(g) == \A a \in Axis : session[a].op = g.id => session[a].child = "failed"

\* review_attempt_records_are_quiescent and review_attempt_records_are_released.
Quiescent(g) ==
  \A a \in Axis : session[a].op = g.id => session[a].parent = "failed" /\ session[a].child = "failed"
RecordsReleased(g) == \A a \in Axes(g) : session[a].op = g.id => Terminated(session[a])

\* record_terminal of an attempt: decided, released, already recorded or refused.
RecordTerminal(id, result) ==
  \/ result \in Product /\ RecordProduct(id, result)
  \/ result \in Mechanism /\ RecordMechanism(id, result)

Recorded(id, result) ==
  \/ \E i \in DOMAIN ledger.cycles :
       ledger.cycles[i].attempt = id /\ ledger.cycles[i].result = result /\ result \in Product
  \/ \E i \in DOMAIN ledger.attempts :
       ledger.attempts[i].attempt = id /\ ledger.attempts[i].classification = result

Refused(id, result) ==
  /\ ~Recorded(id, result)
  /\ ~(Decidable(ledger, id) /\ (result \in Mechanism => Releasable(ledger, id)))

CycleOf(id) ==
  IF InCycles(ledger, id)
  THEN CHOOSE i \in DOMAIN ledger.cycles : ledger.cycles[i].attempt = id
  ELSE ledger.attempts[CHOOSE i \in DOMAIN ledger.attempts : ledger.attempts[i].attempt = id].cycle
\* The callback files of earlier rounds make room for the next attempt; a file
\* that is not an accepted answer stops the driver.
Archivable(g) ==
  \A a \in Axes(g) : outbox[a].op # NoAttempt => <<outbox[a].op, a, outbox[a].answer>> \in answers

Vacated(g) == [a \in Axis |-> IF a \in Axes(g) THEN NoPost ELSE outbox[a]]

\* The request for the attempt that follows a terminal one.
Successor(g, h) ==
  LET number == CycleOf(g.id)
  IN IF g.result \in Mechanism
     THEN [cycle |-> number,
           q |-> [NoRequest(h) EXCEPT !.attempt = BoundId(g.id, h, number), !.predecessor = g.id]]
     ELSE [cycle |-> number + 1,
           q |-> [NoRequest(h) EXCEPT !.attempt = FirstId(h, number + 1)]]

\* The result of the previous attempt reaches the ledger before anything is
\* decided about the next one.
Settle(d) ==
  /\ drv[d].pc = "settle"
  /\ LET g == drv[d].seen
         vacate == ZeroEffect(g) /\ Quiescent(g) /\ Archivable(g)
     IN /\ outbox' = IF vacate THEN Vacated(g) ELSE outbox
        /\ IF (ZeroEffect(g) /\ ~vacate) \/ Refused(g.id, g.result)
           THEN Leave(d) /\ KeepLedger
           ELSE /\ Hold(d, [drv[d] EXCEPT !.pc = "succeed"])
                /\ IF Recorded(g.id, g.result) THEN KeepLedger ELSE RecordTerminal(g.id, g.result)
  /\ UNCHANGED <<gate, session, answers>> /\ KeepWorld

\* At an unmoved HEAD only an attempt that caused no effect has a successor.
Succeed(d) ==
  /\ drv[d].pc = "succeed"
  /\ LET g == drv[d].seen
         h == drv[d].head
         archive == g.graded /\ h # g.head
         next == Successor(g, h)
     IN IF (h = g.head /\ ~ZeroEffect(g)) \/ (archive /\ ~Archivable(g))
        THEN Leave(d) /\ UNCHANGED outbox
        ELSE /\ outbox' = IF archive THEN Vacated(g) ELSE outbox
             /\ Hold(d, [drv[d] EXCEPT !.pc = "reserve", !.cycle = next.cycle, !.q = next.q])
  /\ UNCHANGED <<gate, session, answers>> /\ KeepLedger /\ KeepWorld

\* Fault: the driver goes on without its reservation.
ReserveCycleLater(d) ==
  /\ drv[d].pc = "reserve"
  /\ Hold(d, [drv[d] EXCEPT !.pc = "enter"])
  /\ ReadOnly

\* reserve_exact_head_attempt: a refusal ends the driver, and so does a
\* reservation that took another cycle than the driver expected.
ReserveCycle(d) ==
  /\ drv[d].pc = "reserve"
  /\ LET q == drv[d].q
         proceed == Hold(d, [drv[d] EXCEPT !.pc = "enter"])
     IN \/ /\ Reserve(q)
           /\ IF NextNumber(ledger) = drv[d].cycle THEN proceed ELSE Leave(d)
        \/ /\ RecoverAttention(q)
           /\ IF NextNumber(ledger) = drv[d].cycle THEN proceed ELSE Leave(d)
        \/ /\ ~Reservable(ledger, q) /\ ~Recoverable(ledger, q)
           /\ IF Known(ledger, q) /\ CycleOf(q.attempt) = drv[d].cycle THEN proceed ELSE Leave(d)
           /\ KeepLedger
  /\ UNCHANGED gate /\ KeepWorld /\ KeepLanes

\* With the reservation in hand: a new attempt, or the answers of this one.
Enter(d) ==
  /\ drv[d].pc = "enter"
  /\ IF ~Exists(drv[d].seen) \/ gate.phase = "terminal"
     THEN Hold(d, [drv[d] EXCEPT !.pc = "initialize"])
     ELSE IF /\ gate.id = drv[d].q.attempt /\ gate.head = drv[d].head
             /\ gate.status = "reviewing" /\ Rehydrates(gate)
     THEN Hold(d, [drv[d] EXCEPT !.pc = "pick", !.run = Identity(gate), !.ready = Collected(gate)])
     ELSE Leave(d)
  /\ ReadOnly

-----------------------------------------------------------------------------
(* Opening an attempt and launching its lanes.                             *)

\* The boundary _initialize_attempt asks of the terminal attempt it replaces.
MayReplace(g, r) ==
  LET following == r.cycle = g.cycle + 1
      retry == r.q.attempt = BoundId(g.id, r.head, r.cycle)
      untouched == ZeroEffect(g) /\ g.op = g.id /\ Quiescent(g)
                   /\ \A a \in Axes(g) : outbox[a] = NoPost
      effectful == /\ g.result \in Mechanism /\ g.status = g.result /\ g.op = g.id
                   /\ g.lanes # NoLane /\ g.head # r.head /\ RecordsReleased(g)
  IN /\ following \/ retry
     /\ retry => untouched \/ effectful
     /\ following => g.head # r.head

Initialize(d) ==
  /\ drv[d].pc = "initialize"
  /\ LET r == drv[d]
         fresh == FreshGate(r.q.attempt, r.cycle, r.head)
         start == Hold(d, [r EXCEPT !.pc = "run", !.run = Identity(fresh)])
     IN IF ~Exists(gate) \/ (gate.phase = "terminal" /\ MayReplace(gate, r))
        THEN gate' = fresh /\ start
        ELSE UNCHANGED gate /\ IF gate = fresh THEN start ELSE Leave(d)
  /\ KeepLedger /\ KeepWorld /\ KeepLanes

\* _replace of the attempt alone: the driver's own copy goes over whatever
\* attempt the gate holds by now.
WithAttempt(g, identity, phase, result, graded) ==
  [g EXCEPT !.id = identity.id, !.cycle = identity.cycle, !.head = identity.head,
            !.phase = phase, !.result = result, !.graded = graded]

Run(d) ==
  /\ drv[d].pc = "run"
  /\ gate' = [WithAttempt(gate, drv[d].run, "running", "", FALSE) EXCEPT !.status = "running"]
  /\ Hold(d, [drv[d] EXCEPT !.pc = "launch"])
  /\ KeepLedger /\ KeepWorld /\ KeepLanes

ToLaunch(d) == Axes(drv[d].run) \ drv[d].mine

\* start_review reuses the session of a lane that exists already.
Launch(d) ==
  /\ drv[d].pc = "launch"
  /\ \E a \in ToLaunch(d) :
       /\ IF session[a].op = drv[d].run.id THEN UNCHANGED session
          ELSE /\ outbox[a] = NoPost
               /\ session' = [session EXCEPT ![a] =
                    [op |-> drv[d].run.id, child |-> "awaiting", answer |-> "", parent |-> "live"]]
       /\ Hold(d, [drv[d] EXCEPT !.mine = @ \cup {a}])
  /\ UNCHANGED <<gate, answers, outbox>> /\ KeepLedger /\ KeepWorld

\* One lane cannot be started: its own records end failed or uncertain, and
\* the lanes started before it are asked to exit.
LaunchFails(d) ==
  /\ drv[d].pc = "launch" /\ ToLaunch(d) # {}
  /\ \E a \in ToLaunch(d), own \in {"failed", "attention"}, rest \in {"exiting", "complete"} :
       /\ session[a].op # drv[d].run.id
       /\ session' = [x \in Axis |->
            IF x = a /\ outbox[a] = NoPost
            THEN [op |-> drv[d].run.id, child |-> "failed", answer |-> "", parent |-> own]
            ELSE IF x \in drv[d].mine
            THEN [session[x] EXCEPT !.child = IF @ = "complete" THEN @ ELSE "failed", !.parent = rest]
            ELSE session[x]]
       /\ Hold(d, [drv[d] EXCEPT !.pc = "fail"])
  /\ UNCHANGED <<gate, answers, outbox>> /\ KeepLedger /\ KeepWorld

Fail(d) ==
  /\ drv[d].pc = "fail"
  /\ gate' = [WithAttempt(gate, drv[d].run, "terminal", "attention-required", FALSE)
                EXCEPT !.status = "attention-required"]
  /\ Leave(d)
  /\ KeepLedger /\ KeepWorld /\ KeepLanes

Await(d) ==
  /\ drv[d].pc = "launch" /\ ToLaunch(d) = {}
  /\ gate' = [WithAttempt(gate, drv[d].run, "awaiting-callback", "", FALSE)
                EXCEPT !.status = "reviewing", !.op = drv[d].run.id,
                       !.lanes = [a \in Axis |-> IF a \in Axes(drv[d].run) THEN "open" ELSE "none"]]
  /\ Leave(d)
  /\ KeepLedger /\ KeepWorld /\ KeepLanes
-----------------------------------------------------------------------------
(* Ingesting the answers of an attempt.                                    *)

\* complete_attempt_round up to accept_review_round: the answer collected for
\* the lane becomes the round's, unless the round has another or ran out.  The
\* verdict is the one _lane_terminal_verdict makes of the answer: what asks for
\* changes without a material finding approves, and without any is no answer.
Pick(d) ==
  /\ drv[d].pc = "pick"
  /\ \E a \in Axis :
       LET r == [drv[d] EXCEPT !.ready[a] = "", !.axis = a]
           v == drv[d].ready[a]
           s == session[a]
           open == gate.phase = "awaiting-callback" /\ Identity(gate) = drv[d].run
           takes == s.child = "awaiting" /\ s.parent = "live"
           agrees == s.child \in {"accepted", "complete"} /\ s.answer = v
       IN /\ v # ""
          /\ IF gate.finals[a] # ""
             THEN Hold(d, r) /\ UNCHANGED <<session, answers>>
             ELSE IF open /\ (takes \/ agrees)
             THEN /\ session' = [session EXCEPT ![a].child = "complete", ![a].answer = v,
                       ![a].parent = IF v = "blocked" /\ @ = "live" THEN "attention" ELSE @]
                  /\ answers' = answers \cup {<<s.op, a, v>>}
                  /\ Hold(d, [r EXCEPT !.pc = "clean", !.seen = [NoGate EXCEPT !.finals[a] = v]])
             ELSE Leave(d) /\ UNCHANGED <<session, answers>>
  /\ UNCHANGED <<gate, outbox>> /\ KeepLedger /\ KeepWorld

\* Every answer at hand is in the gate.
Picked(d) ==
  /\ drv[d].pc = "pick" /\ drv[d].ready = NoFinal
  /\ Hold(d, [drv[d] EXCEPT !.pc = "record"])
  /\ ReadOnly

\* finish_review_lane of the lane whose answer was taken.
Clean(d) ==
  /\ drv[d].pc = "clean"
  /\ LET a == drv[d].axis
     IN \E p \in IF session[a].op = drv[d].run.id THEN CleanedUp(a) ELSE {"complete"} :
          /\ session' = IF session[a].op = drv[d].run.id
                        THEN [session EXCEPT ![a].parent = p] ELSE session
          /\ Hold(d, [drv[d] EXCEPT !.pc = IF p = "complete" THEN "merge" ELSE "attend"])
  /\ UNCHANGED <<gate, answers, outbox>> /\ KeepLedger /\ KeepWorld

\* The reviewer could not be cleaned up: the attempt is given up.
Attend(d) ==
  /\ drv[d].pc = "attend"
  /\ gate' = [WithAttempt(gate, drv[d].run, "terminal", "attention-required", FALSE)
                EXCEPT !.status = "attention-required"]
  /\ Hold(d, [drv[d] EXCEPT !.pc = "record"])
  /\ KeepLedger /\ KeepWorld /\ KeepLanes

\* Lanes and results are read from the gate, then put back with this answer.
ReadResults(d) ==
  /\ drv[d].pc = "merge"
  /\ LET v == drv[d].seen.finals[drv[d].axis]
     IN Hold(d, [drv[d] EXCEPT !.pc = "write",
                   !.seen = [NoGate EXCEPT
                               !.lanes = [gate.lanes EXCEPT ![drv[d].axis] = "done"],
                               !.finals = [gate.finals EXCEPT ![drv[d].axis] = v]]])
  /\ ReadOnly

WriteResults(d) ==
  /\ drv[d].pc = "write"
  /\ gate' = [gate EXCEPT !.status = "reviewing", !.lanes = drv[d].seen.lanes,
                          !.finals = drv[d].seen.finals]
  /\ Hold(d, [drv[d] EXCEPT !.pc = "finish", !.seen = NoGate])
  /\ KeepLedger /\ KeepWorld /\ KeepLanes

\* Fault: a blocked lane does not count.
OutcomeUnblocked(finals, axes) ==
  IF \E a \in axes : finals[a] = "changes-requested" THEN "changes-requested" ELSE "approved"

\* _terminal_result.
Outcome(finals, axes) ==
  LET said == {finals[a] : a \in axes}
  IN IF "blocked" \in said THEN "blocked"
     ELSE IF "changes-requested" \in said THEN "changes-requested"
     ELSE "approved"

Finish(d) ==
  /\ drv[d].pc = "finish"
  /\ LET axes == Axes(drv[d].run)
         result == Outcome(gate.finals, axes)
     IN IF \E a \in axes : gate.finals[a] = ""
        THEN Hold(d, [drv[d] EXCEPT !.pc = "pick"]) /\ UNCHANGED gate
        ELSE /\ gate' = [WithAttempt(gate, drv[d].run, "terminal", result, TRUE)
                           EXCEPT !.status = result]
             /\ Hold(d, [drv[d] EXCEPT !.pc = "record"])
  /\ KeepLedger /\ KeepWorld /\ KeepLanes

\* The end of a run: a terminal attempt goes to the ledger.  A driver that
\* drained an older HEAD goes on with the new one instead.
Record(d) ==
  /\ drv[d].pc = "record"
  /\ IF gate.phase = "terminal" /\ drv[d].draining
     THEN Hold(d, [Idle EXCEPT !.pc = "decide"]) /\ KeepLedger
     ELSE /\ Leave(d)
          /\ IF /\ gate.phase = "terminal" /\ ~drv[d].draining
                /\ ~Recorded(gate.id, gate.result) /\ ~Refused(gate.id, gate.result)
             THEN RecordTerminal(gate.id, gate.result) ELSE KeepLedger
  /\ UNCHANGED gate /\ KeepWorld /\ KeepLanes

-----------------------------------------------------------------------------
Environment ==
  \/ Commit
  \/ \E a \in Axis : WorkerAccepts(a) \/ WaitRunsOut(a) \/ Retire(a)
  \/ \E a \in Axis, v \in Verdict : Answer(a, v)

DriverStep(d) ==
  \/ Observe(d) \/ Decide(d) \/ Recover(d) \/ Reopen(d) \/ Settle(d) \/ Succeed(d)
  \/ ReserveCycle(d) \/ Enter(d) \/ Initialize(d) \/ Run(d)
  \/ Launch(d) \/ LaunchFails(d) \/ Fail(d) \/ Await(d)
  \/ Pick(d) \/ Picked(d) \/ Clean(d) \/ Attend(d)
  \/ ReadResults(d) \/ WriteResults(d) \/ Finish(d) \/ Record(d)

Next == Environment \/ \E d \in Driver : DriverStep(d) \/ Crash(d)

Spec == Init /\ [][Next]_gateVars

-----------------------------------------------------------------------------
(* Properties.                                                             *)

GateTypeOK ==
  /\ LedgerTypeOK
  /\ head \in HeadSha
  /\ gate.phase \in {"pending", "running", "awaiting-callback", "terminal"}
  /\ gate.result \in Product \cup Mechanism \cup {""}
  /\ (gate.phase = "terminal") = (gate.result # "")
  /\ gate.lanes \in [Axis -> {"none", "open", "done"}]
  /\ gate.finals \in [Axis -> Verdict \cup {""}]
  /\ \A a \in Axis :
       /\ session[a].child \in {"none", "awaiting", "accepted", "complete", "failed"}
       /\ session[a].parent \in {"none", "live", "attention", "exiting", "complete", "failed"}
       /\ session[a].answer \in Verdict \cup {""}

\* No session is opened for an attempt the ledger did not authorize.
ReservedBeforeEffect == \A a \in Axis : session[a].op \in granted \cup {NoAttempt}

\* A verdict of the ledger is what the accepted callbacks of exactly that
\* attempt said: every lane of an approved cycle approved.
VerdictIsAnswered ==
  \A i \in DOMAIN ledger.cycles :
    LET said(a, v) == <<ledger.cycles[i].attempt, a, v>> \in answers
    IN /\ ledger.cycles[i].result = "approved" => \A a \in LaneAxes[i] : said(a, "approve")
       /\ ledger.cycles[i].result = "changes-requested" =>
            /\ \A a \in LaneAxes[i] : said(a, "approve") \/ said(a, "changes-requested")
            /\ \E a \in LaneAxes[i] : said(a, "changes-requested")

\* One round has one answer, however often the reviewer overwrites the file.
OneAnswer ==
  \A x, y \in answers : x[1] = y[1] /\ x[2] = y[2] => x = y

\* The terminal result of an attempt is written once; only an attempt that was
\* given up although its lane had answered is opened again.
TerminalIsOneShot ==
  [][gate.phase = "terminal" /\ gate'.id = gate.id =>
       \/ gate'.phase = "terminal" /\ gate'.result = gate.result
       \/ /\ gate.result = "attention-required" /\ gate'.phase = "awaiting-callback"
          /\ \E a \in Axis : session[a].op = gate.id /\ session[a].answer # ""]_gateVars

\* No reviewer of an attempt is started while a lane of another one may live.
OneGeneration ==
  [][\A a \in Axis : session'[a].op # session[a].op =>
       \A b \in Axis : session[b].op \in {NoAttempt, session'[a].op} \/ Terminated(session[b])]_gateVars

\* An approved cycle names the HEAD its reviewers were opened for.
ApprovedHeadWasReviewed ==
  \A i \in DOMAIN ledger.cycles :
    ledger.cycles[i].result = "approved" =>
      ledger.cycles[i].head = HeadOf(ledger.cycles[i].attempt)
=============================================================================
