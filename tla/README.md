# TLA+ models of llm-obsidian

llm-obsidian is a local-first workspace in which Claude Code and Codex share one
memory, a vault of Markdown pages. Three things in it are programs with state worth
a proof: the **harness** (`scripts/harness`), which drives provider sessions
through operations stored on disk and may be killed and restarted anywhere; the
**review machinery** on top of it, which must not let a change through that no
reviewer approved; and the **scripts that write shared files** (the vault and the
task-session registry), which run as short processes beside each other. There is
no server and no database: everything is a JSON file that is replaced atomically,
an advisory `flock`, and a convention about the order of writes. What can go wrong
is therefore an interleaving of two processes, a death between two replaced
files, or a decision taken on a file that has changed since it was read.

## 1. Inventory

| Component | State it keeps | Operations | Interacts with | Must guarantee |
|---|---|---|---|---|
| Operation record, state machine (`contracts.py`, `state_machine.py`) | state, revision, pending effect and outcome, attention reason and resume state, counters, limits, deadline | `transition`, `begin_effect`, `resolve_effect` (pure) | everything in the harness | a record can always be read again; a pending effect blocks progress; terminal is final, but for a round that its start failed and a late start reopens |
| Operation store (`store.py`) | one file per operation, one lock per owner | create, read, save under a revision, transition, begin/resolve effect, `accept_callback`, `rearm_callback_timeout`, `recover_late_started_review_round` | supervisor, worker, CLI | compare-and-swap; no half-written record; an accepted answer is kept |
| Operation supervisor (`supervisor.py`) | none of its own | bind, budget, continuation, deadline check, retirement, completion of a round after a supported close, `effect` | store; callers in launch, cleanup, verification, reap | write-ahead effects, no lost charge |
| Worker loop (`runtime_worker*.py`) | process, wake source, ready file, counters of its drain | polling loop: callback, deadline, exit request, provider exit | supervisor, callbacks, provider | a live wait ends in an answer or in typed attention; the worker leaves |
| Callbacks and review rounds (`callbacks.py`, `runtime_worker_review_bridge.py`, `workflows/review.py`) | callback file, re-arm marker, child record per round, parent record per lane | publish, inspect, accept, re-arm, close a round | store, worker, driver | one answer per round; a late answer does not beat its timeout silently |
| Runtime session (`runtime_session_*.py`) | surface, process group, session ids in the record | launch, continue, checkpoint, request exit, clean up, cancel | supervisor effects, cmux, provider | no orphaned process, no double start, closed only after its result |
| Review gate (`workflows/review_gate_attempt.py`, `review_attempt.py`, `review_cleanup_recovery.py`, `pre_model_reviewer_retirement.py`) | gate file: attempt, lanes, results, decision | initialize, replace, launch, ingest, end, reopen, archive callbacks | ledger, rounds, git HEAD | an attempt is ended once and is about the HEAD it names |
| Finalization ledger (`finalization_ledger.py`) | cycles, receipts, disposition | reserve, recover, release, decide | task review driver | at most `max_cycles` verdicts, one attempt at a time, each authorized once |
| Task reviews (`task_review_flow.py`) | nothing durable; copies of gate, ledger and HEAD | one run of the exact-HEAD review command | gate, ledger, sessions | the verdict of the ledger is what reviewers said of that HEAD |
| Verification run (`runtime_worker_verification.py`) | attempt and decision files, operation | run, charge, finalize | supervisor | a started verification ends in a receipt |
| Delivery, provider events, liveness | cursor, send attempts, nudge and submit receipts | decide, record outcome, observe, reserve/mark/settle | provider, worker | at most two sends; a nudge is not repeated after a restart |
| Vault writer (`vault-write.py`, `vault_write_*.py`) | pages, log, manifest; one journal; one lock | read payload, recover, plan, journal, apply | skills, hooks, `reindex.py`, editors | multi-file write is atomic, deaths included |
| Task-session registry (`task_session_store.py`) | task, lane and operation files; task and lane locks | enqueue, claim, transition, archive, bind session | cmux exit, reap, CLI | one active operation per lane, FIFO, nothing dropped |
| Address allocator (`allocate-address.py`) | counter file, lock | allocate, peek, rebuild | page writers | no address twice |
| Split execution, workflows, dispatch commands | DAG of slices, run claims | activate, join, dispatch, reap | supervisor | each slice once |
| Retrieval, routing, prompts, dashboards, telemetry, release tooling, adapters | caches, logs | - | - | out of scope (section 8) |

**Where the components meet.** Several processes hold an `OperationSupervisor`
over one record: the worker, a cleanup or cancel, the reap and review commands.
Store calls take the owner lock and are atomic. Supervisor calls read *without*
the lock, decide, and save under the revision they read. A review command and the
worker of a reviewer ingest *the same* callback file into the same two records.
The command runs over three files that are locked one at a time - the gate, the
ledger, the session's records - while HEAD moves under it, and starts again from the
beginning when it died. `vault-write` processes meet at the vault lock and at the
journal a dead one leaves behind; `reindex.py` and people editing in Obsidian
write the same files without the lock. Task-session calls meet at two kinds of
lock, one of which `archive_task` does not take.

## 2. Modules

| Module | What it is |
|---|---|
| `OperationRecord` | record type, the constructor's checks, and every pure transition as an operator |
| `OperationSupervisor` | coordinators over one stored record: every store and supervisor call that writes it, the broker's accept and the worker's recovery, as actions |
| `MCOperationSupervisor`; `OperationRecordProofs`, `OperationSupervisorProofs` | small instances; lemmas per transition; theorems |
| `CycleBudget` | abstract: a bounded sequence of verdicts, each by an attempt authorized once |
| `FinalizationLedger` | the ledger file and every call that writes it; implements `CycleBudget` |
| `MCFinalizationLedger`; `FinalizationLedgerProofs` | small instance; theorems |
| `ReviewGate` | extends the ledger: drivers, gate file, reviewer lanes, HEAD |
| `MCReviewGate`; `ReviewGateProofs`, `ReviewGateDriversProofs` | small instances; theorems for one driver, and for any number |
| `ReviewLane` | abstract: a lane takes one answer and is shut down only after it |
| `ReviewRound` | worker, driver and reviewer over the two `OperationRecord`s of one round; implements `ReviewLane` |
| `MCReviewRound`; `ReviewRoundProofs` | small instance; theorems |
| `VaultPayload` | a payload as a function from paths to expected and new contents; planning |
| `AtomicVault` | abstract: a multi-file compare-and-swap in one step |
| `VaultWrite` | vault-write processes, the journal, deaths, foreign edits; implements `AtomicVault` |
| `MCVaultWrite`; `VaultWriteProofs` | small instances; theorems |
| `LaneQueues` | abstract: FIFO queues with one active operation each |
| `TaskSessionLanes` | the store's calls with their locks and two-file writes; implements `LaneQueues` |
| `MCTaskSessionLanes`; `TaskSessionLanesProofs` | small instances; theorems |

Definitions marked *Fault* in a comment are the plausible bugs each property is
tested against; no specification uses them.

### 2.1 The operation supervisor

`rec` is the file on disk, `snap[c]` the record coordinator `c` has read, `pc[c]`
the call it is in. A call of the store is one action: `Transition`, `Reconcile`
(`resolve_effect` by a caller other than `effect`), `RearmCallbackTimeout`,
`TimeOutLateRound` (what `accept_callback` of a round writes to its parent),
and `recover_late_started_review_round`, whose two records are `AdoptLateProcess` and
`ReopenRound`. A supervisor call is two: `Read`, then the action named after the
method, which decides on `snap[c]` and publishes through `Save`, the revision's
compare-and-swap, or through `Exhaust`, which re-reads under the lock as
`OperationStore.transition` does. `AcceptCallback` (the broker reads, the store
compares the revision) and `RecoverReviewContinuation` (the worker) have the same two
halves. `effect()` is five: `EffectRead`, `EffectBegin`, `EffectAct`,
`EffectPersist` with `EffectPersistSave`, and `EffectResolve`. `Crash` ends any
call anywhere; the next call of the same coordinator is the restarted process.

The specification part of a record (route, prompt, identity) is immutable in the
code and absent here. Effects, resources and callbacks are names; limits and
costs are small numbers. Two variables are ghosts: `runs`, how often the action
of the reserved effect ran since its reservation, and `charged`, what the budget
calls that returned have charged. `Publish` refuses a revision above `MaxRevision`,
which is the only way the model stops; the clock and `runs` have bounds as well.

What the abstraction leaves out: a write that saves several moves takes one revision here
and several in the code, which is the same to a compare-and-swap; the clock is read in the step that
decides on it; what a call asks of *another* record is a refusal,
after which nothing is written; a late start's two writes are two records of this
module, so a death between them is not modelled. `Reconcile` says `succeeded`
only of an action that ran, because each of its callers holds a receipt, and `failed` of
any.

### 2.2 The vault writer

`file` is the vault, `journal` the outstanding transaction, `lock` the flock. A
process takes the lock, recovers (`RecoverEntry` per file, then `Recovered`),
plans, writes the journal, applies its entries one at a time in the code's order
(writes, then deletes), removes the journal. `Crash` stops it between any two
of these. `Edit` is a program without the lock. Contents are model values (the
code compares SHA-256 sums). The text checks of a payload are a nondeterministic
refusal; what they compare with *other files*, the source URLs, is modelled.

The expectation check and the removal of a page to delete are one step, and planning reads
all files in one step: both windows are open to unlocked programs in the code,
and are wider there than here.

### 2.3 The task-session lanes

One task, its lanes, its operations. `draft` and `status` are what a call is
going to write to `lane.json` and `operation.json`; `WriteOperation` and
`WriteLane` are the two replacements, with `Crash` possible between them.
`Repair` is the terminal transition repeated over an operation that is terminal
and still active. `archive_task` holds the task lock only, reads and rewrites
the lanes one by one, and leaves the task degraded, or active, when a file fails.

`claim_next` has no caller outside the tests at this commit; it is modelled
because the registry is written around it. The code checks the lanes before it
writes `archiving`, while `docs/task-sessions.md:127` says the task leaves
`active` "before enumerating lanes"; under the task lock no enqueue can tell the
difference, and `ArchivingIsQuiet` holds.

### 2.4 The finalization ledger

`ledger` is the file: the cycles with attempt, HEAD and result, the receipts of
attempts that ended without a verdict, and the disposition. Every call reads,
checks and replaces the file under one lock, so a call is one action:
`Reserve` and `RecoverAttention` are the two ways `reserve` writes,
`RecordMechanism` and `RecordProduct` the two of `record_terminal`; a call that
raises or answers "already" changes nothing and is a guard that is false.
`Valid` is `_validate`, which the code runs on every read and every write: that it
always holds (`Readable`) means the file never locks its users out. `granted` is the
ghost: the attempts that were ever told "reserved", the one answer that permits
starting a reviewer. `Requests` are the reservations drivers may ask for, in any
order, stale and repeated ones included.

A retry's identity is derived from its predecessor by a hash; here it is the
uninterpreted `BoundId(predecessor, head, cycle)`, instantiated by tuples.

### 2.5 The review gate

`ReviewGate` EXTENDS the ledger and drives it. A `Driver` is a run of the review command. `drv[d]`
holds what it has read (`seen`, `head`), asked for (`q`, `cycle`) and opened
(`mine`); `pc` names the point between two locks, and a `Crash` at any of them
loses it all. The run: drain an answered attempt of an older HEAD (`Observe`), read HEAD
and gate (`Decide`), recover an interrupted attempt (`Recover`, `Reopen`), write
the last result back to the ledger (`Settle`), name the successor (`Succeed`),
reserve (`ReserveCycle`), then open (`Initialize`, `Run`, `Launch`, `Await`) or
ingest (`Pick`, `Clean`, `ReadResults`, `WriteResults`, `Finish`) and write back
(`Record`). The environment commits, publishes answers - and overwrites them - lets
waits run out, accepts, and retires uncertain starts.

`session[a]` is the pair of records of lane `a` reduced to what the gate asks of
them, and `answers` every callback any round ever accepted. A verdict is what
`_lane_terminal_verdict` makes of an answer: one that asks for changes without a material
finding approves, and one without findings is not an answer. The three closing
transitions of a child are one step here and three in `ReviewRound`. Left out:
plan amendments, refreshed summaries and resolution bundles (each only adds a way
to supersede an approval, which the ledger's model has), the
lease that compares HEAD around one command, the policy that routes a cycle to its lanes
(`LaneAxes` is its result), the structural pivot, and the recovery of an attempt
that was started late.

Nothing in the code keeps two runs of the command apart. `ReservedBeforeEffect` and
everything the ledger promises hold for any number of drivers (section 5); the
properties about answers, terminal results and generations for one at a time, and
section 4 says what happens with two.

### 2.6 The review round and its lane

Two `OperationRecord`s (`parent`, the session, and `child`, the round), the
callback file (`outbox`), the provider and its surface, the recorded event
stream, the re-arm `marker`, the attempt's view (`gate`), a worker and a driver.
The worker's look at the file is two (`Observe`, `Stabilize`), its read a third
(`ReadAnswer`), because the code re-reads the file after it found it stable; then
`Ingest`, possibly `Prepare` and `Rearm` and a second `Ingest`, `RecordResult`,
`Conclude`, or `Complain`. `NoticeDeadline` and `Expire` are the unlocked read and the
write of the deadline check; `ObserveExit`, `Drain`, `Leave` its way out. The
driver accepts the same file (`AcceptRound`), closes the round by three moves
(`CloseRound`), waits until the worker recorded the result (`AwaitResult`), then
asks the reviewer to exit and cleans up, one action per store call or effect. A refused
move is an exception that ends the command (`Raises`).

Revisions decide nothing in this module and are not counted (`Plain`). Most writes of
these records lock the owner from their read to their write. Two are fenced by a revision
read without the lock: the acceptance (`callbacks.py:59`), which can only find a newer
revision that carries an answer, and is then the duplicate or the refusal modelled
anyway; and the release of the resources (`runtime_session_cleanup.py:731`), when the
worker is gone and the one driver is the only writer left. Probes answer truthfully.

## 3. Runs

| Run | Question | Instance |
|---|---|---|
| `SupervisorCalls` | do concurrent budget calls, answers, effects, retirements and transitions keep the record readable, settled, final and correctly charged, and its answer? | 2 coordinators, 1 resumable effect, 1 answer, every supervisor call but `bind_resources` (an effect makes the same read and save), revision <= 5, clock to 2; 2,346,524 states |
| `SupervisorEffectsAlone` | is the write-ahead protocol right when coordinators are serialized? | 1 coordinator that crashes and restarts, 2 effects (one resumable), revision <= 8, clock to 3; 1,152,876 states |
| `SupervisorBlindRetry` | and when they are not? | 2 coordinators; violation, section 4 |
| `VaultCommits` | is a multi-file write atomic, and is what a death leaves finished? | 2 writers, 3 files, 5 kinds of payload, 3 faults; 103,059 states |
| `VaultLateConflict` | and when a managed page is edited outside the lock? | violation, section 4 |
| `LanesCalls` | are the lanes FIFO queues with one active operation, under archive? | 2 processes, 2 lanes, 3 operations (two in one lane), 1 fault; 444,599 states |
| `LanesRepair` | is an interrupted terminal transition repaired? | 2 processes, 1 lane, 2 operations, 1 fault |
| `LanesLostEnqueue` | is a duplicate enqueue as good as the first? | violation, section 4 |
| `LedgerCycles` | is the lineage a bounded sequence of verdicts under any order of calls? | 2 HEADs, 2 cycles, 2 receipts, every request over the identities those generate; 16,593 states |
| `ReviewGate` | are reviewers started only with a reservation and after their predecessors, and is the verdict what they said? | 1 driver, 1 crash, 1 move of HEAD, 2 HEADs, 1 lane in the first cycle and 2 in the second, 1 receipt; 607,694 states |
| `GateMovedHead` | is an approval about the HEAD that was reviewed? | 1 lane; violation, section 4 |
| `ReviewRound` | do worker and driver make one lane out of two records and one overwritten file? | 3 answers, 2 publications, 1 crash, 4 points of time, a wait of 2; 805,566 states |

**Why the bounds are enough.** A supervisor call decides on one snapshot, so any
bad interleaving needs one coordinator holding it and another one moving the
record: two coordinators. With two of them the revision goes to five, which holds each scenario the properties are about: configure,
charge, charge a stale snapshot; wait, answer, stop and save what was read before; verify,
reserve and retire; reserve, bind, settle, stop and retire; fail, reopen, answer and complete. Limits of one are
reached and passed. With one coordinator it goes to eight, for two effects in a row with an
attention between them, the re-arm of a wait and the adoption of a late process. For the vault, two writers are a dead one and its
successor, or a holder and a waiter; three files are the smallest payload with a
write, a delete and a rendered file; three faults are two deaths (of the commit
and of its recovery) and an edit. For the lanes, two operations in one lane and
one in the other give an occupied lane with a waiting operation beside a lane the
archive visits separately. For the ledger, two cycles are one that is not the
last and one that is; two receipts make a chain and reach the ceiling. For
the gate, one crash separates any two steps of a run and the run that follows is
complete; one move of HEAD puts every copy of it out of date; the two lanes of
the second cycle are the smallest attempt in which one lane can be ahead of the other, and
the one-lane first cycle is the only kind the code recovers. For the round, two publications overwrite an answer once at every
point of either process; the clock lets a wait run out and be re-armed, but not run
out a second time.

Deadlock is not checked: the supervisor stops at its revision bound, an archived
task stops for good, as does a ledger whose budget is spent, a gate that waits
for an operator, and a round that is over. Symmetry is used for coordinators,
clients and HEADs in runs without liveness.

**Properties.** Each module's comments state them; what they are aimed at:

- `RecordConstructible`, `AttentionIsExplained`, `TerminalIsSettled`,
  `TerminalIsFinal`, `PendingBlocksProgress`: relations between the record's
  fields that its methods keep together over any interleaving.
  `NoChargeIsLost`, `AnswerIsKept`: what the compare-and-swap is for; a stale save that
  went through would count two charges as one, or write a record without the answer.
- `NoBlindRetry`, `SucceededMeansPerformed`: the write-ahead
  protocol; they are theorems for one coordinator and the first fails for two.
- `ImplementsAtomicVault`: the vault *as the journal makes it* (`Committed`:
  each file, or the journal's content for it) changes in one step per
  transaction. `OkMeansWritten`, `SourcesAreUnique` and `OutstandingIsFinished`
  are what a caller sees.
- `ImplementsLaneQueues`, `HolderAgrees`, `ArchivingIsQuiet`,
  `WaitingIsNotDropped`, `TerminalReleases`: the registry's promises.
- `Readable`, `AccountedFor`, `RetriesFormChain`, `ApprovalReopenedByAttempt`,
  `AuthorizedOnce`, `VerdictsStand`, `ImplementsBudget`: the ledger's file over
  any sequence of legal calls.
- `ReservedBeforeEffect`, `OneGeneration`: no reviewer without a reservation, none
  beside an older one. `VerdictIsAnswered`, `OneAnswer`, `TerminalIsOneShot`:
  from the file a reviewer may overwrite to the ledger's verdict, nothing is
  invented, exchanged or decided twice.
- `LaneImplemented`, `NoAnswerInAClosedWait`, `RecordedBeforeExit`,
  `AnsweredAttemptIsClosed`, `FinishedOwnsNothing`, `OnlyACrashStrands`,
  `WorkerLeaves`, `AnswerIsTaken`: one answer, in time, recorded before the
  shutdown it causes; a shutdown that leaves nothing behind.

The type invariants of the supervisor, the vault, the lanes and the ledger are
theorems and not part of a run; so are `EveryWriteFences`, `LimitsAreFixed`, `JournalIsNeverReplaced`,
`ResultIsFinal` and `SpentHasDisposition`.

**Fairness.** `OperationSupervisor`, `FinalizationLedger` and `ReviewGate` have
safety properties only: nothing obliges anybody to run a review command again.
`VaultWrite`: weak fairness of the steps of a running process, and of starting one,
since the skills and hooks keep calling vault-write and recovery precedes
everything else they do. `TaskSessionLanes`: weak fairness of a running call, and
strong fairness of `Repair`, because the operator's `fail-operation` command, or
the caller, repeats a terminal transition that failed; strong, because other calls
take the lane lock in between. `ReviewRound`: weak fairness of the worker's steps,
because it polls in a loop until it leaves, and of `Tick`, because time passes;
none of the driver, which nobody has to run. No fairness is assumed of crashes,
edits, damage, the reviewer or new work.

## 4. Where the code and its documentation disagree

| Run | Documentation | What the code does |
|---|---|---|
| `SupervisorBlindRetry` | `supervisor.py:374` "refusing blind uncertain retries" | `effect()` checks for a pending effect on an unlocked read, and `begin_effect` returns an identical pending record: two coordinators both run the action |
| `VaultLateConflict` | `vault-write.py:58` "conflict failures write nothing" | a delete that conflicts during the commit leaves the journal and the earlier writes |
| `LanesLostEnqueue` | `docs/task-sessions.md:125` "Duplicate operation IDs are idempotent" | an enqueue that died between its two files is answered as queued for ever and never reaches the queue |
| `GateMovedHead` | `finalization_ledger.py:194` "an exact-HEAD finalization cycle"; `review_attempt.py:167` "one review cycle and one Git HEAD" | an attempt that is recovered is reserved with the *current* HEAD (`task_review_flow.py:1416`) before a changed HEAD is refused (`:1484`); the cycle of reviewers that were opened for the old HEAD then names the new one, and so does their approval |

Whether two coordinators can be active on one operation at once is a matter of
deployment. Nothing in the store prevents it, and the worker and the commands
are separate processes; with one coordinator the first cannot happen, for any
effects, budgets and crashes (theorem `RunOnce`).

Each of the others has its exact boundary as a theorem too. A commit or a recovery
is refused only at a page to delete that a program without the lock has changed
(`OnlyEditsStop`). "queued" is never the answer for an operation that
is missing from its queue while no call has died between its two files and none is damaged
(`DuplicatesStand`). An attempt is charged, when it is authorized, at the HEAD it was
derived from, so that only taking a cycle back moves it (`ChargedWhereDerived`).

Met while modelling, without a run of their own:

- `resolve_effect` names no effect (`supervisor.py:395`), so with two coordinators a late resolution
  settles somebody else's pending effect as succeeded.
- The deadline is judged on an old read (`supervisor.py:255`); with two
  coordinators a continuation that extended it is marked as timed out. Its answer, when
  there is one, survives (`AnswerIsKept`).
- An edit of a page the journal deletes makes every later recovery, and every
  later write, fail (`vault_write_transaction.py:163`). The journal keeps no base
  hash for a write, so a page edited outside the lock after it was planned is overwritten.
- A claim that dies between its two files leaves an operation `starting` that the
  next claim passes over (`LaneQueues` therefore has a `Discard` step).
- With two drivers the gate's terminal result is not written once (`TerminalIsOneShot`), a
  round may have a second accepted answer (`OneAnswer`) and a reviewer may be started beside
  an older one (`OneGeneration`): each driver puts its own copy of
  the attempt over whatever the gate holds by then, although
  `review_gate_attempt.py:695` says "Start exactly one immutable attempt after all identity
  checks". Nothing in the command keeps two runs apart; its lease only compares HEADs.
- A driver that dies while its attempt is pending or running leaves a gate no later
  run goes on from; a reopened attempt whose cycle a retry already holds is refused for
  good as well.
- A driver that dies right after the round moved to `exiting` (`workflows/review.py:498`), or
  the session to `cancelling` (`runtime_session_cleanup.py:533`), leaves a state from which every later run raises;
  `OnlyACrashStrands` is the exact boundary.
- A reviewer that exits between publishing and its worker's look at the file has
  its exit recorded first; the round takes the answer, the event stream refuses it
  (`provider_events.py:264`), and the attempt can never be finished.
- The re-arm lets in whatever answer is stable when the file is read, which need not be
  the one it was armed for unless the marker says so; `Prepare` has the rule.

## 5. Proofs

All theorems hold for every value of the constants that satisfies the named
assumptions (`SupervisorAssumption`, `VaultAssumption`, `LaneAssumption`,
`LedgerAssumption`, `RoundAssumption`, `GateAssumption` and those of `OperationRecord` and
`VaultPayload`): any number of coordinators, writers, clients, effects, files,
lanes, answers, attempts and HEADs, and any bounds.

**Supervisor** (`OperationSupervisorProofs`). The properties of the record are not inductive by themselves,
because `Save` publishes a record built from a *snapshot*. `IInv` adds what the
compare-and-swap is worth (`Fenced`): a snapshot is never ahead of the record,
and one of the current revision is the record itself. It also says that the counters are
`charged`. `OperationRecordProofs` shows
for every pure transition that, from a well-formed record, it returns the same
record or a `Successor`: well formed, of a larger revision, with a configured limit
unchanged, an accepted answer kept, a terminal state kept unless the record is the untouched round, and,
while an effect stays pending, nothing but attention. `Builds` lifts this to every
action; the invariant and the action properties follow from it. That no charge is lost
is a second pass over the actions (`Accounts`): a step leaves the counters and `charged`
alone, or adds the same cost to both, which for a save needs that the snapshot *is* the record.
Proved: `TypeCorrect`, `AlwaysConstructible`, `AlwaysExplained`, `AlwaysSettledAtEnd`,
`FinalityHolds`, `PendingBlocks`, `NoChargeLost`, `AnswerKept`, `LimitsFixed`,
`EveryWriteFencesHolds`.

What the effects promise depends on who else writes the record: with a second
coordinator `NoBlindRetry` is false, so its theorem has the hypothesis `OneCoordinator`.
`AloneInv` adds to `IInv` what the one coordinator then knows at each point (`Knows`):
its snapshot is the record, a reservation it is about to act on has not run, one it
is about to settle has. A crash keeps the record and forgets the point. Proved:
`AloneInvariance`, `RunOnce`, `SuccessIsPerformed`.

**Vault** (`VaultWriteProofs`). `IInv` says of each writer, by the point it has
reached: it holds the lock from recovery on; the journal is absent while it plans
and is its own payload while it applies; a planned payload still matches the
managed files; every managed entry it is done with has its new content. The step that writes the journal is the commit in `AtomicVault`;
applying and recovering entries change files towards what `Committed` already
says, and stutter. For the source URLs a payload that waits to become the journal was compared with
every page, and the managed ones still are what it was compared with (`SourceInv`);
`UniqueSources` needs a vault that begins without a shared source (`UniqueAtStart`), since
the code keeps sources apart and does not separate pages that share one already.
For the deletes, one that is still to be done was planned
against the content it names (`DeletesInv`), so a refusal after the journal
is somebody else's edit. Proved: `TypeCorrect`, `JournalKept`, `OkWritten`,
`Implements`, `UniqueSources`, `OnlyEditsStop`.

**Lanes** (`TaskSessionLanesProofs`). `IInv` says which locks each point of a call holds (`Holds`), what an archive relies on
(`Archives`), that queues hold known operations, and
what the draft of a call is: the lane on disk with one operation appended
(`Adds`), with its head taken (`Takes`), or with the active one moved or released (`Moves`).
That last part is why rewriting a whole file from an earlier read is
safe: nobody else changes that lane's queue meanwhile. A call that holds a lane lock while an
archive reads and rewrites the lane cannot exist with effect, because an archive
gets past its checks only over quiet lanes and the task lock keeps enqueue out.
That a repeated enqueue is right needs `NothingLost`: until a fault, an operation that
waits is in its queue or its enqueue holds the locks on the way there; the repeated
call comes after those locks are free.
Proved: `TypeCorrect`, `NoWorkIsArchived`, `HolderCorrect`, `ResultKept`,
`WaitingKept`, `Implements`, `DuplicatesStand`.

**Ledger** (`FinalizationLedgerProofs`). `IInv` is what every write keeps:
`Valid`, the type, `AccountedFor`, the chain of retries, and what an undecided
lineage says of its last cycle and receipt. One lemma per write says what the new file *is*
(`OpenedShape`, `RecoveredShape`, `ReleasedShape`, `DecidedShape`), one that it is
good again; the action properties compare old and new file. For the refinement, the verdicts and the holder are
computed from the file: a reservation is `Authorize`, a recovery `Resume`, a
release `GiveUp`, a product result `Decide`. All of it is proved of `AnyCalls`, a ledger that is
only ever called, with any legal request by anybody; the module's own specification is one such
ledger, the gate's another. Proved: `TypeCorrect`,
`AlwaysReadable`, `AlwaysAccountedFor`, `SpentSays`, `ApprovalStands`,
`RetriesChain`, `AttemptsAuthorizedOnce`, `VerdictsAreFinal`, `BudgetImplemented`.

**Round** (`ReviewRoundProofs`). `IInv` adds to the type what ties the processes
together: an answer a process holds is one (`HoldsAnswer`); a worker that is done
with an answer never re-arms (`WorkerDone`); from the request to exit on the result
is recorded (`ExitHasResult`); which states of the two records each point of the driver
may find, whatever the worker raised or lifted meanwhile (`SessionPath`,
`RoundPath`); what is released is gone (`Gone`); what an answered attempt
stands on (`GateAnswered`); and that, without a crash, an idle driver leaves no
step half done (`NothingStranded`). The key is that the points of the shutdown imply
`ResultReady`, after which neither deadline nor re-arm touches the answer. For `LaneImplemented` every write
of the parent keeps the lane's stage or is one of its steps; the marker is written
only on a timed-out wait. Proved: `TypeCorrect`, `FinishedIsFree`,
`AnsweredIsClosed`, `CrashesStrand`, `WaitsStayClosed`, `ResultComesFirst`,
`LaneCorrect`.

**Gate** (`ReviewGateProofs`). Proved for one driver at a time (`OneDriver`), any
number of lanes, HEADs and cycles, and any number of crashes and commits: with two
drivers a terminal result is written more than once (section 4). The driver works on copies, so the invariant `GateInv`
says what each copy is worth at each point of its run: until it opens an attempt the gate
it read is the gate (`Reads`); the attempt it asks for is the gate's or the one after
(`Asks`); from the reservation on its attempt holds the ledger's cycle
(`Reserved`, `Opens`); what it is about to write was accepted and cleaned up (`Takes`).
`GateOK` ties the gate to the ledger (its cycle is the cycle the attempt was given,
a holder that is not the gate's has no reviewer yet) and `LanesOK` the lanes to the answers.
The reviewers and their workers move meanwhile, so one lemma shows that lanes that
only go on (`Continues`) disturb none of this; the other actions have one `...Keeps` lemma each,
over the ledger's own lemmas. Proved: `GateInvariance`,
`VerdictsAnswered`, `AnsweredOnce`, `TerminalOnce`, `OneGenerationAtATime`.

**Gate, any number of drivers** (`ReviewGateDriversProofs`). What one driver relies on another destroys,
so `DriversInv` keeps only what no step takes back (`Grows`): granted attempts stay granted, a
gate that exists goes on existing, and a lane that was opened stays so. Every
attempt a driver holds, the gate names or a lane works for was granted (`DriverKnows`,
`GateKnown`, `LanesKnown`), which is all the ledger asks of its callers (`AnyCalls`); the ledger's
theorems follow for the whole gate. The HEAD a cycle is charged at needs that an
identity names the HEAD it was derived from (`HeadsDerived`, what the hash is for). Proved:
`DriversInvariance`, `GateTyped`, `LanesAuthorized`, `GateOnlyCalls`, `GateKeepsLedger`,
`GateAuthorizesOnce`, `GateSpendsBudget`, `ChargedWhereDerived`.

**Only model-checked**: liveness (`OutstandingIsFinished`, `TerminalReleases`,
`WorkerLeaves`, `AnswerIsTaken`), since fairness and ENABLED are out of the
prover's reach; and the violations. Every other property of a run is a theorem, with
the hypotheses named above: `OneCoordinator` and `OneDriver`
cannot be dropped, because two of either break the property. `VerdictIsAnswered` is the one of which neither a proof
nor a counterexample with two drivers is known; its theorem has `OneDriver` as well.

## 6. Hazards not covered yet

`PROJECT.json` lists the hazards of the code at their lines, with the properties
that watch them. Without a property: the gate left pending by a dead driver
(`task_review_flow.py:1499`), the early exit (`runtime_worker_execution.py:234`)
and the two half-done moves (`workflows/review.py:498`), all of which the models
reach and no document forbids; the claim that died
(`task_session_store.py:324`); and the verification run
(`runtime_worker_verification.py:1251`, `:1376`).

Further ones belong to modules of the plan: a death between the two files of the recovery of a late
start (`store.py:420`), whose records are modelled one at a time; the four transitions of `prepare_review_round`
(`workflows/review.py:391`), of which the next call advances only the first; a
continuation that lifts an attention the worker set meanwhile
(`runtime_session_launch.py:977`); a send repeated after a restart
(`runtime_session_delivery.py:359`); a callback submit that is reserved and dies
before its receipt is written (`liveness.py:504`); the address counter rebuilt from pages that do
not hold the latest address yet (`allocate-address.py:50`); and hashes compared while planning a vault write,
which programs outside the lock may outdate before the file is written
(`vault_write_pages.py:208`).

## 7. Plan

What the review machinery still lacks, then the other components, in the order
of importance to the system:

1. In the modules that exist: round preparation and the two records of a late-start recovery
   beside `ReviewRound`; resolution bundles and plan amendments in `ReviewGate`;
   session bindings and runtime-directory cleanup in `TaskSessionLanes`.
2. **VerificationRun**: crash windows between transitions and receipt; liveness:
   every started verification ends in a receipt or in attention.
3. **RuntimeSession**: launch, continuation and cancel over the supervisor's
   effects, composed with the shutdown `ReviewRound` has. To check: no session is
   reported closed while its process lives.
4. **Delivery** and **Liveness**: at most two sends and one nudge per key over
   restarts.
5. **AddressAllocator**: uniqueness, given that addresses are saved before the
   counter is lost.
6. **SplitExecution**: a DAG of slices, each activated once, joined after all.

Each gets a passing run on two actors with one or two faults and a companion proof
module for its main safety property.

## 8. Not modelled, and why

Most lines of the harness validate identities and JSON shapes, render text, or call an
external program; a model abstracts them to a refusal, a name or the outcome
of an effect, so the share of lines behind these definitions stays small however
many protocols are modelled. In particular: retrieval, routing, prompts and
document normalization compute over text and configuration and keep no protocol.
Dashboards (`dashboard_*.py`), telemetry and release tooling read or log. Artifact repair (`artifact_repair.py`) restores the
representation of a model's artifact and leaves the decision to its consumer. Adapters
call external programs; their results are the outcomes of effects. The stop hook
commits with git; `reindex.py` appears as the foreign edit of the vault. Skills,
agents, wiki pages, vendored plugins, `references/` and acceptance evidence are
not programs of this system.
