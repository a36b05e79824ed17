--------------------------- MODULE TaskSessionLanes ---------------------------
(***************************************************************************)
(* One task of the task-session registry (task_session_store.py): its      *)
(* lanes, each a file with a FIFO queue and at most one active operation,  *)
(* and a file per operation.  Calls of several processes run under the     *)
(* task lock and the lane locks; a change of an operation replaces two     *)
(* files, and the process may die between the two.  archive_task takes the *)
(* task lock only and rewrites the lanes without theirs.                   *)
(***************************************************************************)
EXTENDS Naturals, Sequences

CONSTANTS
  Client,    \* processes that call the store
  Lane,      \* lanes of the task: one per domain, runtime and model
  Op,        \* operation ids
  LaneOf,    \* the lane each operation belongs to
  None,
  Absent,    \* a lane or an operation that has no file yet
  MaxFaults  \* bound on deaths, failed writes and damaged records together

Working == {"starting", "running", "callback-ready"}
Terminal == {"complete", "failed"}

LaneRecord ==
  [status : {"idle", "failed", "archived"} \cup Working,
   active : Op \cup {None},
   queue : Seq(Op)]

OpStatus == {"queued", "unreadable"} \cup Working \cup Terminal

ASSUME LaneAssumption ==
  /\ LaneOf \in [Op -> Lane]
  /\ None \notin Client \cup Lane \cup Op
  /\ Absent \notin LaneRecord \cup OpStatus
  /\ MaxFaults \in Nat

VARIABLES
  task,      \* status of the task
  lane,      \* lane.json of every lane
  op,        \* status in every operation.json
  taskLock, laneLock,
  pc,        \* where every client is in its call
  work,      \* the operation of the call; for a claim the one it expects
  at,        \* the lane of the call
  draft,     \* the lane record the call is going to write
  status,    \* the operation status the call is going to write
  left,      \* lanes an archive has still to visit
  faults

Place ==
  {"idle", "enqueue", "claim", "claim, discarded", "write operation", "write lane",
   "archive checks", "archive", "archive writes"}

files == <<task, lane, op>>
locks == <<taskLock, laneLock>>
locals == <<work, at, draft, status, left>>
vars == <<task, lane, op, taskLock, laneLock, pc, work, at, draft, status, left, faults>>

Queue(l) == IF lane[l] = Absent THEN <<>> ELSE lane[l].queue
Active(l) == IF lane[l] = Absent THEN None ELSE lane[l].active

Init ==
  /\ task = "active"
  /\ lane = [l \in Lane |-> Absent]
  /\ op = [o \in Op |-> Absent]
  /\ taskLock = None /\ laneLock = [l \in Lane |-> None]
  /\ pc = [c \in Client |-> "idle"]
  /\ work = [c \in Client |-> None] /\ at = [c \in Client |-> None]
  /\ draft = [c \in Client |-> Absent] /\ status = [c \in Client |-> Absent]
  /\ left = [c \in Client |-> {}]
  /\ faults = 0

-----------------------------------------------------------------------------
(* What the calls share.                                                   *)

\* The call returns or raises, and releases its locks.
Finish(c) ==
  /\ pc' = [pc EXCEPT ![c] = "idle"]
  /\ work' = [work EXCEPT ![c] = None] /\ at' = [at EXCEPT ![c] = None]
  /\ draft' = [draft EXCEPT ![c] = Absent] /\ status' = [status EXCEPT ![c] = Absent]
  /\ left' = [left EXCEPT ![c] = {}]
  /\ taskLock' = IF taskLock = c THEN None ELSE taskLock
  /\ laneLock' = [l \in Lane |-> IF laneLock[l] = c THEN None ELSE laneLock[l]]

\* The call holds the lane lock, has read both files and is going to write
\* status s for operation o, then lane record d.
Prepare(c, o, s, d) ==
  /\ pc' = [pc EXCEPT ![c] = "write operation"]
  /\ work' = [work EXCEPT ![c] = o] /\ at' = [at EXCEPT ![c] = LaneOf[o]]
  /\ status' = [status EXCEPT ![c] = s] /\ draft' = [draft EXCEPT ![c] = d]
  /\ laneLock' = [laneLock EXCEPT ![LaneOf[o]] = c]
  /\ UNCHANGED left

WriteOperation(c) ==
  /\ pc[c] = "write operation"
  /\ op' = [op EXCEPT ![work[c]] = status[c]]
  /\ pc' = [pc EXCEPT ![c] = "write lane"]
  /\ UNCHANGED <<task, lane, locks, locals, faults>>

WriteLane(c) ==
  /\ pc[c] = "write lane"
  /\ lane' = [lane EXCEPT ![at[c]] = draft[c]]
  /\ Finish(c)
  /\ UNCHANGED <<task, op, faults>>

-----------------------------------------------------------------------------
(* enqueue_operation: the task lock, then the lane lock.                   *)

Enqueue(c) ==
  /\ pc[c] = "idle" /\ taskLock = None
  /\ task = "active"
  /\ taskLock' = c
  /\ \E o \in Op : work' = [work EXCEPT ![c] = o] /\ at' = [at EXCEPT ![c] = LaneOf[o]]
  /\ pc' = [pc EXCEPT ![c] = "enqueue"]
  /\ UNCHANGED <<files, laneLock, draft, status, left, faults>>

NewLane == [status |-> "idle", active |-> None, queue |-> <<>>]

\* An operation that is known is returned as it is.
EnqueueInLane(c) ==
  /\ pc[c] = "enqueue" /\ laneLock[at[c]] = None
  /\ LET found == IF lane[at[c]] = Absent THEN NewLane ELSE lane[at[c]]
     IN IF op[work[c]] # Absent \/ found.status = "archived"
        THEN Finish(c)
        ELSE /\ Prepare(c, work[c], "queued", [found EXCEPT !.queue = Append(@, work[c])])
             /\ UNCHANGED taskLock
  /\ UNCHANGED <<files, faults>>

-----------------------------------------------------------------------------
(* claim_next: the lane lock only.                                         *)

\* Fault: the lane may be at work.
ClaimBusy(c) ==
  /\ pc[c] = "idle"
  /\ \E l \in Lane, expected \in Op \cup {None} :
       /\ laneLock[l] = None /\ lane[l] # Absent
       /\ laneLock' = [laneLock EXCEPT ![l] = c]
       /\ work' = [work EXCEPT ![c] = expected] /\ at' = [at EXCEPT ![c] = l]
       /\ draft' = [draft EXCEPT ![c] = lane[l]]
  /\ pc' = [pc EXCEPT ![c] = "claim"]
  /\ UNCHANGED <<files, taskLock, status, left, faults>>

Claim(c) ==
  /\ pc[c] = "idle"
  /\ \E l \in Lane, expected \in Op \cup {None} :
       /\ laneLock[l] = None /\ lane[l] # Absent /\ lane[l].active = None
       /\ laneLock' = [laneLock EXCEPT ![l] = c]
       /\ work' = [work EXCEPT ![c] = expected] /\ at' = [at EXCEPT ![c] = l]
       /\ draft' = [draft EXCEPT ![c] = lane[l]]
  /\ pc' = [pc EXCEPT ![c] = "claim"]
  /\ UNCHANGED <<files, taskLock, status, left, faults>>

Claiming(c) == pc[c] \in {"claim", "claim, discarded"}

\* Fault: a head other than the expected operation is passed over.
ClaimPassesOthers(c) ==
  /\ Claiming(c) /\ draft[c].queue # <<>>
  /\ LET o == Head(draft[c].queue)
         d == [draft[c] EXCEPT !.queue = Tail(@)]
     IN /\ op[o] # "queued" \/ work[c] \notin {None, o}
        /\ draft' = [draft EXCEPT ![c] = d] /\ lane' = [lane EXCEPT ![at[c]] = d]
  /\ UNCHANGED <<task, op, locks, pc, work, at, status, left, faults>>

\* The head of the queue has lost its record, or is not waiting any more.
ClaimPasses(c) ==
  /\ Claiming(c) /\ draft[c].queue # <<>>
  /\ LET o == Head(draft[c].queue)
         broken == op[o] \in {Absent, "unreadable"}
         d == [draft[c] EXCEPT !.queue = Tail(@), !.status = IF broken THEN "failed" ELSE @]
     IN /\ op[o] # "queued"
        /\ draft' = [draft EXCEPT ![c] = d] /\ lane' = [lane EXCEPT ![at[c]] = d]
        /\ pc' = IF broken /\ work[c] = o THEN [pc EXCEPT ![c] = "claim, discarded"] ELSE pc
  /\ UNCHANGED <<task, op, locks, work, at, status, left, faults>>

ClaimTakes(c) ==
  /\ pc[c] = "claim" /\ draft[c].queue # <<>>
  /\ LET o == Head(draft[c].queue)
     IN /\ op[o] = "queued" /\ work[c] \in {None, o}
        /\ Prepare(c, o, "starting",
             [draft[c] EXCEPT !.status = "starting", !.active = o, !.queue = Tail(@)])
  /\ UNCHANGED <<files, taskLock, faults>>

\* Another operation is first, or the expected one was discarded.
ClaimGivesUp(c) ==
  /\ Claiming(c)
  /\ IF draft[c].queue = <<>> THEN pc[c] = "claim, discarded"
     ELSE LET o == Head(draft[c].queue)
          IN op[o] = "queued" /\ (pc[c] = "claim, discarded" \/ work[c] \notin {None, o})
  /\ Finish(c)
  /\ UNCHANGED <<files, faults>>

ClaimFindsNone(c) ==
  /\ pc[c] = "claim" /\ draft[c].queue = <<>>
  /\ lane' = [lane EXCEPT ![at[c]] = [draft[c] EXCEPT !.status = "idle"]]
  /\ Finish(c)
  /\ UNCHANGED <<task, op, faults>>

-----------------------------------------------------------------------------
(* transition_operation: the lane lock only.                               *)

\* The lane after operation o moved to status s.
Moved(r, o, s) ==
  IF s \in Working THEN [r EXCEPT !.status = s, !.active = o]
  ELSE [r EXCEPT !.status = IF s = "failed" THEN "failed" ELSE "idle", !.active = None]

\* Fault: the operation need not be the active one.
TransitionAny(c, o, s) ==
  LET l == LaneOf[o] IN
  /\ pc[c] = "idle" /\ laneLock[l] = None
  /\ lane[l] # Absent /\ op[o] \notin {Absent, "unreadable"} \cup Terminal
  /\ Prepare(c, o, s, Moved(lane[l], o, s))
  /\ UNCHANGED <<files, taskLock, faults>>

Transition(c, o, s) ==
  LET l == LaneOf[o] IN
  /\ pc[c] = "idle" /\ laneLock[l] = None
  /\ lane[l] # Absent /\ op[o] \notin {Absent, "unreadable"} \cup Terminal
  /\ lane[l].active = o
  /\ Prepare(c, o, s, Moved(lane[l], o, s))
  /\ UNCHANGED <<files, taskLock, faults>>

\* Fault: only a failure is repaired.
RepairFailed(c, o) ==
  LET l == LaneOf[o] IN
  /\ pc[c] = "idle" /\ laneLock[l] = None
  /\ lane[l] # Absent /\ op[o] = "failed"
  /\ lane[l].active = o
  /\ laneLock' = [laneLock EXCEPT ![l] = c]
  /\ work' = [work EXCEPT ![c] = o] /\ at' = [at EXCEPT ![c] = l]
  /\ draft' = [draft EXCEPT ![c] = Moved(lane[l], o, op[o])]
  /\ pc' = [pc EXCEPT ![c] = "write lane"]
  /\ UNCHANGED <<files, taskLock, status, left, faults>>

\* A terminal operation still holds its lane: its second file is written.
Repair(c, o) ==
  LET l == LaneOf[o] IN
  /\ pc[c] = "idle" /\ laneLock[l] = None
  /\ lane[l] # Absent /\ op[o] \in Terminal
  /\ lane[l].active = o
  /\ laneLock' = [laneLock EXCEPT ![l] = c]
  /\ work' = [work EXCEPT ![c] = o] /\ at' = [at EXCEPT ![c] = l]
  /\ draft' = [draft EXCEPT ![c] = Moved(lane[l], o, op[o])]
  /\ pc' = [pc EXCEPT ![c] = "write lane"]
  /\ UNCHANGED <<files, taskLock, status, left, faults>>

-----------------------------------------------------------------------------
(* archive_task: the task lock only.                                       *)

Known == {l \in Lane : lane[l] # Absent}
Quiet(l) == Active(l) = None /\ Queue(l) = <<>>

\* Fault: the task lock is not taken.
ArchiveUnlocked(c) ==
  /\ pc[c] = "idle"
  /\ task \in {"active", "degraded", "archiving"}
  /\ left' = [left EXCEPT ![c] = Known]
  /\ pc' = [pc EXCEPT ![c] = "archive checks"]
  /\ UNCHANGED <<files, locks, work, at, draft, status, faults>>

Archive(c) ==
  /\ pc[c] = "idle" /\ taskLock = None
  /\ task \in {"active", "degraded", "archiving"}
  /\ taskLock' = c
  /\ left' = [left EXCEPT ![c] = Known]
  /\ pc' = [pc EXCEPT ![c] = "archive checks"]
  /\ UNCHANGED <<files, laneLock, work, at, draft, status, faults>>

ArchiveChecks(c) ==
  /\ pc[c] = "archive checks"
  /\ \E l \in left[c] :
       IF Quiet(l)
       THEN /\ left' = [left EXCEPT ![c] = @ \ {l}]
            /\ UNCHANGED <<locks, pc, work, at, draft, status>>
       ELSE Finish(c)
  /\ UNCHANGED <<files, faults>>

ArchiveMarks(c) ==
  /\ pc[c] = "archive checks" /\ left[c] = {}
  /\ task' = "archiving"
  /\ left' = [left EXCEPT ![c] = Known]
  /\ pc' = [pc EXCEPT ![c] = "archive"]
  /\ UNCHANGED <<lane, op, locks, work, at, draft, status, faults>>

ArchiveReads(c) ==
  /\ pc[c] = "archive"
  /\ \E l \in left[c] :
       /\ at' = [at EXCEPT ![c] = l]
       /\ draft' = [draft EXCEPT ![c] = [lane[l] EXCEPT !.status = "archived"]]
  /\ pc' = [pc EXCEPT ![c] = "archive writes"]
  /\ UNCHANGED <<files, locks, work, status, left, faults>>

ArchiveWrites(c) ==
  /\ pc[c] = "archive writes"
  /\ lane' = [lane EXCEPT ![at[c]] = draft[c]]
  /\ left' = [left EXCEPT ![c] = @ \ {at[c]}]
  /\ pc' = [pc EXCEPT ![c] = "archive"]
  /\ UNCHANGED <<task, op, locks, work, at, draft, status, faults>>

ArchiveDone(c) ==
  /\ pc[c] = "archive" /\ left[c] = {}
  /\ task' = "archived"
  /\ Finish(c)
  /\ UNCHANGED <<lane, op, faults>>

\* A file cannot be read or written: the task is left for a retry.
ArchiveFails(c) ==
  /\ pc[c] \in {"archive", "archive writes"}
  /\ faults < MaxFaults /\ faults' = faults + 1
  /\ task' = IF left[c] = Known THEN "active" ELSE "degraded"
  /\ Finish(c)
  /\ UNCHANGED <<lane, op>>

-----------------------------------------------------------------------------
\* The process dies, or a write fails and its call raises.
Crash(c) ==
  /\ pc[c] # "idle"
  /\ faults < MaxFaults /\ faults' = faults + 1
  /\ Finish(c)
  /\ UNCHANGED files

\* An operation file is damaged: it does not parse or names another identity.
Damage ==
  /\ faults < MaxFaults /\ faults' = faults + 1
  /\ \E o \in Op : op[o] # Absent /\ op' = [op EXCEPT ![o] = "unreadable"]
  /\ UNCHANGED <<task, lane, locks, pc, locals>>

\* What a client does of its own accord once it is in a call.
Step(c) ==
  \/ EnqueueInLane(c) \/ WriteOperation(c) \/ WriteLane(c)
  \/ ClaimPasses(c) \/ ClaimTakes(c) \/ ClaimGivesUp(c) \/ ClaimFindsNone(c)
  \/ ArchiveChecks(c) \/ ArchiveMarks(c) \/ ArchiveReads(c) \/ ArchiveWrites(c)
  \/ ArchiveDone(c)

Call(c) ==
  \/ Enqueue(c) \/ Claim(c) \/ Archive(c)
  \/ \E o \in Op : Repair(c, o) \/ \E s \in Working \cup Terminal : Transition(c, o, s)

Next ==
  \/ \E c \in Client : Call(c) \/ Step(c) \/ ArchiveFails(c) \/ Crash(c)
  \/ Damage

Spec == Init /\ [][Next]_vars

\* A process that runs is scheduled, and a terminal transition that failed is
\* called again: fail-operation, or the caller's retry.
FairSpec ==
  /\ Spec
  /\ \A c \in Client : WF_vars(Step(c))
  /\ \A o \in Op : SF_vars(\E c \in Client : Repair(c, o))

-----------------------------------------------------------------------------
(* Properties                                                              *)

TypeOK ==
  /\ task \in {"active", "archiving", "archived", "degraded"}
  /\ lane \in [Lane -> LaneRecord \cup {Absent}]
  /\ op \in [Op -> OpStatus \cup {Absent}]
  /\ taskLock \in Client \cup {None}
  /\ laneLock \in [Lane -> Client \cup {None}]
  /\ pc \in [Client -> Place]
  /\ work \in [Client -> Op \cup {None}]
  /\ at \in [Client -> Lane \cup {None}]
  /\ draft \in [Client -> LaneRecord \cup {Absent}]
  /\ status \in [Client -> OpStatus \cup {Absent}]
  /\ left \in [Client -> SUBSET Lane]
  /\ faults \in Nat

\* Once a task is being archived none of its lanes has work, whatever enqueue,
\* claim and transition were doing when the archive began, and after any crash.
ArchivingIsQuiet == task \in {"archiving", "archived", "degraded"} => \A l \in Lane : Quiet(l)

\* An operation that runs holds its lane, so one lane never runs two; and a
\* lane is never held by an operation that still waits.
HolderAgrees ==
  \A o \in Op :
    /\ op[o] \in {"running", "callback-ready"} => Active(LaneOf[o]) = o
    /\ Active(LaneOf[o]) = o => op[o] \notin {Absent, "queued"}

\* Every lane file is a FIFO queue with one active operation, although it is
\* rewritten as a whole from records read earlier.
Fifo ==
  INSTANCE LaneQueues WITH queue <- [l \in Lane |-> Queue(l)], active <- [l \in Lane |-> Active(l)]
ImplementsLaneQueues == Fifo!Spec

\* An operation that has ended keeps its result, whatever late transitions
\* arrive from other processes.
ResultIsFinal ==
  [][\A o \in Op : op[o] \in Terminal => op'[o] \in {op[o], "unreadable"}]_vars

\* An operation that still waits is not passed over: it leaves the queue only
\* after its record says that it is starting.
WaitingIsNotDropped ==
  [][\A l \in Lane : Queue(l) # <<>> /\ Queue(l)' = Tail(Queue(l)) => op[Head(Queue(l))] # "queued"]_vars

\* A lane whose terminal transition was interrupted between its two files is
\* released in the end, unless its record is damaged (docs/task-sessions.md:135).
TerminalReleases ==
  \A o \in Op : (op[o] \in Terminal /\ Active(LaneOf[o]) = o)
                 ~> (Active(LaneOf[o]) # o \/ op[o] = "unreadable")

\* An enqueue that finds its operation waiting leaves it in the lane's queue:
\* a duplicate call is as good as the first (docs/task-sessions.md:125).
DuplicateIsQueued ==
  [][\A c \in Client :
       pc[c] = "enqueue" /\ pc'[c] = "idle" /\ faults' = faults /\ op[work[c]] = "queued"
       => \E i \in DOMAIN Queue(at[c]) : Queue(at[c])[i] = work[c]]_vars
=============================================================================
