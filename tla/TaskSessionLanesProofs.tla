------------------------ MODULE TaskSessionLanesProofs ------------------------
(***************************************************************************)
(* Proofs about TaskSessionLanes, for any clients, lanes and operations.   *)
(* A call that holds a lane lock knows how the record it will write        *)
(* differs from the lane on disk; only an archive writes without the lock, *)
(* and by then the lane is quiet and its write changes nothing of that.    *)
(* An operation that waits is in its queue unless a call died between its  *)
(* two files: a repeated enqueue is wrong after such a fault and not       *)
(* before (DuplicatesStand).                                               *)
(***************************************************************************)
EXTENDS TaskSessionLanes, TLAPS

USE LaneAssumption

Writing == {"write operation", "write lane"}
InLane == {"claim", "claim, discarded"} \cup Writing

In(o, q) == \E i \in DOMAIN q : q[i] = o

\* Who holds which lock.
Holds(c) ==
  /\ pc[c] \in InLane => at[c] \in Lane /\ laneLock[at[c]] = c
  /\ pc[c] = "enqueue" =>
       taskLock = c /\ task = "active" /\ work[c] \in Op /\ at[c] = LaneOf[work[c]]
  /\ pc[c] \in {"archive checks", "archive", "archive writes"} => taskLock = c

\* A claim works on the queue that is on disk.
Claims(c) ==
  Claiming(c) =>
    /\ draft[c] # Absent /\ draft[c].active = None /\ Active(at[c]) = None
    /\ draft[c].queue = Queue(at[c])

\* The three ways in which a record to write differs from the one on disk.
Adds(c) ==
  /\ taskLock = c /\ task = "active"
  /\ draft[c].queue = Append(Queue(at[c]), work[c])
  /\ draft[c].active = Active(at[c]) /\ Active(at[c]) # work[c]
  /\ ~ In(work[c], Queue(at[c]))
  /\ pc[c] = "write operation" => status[c] = "queued" /\ op[work[c]] = Absent
  /\ pc[c] = "write lane" => op[work[c]] \in {"queued", "unreadable"}

Takes(c) ==
  /\ Active(at[c]) = None /\ Queue(at[c]) # <<>> /\ work[c] = Head(Queue(at[c]))
  /\ draft[c].active = work[c] /\ draft[c].queue = Tail(Queue(at[c]))
  /\ pc[c] = "write operation" => status[c] = "starting" /\ op[work[c]] \in {"queued", "unreadable"}
  /\ pc[c] = "write lane" => op[work[c]] \in {"starting", "unreadable"}

Moves(c) ==
  /\ Active(at[c]) = work[c]
  /\ draft[c].queue = Queue(at[c])
  /\ draft[c].active \in {work[c], None}
  /\ pc[c] = "write operation" =>
       /\ status[c] \in Working \cup Terminal /\ op[work[c]] \notin Terminal
       /\ draft[c].active = work[c] <=> status[c] \in Working
  /\ pc[c] = "write lane" /\ draft[c].active = None => op[work[c]] \in Terminal \cup {"unreadable"}

Writes(c) ==
  pc[c] \in Writing =>
    /\ work[c] \in Op /\ at[c] = LaneOf[work[c]] /\ draft[c] # Absent
    /\ Adds(c) \/ Takes(c) \/ Moves(c)

\* An archive has found the lanes quiet that it has passed.
Archives(c) ==
  /\ left[c] \subseteq Known
  /\ pc[c] = "archive checks" => \A l \in Lane \ left[c] : Quiet(l)
  /\ pc[c] \in {"archive", "archive writes"} => task = "archiving"
  /\ pc[c] = "archive writes" =>
       /\ at[c] \in Lane /\ lane[at[c]] # Absent
       /\ draft[c] # Absent /\ draft[c].active = None /\ draft[c].queue = <<>>

Knows(c) == Holds(c) /\ Claims(c) /\ Writes(c) /\ Archives(c)

\* Queues hold operations of their lane that have a record.
QueuesAreKnown ==
  \A l \in Lane : \A i \in DOMAIN Queue(l) : LaneOf[Queue(l)[i]] = l /\ op[Queue(l)[i]] # Absent

IInv ==
  /\ TypeOK /\ ArchivingIsQuiet /\ HolderAgrees /\ QueuesAreKnown
  /\ \A c \in Client : Knows(c)

-----------------------------------------------------------------------------
(* Records, and what they look like to the abstract queues.                *)

\* Queue and Active have the types of the abstract variables.
LEMMA ViewTypes ==
  ASSUME TypeOK, NEW l \in Lane
  PROVE  Queue(l) \in Seq(Op) /\ Active(l) \in Op \cup {None}
<1>1. CASE lane[l] = Absent
  BY <1>1 DEF Queue, Active
<1>2. CASE lane[l] \in LaneRecord
  BY <1>2 DEF Queue, Active, LaneRecord
<1> QED
  BY <1>1, <1>2 DEF TypeOK

\* The record of a moved operation.
LEMMA MovedRecord ==
  ASSUME NEW r \in LaneRecord, NEW o \in Op, NEW s \in Working \cup Terminal
  PROVE  /\ Moved(r, o, s) \in LaneRecord /\ Moved(r, o, s).queue = r.queue
         /\ Moved(r, o, s).active = IF s \in Working THEN o ELSE None
BY DEF Moved, LaneRecord, Working, Terminal

\* Appending and taking the head.
LEMMA Ends ==
  ASSUME NEW q \in Seq(Op)
  PROVE  /\ \A o \in Op : Append(q, o) \in Seq(Op)
         /\ q # <<>> => Head(q) \in Op /\ Tail(q) \in Seq(Op) /\ Tail(q) # q /\ In(Head(q), q)
         /\ \A o \in Op : q # <<>> => Append(q, o) # Tail(q)
BY DEF In

\* What is in a queue after an end of it changed.
LEMMA EndsMembers ==
  ASSUME NEW q \in Seq(Op), NEW S, \A i \in DOMAIN q : q[i] \in S
  PROVE  /\ \A o \in S \cap Op : \A i \in DOMAIN Append(q, o) : Append(q, o)[i] \in S
         /\ q # <<>> => \A i \in DOMAIN Tail(q) : Tail(q)[i] \in S
OBVIOUS

\* A finished call leaves correctly typed locals and locks behind.
LEMMA FinishTypes ==
  ASSUME TypeOK, NEW c \in Client, Finish(c)
  PROVE  /\ pc' = [pc EXCEPT ![c] = "idle"] /\ pc'[c] = "idle"
         /\ taskLock' \in Client \cup {None}
         /\ laneLock' \in [Lane -> Client \cup {None}]
         /\ work' \in [Client -> Op \cup {None}] /\ at' \in [Client -> Lane \cup {None}]
         /\ draft' \in [Client -> LaneRecord \cup {Absent}]
         /\ status' \in [Client -> OpStatus \cup {Absent}]
         /\ left' \in [Client -> SUBSET Lane]
         /\ pc' \in [Client -> Place]
BY DEF TypeOK, Finish, Place

\* So does a call that prepares its two writes.
LEMMA PrepareTypes ==
  ASSUME TypeOK, NEW c \in Client, NEW o \in Op, NEW s \in OpStatus, NEW d \in LaneRecord,
         Prepare(c, o, s, d)
  PROVE  /\ laneLock' \in [Lane -> Client \cup {None}]
         /\ work' \in [Client -> Op \cup {None}] /\ at' \in [Client -> Lane \cup {None}]
         /\ draft' \in [Client -> LaneRecord \cup {Absent}]
         /\ status' \in [Client -> OpStatus \cup {Absent}]
         /\ left' \in [Client -> SUBSET Lane]
         /\ pc' \in [Client -> Place]
BY DEF TypeOK, Prepare, Place

-----------------------------------------------------------------------------
(* Type correctness, one action at a time.                                 *)

\* The initial state is correctly typed.
LEMMA InitTypes == Init => TypeOK
BY DEF Init, TypeOK, Place

\* Every step keeps the types.
LEMMA NextTypes ==
  ASSUME IInv, [Next]_vars PROVE TypeOK'
<1>0. TypeOK /\ \A c \in Client : Knows(c)
  BY DEF IInv
<1>1. ASSUME NEW c \in Client, Enqueue(c) PROVE TypeOK'
  <2>1. PICK o \in Op : /\ work' = [work EXCEPT ![c] = o] /\ at' = [at EXCEPT ![c] = LaneOf[o]]
                        /\ taskLock' = c /\ pc' = [pc EXCEPT ![c] = "enqueue"]
                        /\ UNCHANGED <<files, laneLock, draft, status, left, faults>>
    BY <1>1 DEF Enqueue
  <2>2. /\ work' \in [Client -> Op \cup {None}] /\ at' \in [Client -> Lane \cup {None}]
        /\ taskLock' \in Client \cup {None} /\ pc' \in [Client -> Place]
    <3>1. /\ work \in [Client -> Op \cup {None}] /\ at \in [Client -> Lane \cup {None}]
          /\ pc \in [Client -> Place]
      BY <1>0, Zenon DEF TypeOK
    <3>2. LaneOf[o] \in Lane /\ "enqueue" \in Place
      BY LaneAssumption DEF Place
    <3> QED
      BY <2>1, <3>1, <3>2
  <2>3. UNCHANGED files /\ UNCHANGED <<laneLock, draft, status, left, faults>>
    BY <2>1, Zenon
  <2> QED
    BY <1>0, <2>2, <2>3, Zenon DEF TypeOK, files
<1>2. ASSUME NEW c \in Client, EnqueueInLane(c) PROVE TypeOK'
  <2> DEFINE found == IF lane[at[c]] = Absent THEN NewLane ELSE lane[at[c]]
  <2>1. work[c] \in Op /\ at[c] \in Lane
    <3>1. pc[c] = "enqueue" /\ Knows(c)
      BY <1>0, <1>2, Zenon DEF EnqueueInLane
    <3>2. work[c] \in Op /\ at[c] = LaneOf[work[c]]
      BY <3>1 DEF Knows, Holds
    <3> QED
      BY <3>2, LaneAssumption
  <2>2. NewLane \in LaneRecord
    BY DEF NewLane, LaneRecord
  <2>3. found \in LaneRecord
    BY <1>0, <2>1, <2>2 DEF TypeOK
  <2>4. [found EXCEPT !.queue = Append(@, work[c])] \in LaneRecord
    BY <2>1, <2>3, Ends DEF LaneRecord
  <2>5. Finish(c) \/ /\ Prepare(c, work[c], "queued", [found EXCEPT !.queue = Append(@, work[c])])
                      /\ UNCHANGED taskLock
    BY <1>2 DEF EnqueueInLane
  <2>6. task' = task /\ lane' = lane /\ op' = op /\ faults' = faults
    BY <1>2 DEF EnqueueInLane, files
  <2>7. "queued" \in OpStatus
    BY DEF OpStatus
  <2> HIDE DEF found
  <2>8. CASE Finish(c)
    BY <1>0, <2>6, <2>8, FinishTypes DEF TypeOK
  <2>9. CASE /\ Prepare(c, work[c], "queued", [found EXCEPT !.queue = Append(@, work[c])])
             /\ UNCHANGED taskLock
    BY <1>0, <2>1, <2>4, <2>6, <2>7, <2>9, PrepareTypes DEF TypeOK
  <2> QED
    BY <2>5, <2>8, <2>9
<1>3. ASSUME NEW c \in Client, WriteOperation(c) PROVE TypeOK'
  <2>1. work[c] \in Op /\ status[c] \in OpStatus
    BY <1>0, <1>3 DEF WriteOperation, Knows, Writes, Writing, Adds, Takes, Moves, OpStatus, Working
  <2> QED
    BY <1>0, <1>3, <2>1 DEF WriteOperation, TypeOK, Place, locks, locals
<1>4. ASSUME NEW c \in Client, WriteLane(c) PROVE TypeOK'
  <2>1. at[c] \in Lane /\ draft[c] \in LaneRecord \cup {Absent}
    BY <1>0, <1>4 DEF WriteLane, Knows, Holds, InLane, Writing, TypeOK
  <2> QED
    BY <1>0, <1>4, <2>1, FinishTypes DEF WriteLane, TypeOK
<1>5. ASSUME NEW c \in Client, Claim(c) PROVE TypeOK'
  <2>1. PICK l \in Lane, expected \in Op \cup {None} :
          /\ laneLock' = [laneLock EXCEPT ![l] = c] /\ lane[l] # Absent
          /\ work' = [work EXCEPT ![c] = expected] /\ at' = [at EXCEPT ![c] = l]
          /\ draft' = [draft EXCEPT ![c] = lane[l]]
          /\ pc' = [pc EXCEPT ![c] = "claim"]
          /\ UNCHANGED <<files, taskLock, status, left, faults>>
    BY <1>5 DEF Claim
  <2> QED
    BY <1>0, <2>1 DEF TypeOK, Place, files
<1>6. ASSUME NEW c \in Client, ClaimPasses(c) PROVE TypeOK'
  <2> DEFINE broken == op[Head(draft[c].queue)] \in {Absent, "unreadable"}
             d == [draft[c] EXCEPT !.queue = Tail(@), !.status = IF broken THEN "failed" ELSE @]
  <2>1. at[c] \in Lane /\ draft[c] \in LaneRecord /\ draft[c].queue # <<>>
    <3>1. Claiming(c) /\ Holds(c) /\ Claims(c)
      BY <1>0, <1>6 DEF ClaimPasses, Claiming, Knows
    <3>2. draft[c] \in LaneRecord \cup {Absent}
      BY <1>0 DEF TypeOK
    <3> QED
      BY <1>6, <3>1, <3>2 DEF ClaimPasses, Claiming, Holds, Claims, InLane
  <2>2. d \in LaneRecord
    BY <2>1, Ends DEF LaneRecord
  <2>3. /\ draft' = [draft EXCEPT ![c] = d] /\ lane' = [lane EXCEPT ![at[c]] = d]
        /\ pc' = pc \/ pc' = [pc EXCEPT ![c] = "claim, discarded"]
        /\ UNCHANGED <<task, op, locks, work, at, status, left, faults>>
    BY <1>6 DEF ClaimPasses
  <2> HIDE DEF d
  <2> QED
    BY <1>0, <2>1, <2>2, <2>3 DEF TypeOK, Place, locks
<1>7. ASSUME NEW c \in Client, ClaimTakes(c) PROVE TypeOK'
  <2> DEFINE o == Head(draft[c].queue)
             d == [draft[c] EXCEPT !.status = "starting", !.active = o, !.queue = Tail(@)]
  <2>1. at[c] \in Lane /\ draft[c] \in LaneRecord /\ draft[c].queue # <<>>
    <3>1. Claiming(c) /\ Holds(c) /\ Claims(c)
      BY <1>0, <1>7 DEF ClaimTakes, Claiming, Knows
    <3>2. draft[c] \in LaneRecord \cup {Absent}
      BY <1>0 DEF TypeOK
    <3> QED
      BY <1>7, <3>1, <3>2 DEF ClaimTakes, Claiming, Holds, Claims, InLane
  <2>2. o \in Op /\ d \in LaneRecord
    BY <2>1, Ends DEF LaneRecord, Working
  <2>3. Prepare(c, o, "starting", d) /\ UNCHANGED <<files, taskLock, faults>>
    BY <1>7 DEF ClaimTakes
  <2>4. "starting" \in OpStatus
    BY DEF OpStatus, Working
  <2> HIDE DEF o, d
  <2> QED
    BY <1>0, <2>2, <2>3, <2>4, PrepareTypes DEF TypeOK, files
<1>8. ASSUME NEW c \in Client, ClaimGivesUp(c) PROVE TypeOK'
  BY <1>0, <1>8, FinishTypes DEF ClaimGivesUp, TypeOK, files
<1>9. ASSUME NEW c \in Client, ClaimFindsNone(c) PROVE TypeOK'
  <2>1. at[c] \in Lane /\ draft[c] \in LaneRecord
    <3>1. Claiming(c) /\ Holds(c) /\ Claims(c)
      BY <1>0, <1>9 DEF ClaimFindsNone, Claiming, Knows
    <3>2. draft[c] \in LaneRecord \cup {Absent}
      BY <1>0 DEF TypeOK
    <3> QED
      BY <1>9, <3>1, <3>2 DEF ClaimFindsNone, Claiming, Holds, Claims, InLane
  <2>2. [draft[c] EXCEPT !.status = "idle"] \in LaneRecord
    BY <2>1 DEF LaneRecord
  <2> QED
    BY <1>0, <1>9, <2>1, <2>2, FinishTypes DEF ClaimFindsNone, TypeOK
<1>10. ASSUME NEW c \in Client, NEW o \in Op, NEW s \in Working \cup Terminal, Transition(c, o, s)
       PROVE TypeOK'
  <2>1. lane[LaneOf[o]] \in LaneRecord
    BY <1>0, <1>10 DEF Transition, TypeOK
  <2>2. Moved(lane[LaneOf[o]], o, s) \in LaneRecord /\ s \in OpStatus
    BY <2>1, MovedRecord DEF OpStatus
  <2> QED
    BY <1>0, <1>10, <2>2, PrepareTypes DEF Transition, TypeOK, files
<1>11. ASSUME NEW c \in Client, NEW o \in Op, Repair(c, o) PROVE TypeOK'
  <2>1. lane[LaneOf[o]] \in LaneRecord /\ op[o] \in Terminal /\ LaneOf[o] \in Lane
    BY <1>0, <1>11 DEF Repair, TypeOK
  <2>2. Moved(lane[LaneOf[o]], o, op[o]) \in LaneRecord
    BY <2>1, MovedRecord
  <2> QED
    BY <1>0, <1>11, <2>1, <2>2 DEF Repair, TypeOK, Place, files
<1>12. ASSUME NEW c \in Client, Archive(c) PROVE TypeOK'
  BY <1>0, <1>12 DEF Archive, TypeOK, Place, files, Known
<1>13. ASSUME NEW c \in Client, ArchiveChecks(c) PROVE TypeOK'
  <2>1. CASE Finish(c)
    BY <1>0, <1>13, <2>1, FinishTypes DEF ArchiveChecks, TypeOK, files
  <2>2. ASSUME NEW l, left' = [left EXCEPT ![c] = @ \ {l}], UNCHANGED <<locks, pc, work, at, draft, status>>
        PROVE TypeOK'
    BY <1>0, <1>13, <2>2 DEF ArchiveChecks, TypeOK, files, locks
  <2> QED
    BY <1>13, <2>1, <2>2 DEF ArchiveChecks
<1>14. ASSUME NEW c \in Client, ArchiveMarks(c) PROVE TypeOK'
  BY <1>0, <1>14 DEF ArchiveMarks, TypeOK, Place, locks, Known
<1>15. ASSUME NEW c \in Client, ArchiveReads(c) PROVE TypeOK'
  <2>1. PICK l \in left[c] : at' = [at EXCEPT ![c] = l]
          /\ draft' = [draft EXCEPT ![c] = [lane[l] EXCEPT !.status = "archived"]]
    BY <1>15 DEF ArchiveReads
  <2>2. l \in Lane /\ lane[l] \in LaneRecord
    <3>1. l \in Known
      BY <1>0, <2>1 DEF Knows, Archives
    <3> QED
      BY <1>0, <3>1 DEF Known, TypeOK
  <2>3. [lane[l] EXCEPT !.status = "archived"] \in LaneRecord
    BY <2>2 DEF LaneRecord
  <2> QED
    BY <1>0, <1>15, <2>1, <2>2, <2>3 DEF ArchiveReads, TypeOK, Place, locks, files
<1>16. ASSUME NEW c \in Client, ArchiveWrites(c) PROVE TypeOK'
  BY <1>0, <1>16 DEF ArchiveWrites, TypeOK, Place, locks
<1>17. ASSUME NEW c \in Client, ArchiveDone(c) PROVE TypeOK'
  BY <1>0, <1>17, FinishTypes DEF ArchiveDone, TypeOK
<1>18. ASSUME NEW c \in Client, ArchiveFails(c) PROVE TypeOK'
  <2>1. faults' \in Nat
    <3>1. faults \in Nat /\ faults' = faults + 1
      BY <1>0, <1>18, Zenon DEF ArchiveFails, TypeOK
    <3> QED
      BY <3>1
  <2> QED
    BY <1>0, <1>18, <2>1, FinishTypes, Zenon DEF ArchiveFails, TypeOK
<1>19. ASSUME NEW c \in Client, Crash(c) PROVE TypeOK'
  <2>1. faults' \in Nat
    BY <1>0, <1>19, SMT DEF Crash, TypeOK
  <2> QED
    BY <1>0, <1>19, <2>1, FinishTypes, Zenon DEF Crash, TypeOK, files
<1>20. ASSUME Damage PROVE TypeOK'
  <2>1. faults' \in Nat
    BY <1>0, <1>20, SMT DEF Damage, TypeOK
  <2>2. op' \in [Op -> OpStatus \cup {Absent}]
    BY <1>0, <1>20 DEF Damage, TypeOK, OpStatus
  <2> QED
    BY <1>0, <1>20, <2>1, <2>2 DEF Damage, TypeOK, locks, locals
<1>21. CASE UNCHANGED vars
  BY <1>0, <1>21 DEF vars, TypeOK
<1> QED
  BY <1>1, <1>2, <1>3, <1>4, <1>5, <1>6, <1>7, <1>8, <1>9, <1>10, <1>11, <1>12, <1>13, <1>14,
     <1>15, <1>16, <1>17, <1>18, <1>19, <1>20, <1>21 DEF Next, Call, Step

-----------------------------------------------------------------------------
(* What a client knows while another one moves.                            *)

Still(d) ==
  /\ pc'[d] = pc[d] /\ work'[d] = work[d] /\ at'[d] = at[d]
  /\ draft'[d] = draft[d] /\ status'[d] = status[d] /\ left'[d] = left[d]
  /\ taskLock = d => taskLock' = d
  /\ \A l \in Lane : laneLock[l] = d => laneLock'[l] = d

\* The files that a client relies on, by the locks it holds.
Leaves(d) ==
  /\ Known \subseteq Known'
  /\ taskLock = d => task' = task /\ \A l \in Lane : Quiet(l) => Quiet(l)'
  /\ \A l \in Lane : laneLock[l] = d => Queue(l)' = Queue(l) /\ Active(l)' = Active(l)
  /\ \A o \in Op : laneLock[LaneOf[o]] = d =>
       op'[o] = op[o] \/ (op[o] # Absent /\ op'[o] = "unreadable")

\* A client that does not move goes on knowing what it knew.
LEMMA StillKnows ==
  ASSUME IInv, NEW d \in Client, Still(d), Leaves(d)
  PROVE  Knows(d)'
<1>0. Holds(d) /\ Claims(d) /\ Writes(d) /\ Archives(d)
  BY DEF IInv, Knows
<1>1. Holds(d)'
  BY <1>0 DEF Holds, Still, Leaves, InLane, Writing
<1>2. Claims(d)'
  BY <1>0 DEF Holds, Claims, Claiming, Still, Leaves, InLane, Writing
<1>3. Writes(d)'
  <2>1. CASE pc[d] \notin Writing
    BY <2>1 DEF Writes, Still
  <2>2. CASE pc[d] \in Writing
    <3>1. /\ work[d] \in Op /\ at[d] = LaneOf[work[d]] /\ draft[d] # Absent
          /\ at[d] \in Lane /\ laneLock[at[d]] = d
      BY <1>0, <2>2 DEF Writes, Holds, InLane
    <3>2. /\ Queue(at[d])' = Queue(at[d]) /\ Active(at[d])' = Active(at[d])
          /\ op'[work[d]] = op[work[d]] \/ (op[work[d]] # Absent /\ op'[work[d]] = "unreadable")
      BY <3>1 DEF Leaves, Still, Queue, Active
    <3>3. Adds(d) => Adds(d)'
      BY <3>1, <3>2 DEF Adds, Still, Leaves
    <3>4. Takes(d) => Takes(d)'
      BY <3>1, <3>2 DEF Takes, Still
    <3>5. Moves(d) => Moves(d)'
      BY <3>1, <3>2 DEF Moves, Still, Terminal
    <3> QED
      BY <1>0, <2>2, <3>1, <3>3, <3>4, <3>5 DEF Writes, Still
  <2> QED
    BY <2>1, <2>2
<1>4. Archives(d)'
  BY <1>0 DEF Archives, Holds, Still, Leaves, Known
<1> QED
  BY <1>1, <1>2, <1>3, <1>4 DEF Knows

\* A call that ends knows nothing and takes nothing from the others.
LEMMA FinishKnows ==
  ASSUME TypeOK, NEW c \in Client, Finish(c)
  PROVE  Knows(c)' /\ \A d \in Client \ {c} : Still(d)
<1>1. pc'[c] = "idle" /\ left'[c] = {}
  BY DEF TypeOK, Finish
<1>2. Knows(c)'
  BY <1>1 DEF Knows, Holds, Claims, Claiming, Writes, Archives, InLane, Writing
<1>3. \A d \in Client \ {c} : Still(d)
  BY DEF TypeOK, Finish, Still
<1> QED
  BY <1>2, <1>3

\* The same for a call that prepares its two writes.
LEMMA PrepareStill ==
  ASSUME TypeOK, NEW c \in Client, NEW o \in Op, NEW s \in OpStatus, NEW r \in LaneRecord,
         laneLock[LaneOf[o]] \in {None, c}, Prepare(c, o, s, r), taskLock' = taskLock
  PROVE  /\ \A d \in Client \ {c} : Still(d)
         /\ pc'[c] = "write operation" /\ work'[c] = o /\ at'[c] = LaneOf[o]
         /\ status'[c] = s /\ draft'[c] = r /\ left'[c] = left[c] /\ laneLock'[LaneOf[o]] = c
<1>1. /\ pc' = [pc EXCEPT ![c] = "write operation"] /\ work' = [work EXCEPT ![c] = o]
      /\ at' = [at EXCEPT ![c] = LaneOf[o]] /\ status' = [status EXCEPT ![c] = s]
      /\ draft' = [draft EXCEPT ![c] = r] /\ left' = left
      /\ laneLock' = [laneLock EXCEPT ![LaneOf[o]] = c]
  BY DEF Prepare
<1>2. LaneOf[o] \in Lane
  OBVIOUS
<1>3. ASSUME NEW d \in Client \ {c} PROVE Still(d)
  <2>1. /\ pc'[d] = pc[d] /\ work'[d] = work[d] /\ at'[d] = at[d]
        /\ draft'[d] = draft[d] /\ status'[d] = status[d] /\ left'[d] = left[d]
    BY <1>1 DEF TypeOK
  <2>2. \A l \in Lane : laneLock[l] = d => laneLock'[l] = d
    BY <1>1 DEF TypeOK
  <2> QED
    BY <2>1, <2>2 DEF Still
<1> QED
  BY <1>1, <1>2, <1>3 DEF TypeOK

\* A call that writes no file keeps the invariant if it knows what it must.
LEMMA NoFileWritten ==
  ASSUME IInv, TypeOK', UNCHANGED files, NEW c \in Client, Knows(c)',
         \A d \in Client \ {c} : Still(d)
  PROVE  IInv'
<1>1. task' = task /\ lane' = lane /\ op' = op
  BY DEF files
<1>2. \A l \in Lane : Queue(l)' = Queue(l) /\ Active(l)' = Active(l)
  BY <1>1 DEF Queue, Active
<1>3. \A d \in Client : Leaves(d)
  BY <1>1, <1>2 DEF Leaves, Known, Quiet
<1>4. \A d \in Client : Knows(d)'
  BY <1>3, StillKnows
<1>5. ArchivingIsQuiet' /\ HolderAgrees' /\ QueuesAreKnown'
  BY <1>1, <1>2 DEF IInv, ArchivingIsQuiet, HolderAgrees, QueuesAreKnown, Quiet
<1> QED
  BY <1>4, <1>5 DEF IInv

\* What a new lane record does to the queues and the active operations.
LEMMA LaneWritten ==
  ASSUME TypeOK, NEW l \in Lane, NEW r \in LaneRecord, lane' = [lane EXCEPT ![l] = r]
  PROVE  /\ Queue(l)' = r.queue /\ Active(l)' = r.active
         /\ \A k \in Lane \ {l} : Queue(k)' = Queue(k) /\ Active(k)' = Active(k)
         /\ Known \subseteq Known' /\ l \in Known'
BY DEF TypeOK, Queue, Active, Known

-----------------------------------------------------------------------------
(* The invariant, one action at a time: calls that write no file yet.      *)

\* Entering a call under the task lock.
LEMMA EnqueueKeeps ==
  ASSUME IInv, TypeOK', NEW c \in Client, Enqueue(c) PROVE IInv'
<1>1. PICK o \in Op :
        /\ work' = [work EXCEPT ![c] = o] /\ at' = [at EXCEPT ![c] = LaneOf[o]]
        /\ taskLock = None /\ taskLock' = c /\ task = "active" /\ pc[c] = "idle"
        /\ pc' = [pc EXCEPT ![c] = "enqueue"]
        /\ UNCHANGED <<files, laneLock, draft, status, left, faults>>
  BY DEF Enqueue
<1>2. TypeOK /\ Archives(c)
  BY DEF IInv, Knows
<1>3. \A d \in Client \ {c} : Still(d)
  BY <1>1, <1>2 DEF Still, TypeOK
<1>4. Knows(c)'
  <2>1. pc'[c] = "enqueue" /\ work'[c] = o /\ at'[c] = LaneOf[o] /\ task' = "active" /\ left' = left
    BY <1>1, <1>2 DEF TypeOK, files
  <2>2. Known' = Known
    BY <1>1 DEF Known, files
  <2> QED
    BY <1>1, <1>2, <2>1, <2>2
    DEF Knows, Holds, Claims, Claiming, Writes, Archives, InLane, Writing
<1> QED
  BY <1>1, <1>3, <1>4, NoFileWritten

\* Entering the lane, or finding nothing to add.
LEMMA EnqueueInLaneKeeps ==
  ASSUME IInv, TypeOK', NEW c \in Client, EnqueueInLane(c) PROVE IInv'
<1> DEFINE found == IF lane[at[c]] = Absent THEN NewLane ELSE lane[at[c]]
           r == [found EXCEPT !.queue = Append(@, work[c])]
<1>1. /\ TypeOK /\ HolderAgrees /\ QueuesAreKnown /\ Archives(c)
      /\ pc[c] = "enqueue" /\ laneLock[at[c]] = None /\ UNCHANGED files
      /\ taskLock = c /\ task = "active" /\ work[c] \in Op /\ at[c] = LaneOf[work[c]]
  BY DEF IInv, Knows, Holds, EnqueueInLane
<1>2. CASE Finish(c)
  BY <1>1, <1>2, FinishKnows, NoFileWritten
<1>3. CASE /\ Prepare(c, work[c], "queued", r) /\ UNCHANGED taskLock
           /\ op[work[c]] = Absent
  <2>1. at[c] \in Lane
    BY <1>1
  <2>2. found \in LaneRecord /\ found.queue = Queue(at[c]) /\ found.active = Active(at[c])
    BY <1>1, <2>1 DEF TypeOK, NewLane, LaneRecord, Queue, Active
  <2>3. r.queue = Append(Queue(at[c]), work[c]) /\ r.active = Active(at[c]) /\ r \in LaneRecord
    BY <1>1, <2>2, Ends DEF LaneRecord
  <2> HIDE DEF r
  <2>4. Active(at[c]) # work[c] /\ ~ In(work[c], Queue(at[c]))
    BY <1>1, <1>3, <2>1 DEF HolderAgrees, QueuesAreKnown, In
  <2>5. /\ \A d \in Client \ {c} : Still(d)
        /\ pc'[c] = "write operation" /\ work'[c] = work[c] /\ at'[c] = at[c]
        /\ status'[c] = "queued" /\ draft'[c] = r /\ left'[c] = left[c] /\ laneLock'[at[c]] = c
    <3>1. laneLock[LaneOf[work[c]]] \in {None, c} /\ Prepare(c, work[c], "queued", r) /\ taskLock' = taskLock
      BY <1>1, <1>3
    <3>2. /\ \A d \in Client \ {c} : Still(d)
          /\ pc'[c] = "write operation" /\ work'[c] = work[c] /\ at'[c] = LaneOf[work[c]]
          /\ status'[c] = "queued" /\ draft'[c] = r /\ left'[c] = left[c] /\ laneLock'[LaneOf[work[c]]] = c
      BY <1>1, <2>3, <3>1, PrepareStill DEF OpStatus
    <3> QED
      BY <1>1, <3>2
  <2>6. /\ task' = task /\ op' = op /\ Queue(at[c])' = Queue(at[c])
        /\ Active(at[c])' = Active(at[c]) /\ Known' = Known
    BY <1>1, <2>5 DEF files, Queue, Active, Known
  <2>7. Adds(c)'
    BY <1>1, <1>3, <2>3, <2>4, <2>5, <2>6 DEF Adds, Queue, Active, files
  <2>8. Knows(c)'
    BY <1>1, <2>1, <2>3, <2>5, <2>6, <2>7
    DEF Knows, Holds, Claims, Claiming, Writes, Archives, InLane, Writing
  <2> QED
    BY <1>1, <2>5, <2>8, NoFileWritten
<1> QED
  BY <1>2, <1>3 DEF EnqueueInLane

\* A claim takes the lane lock and reads the lane.
LEMMA ClaimKeeps ==
  ASSUME IInv, TypeOK', NEW c \in Client, Claim(c) PROVE IInv'
<1>1. PICK l \in Lane, expected \in Op \cup {None} :
        /\ laneLock[l] = None /\ lane[l] # Absent /\ lane[l].active = None
        /\ laneLock' = [laneLock EXCEPT ![l] = c]
        /\ work' = [work EXCEPT ![c] = expected] /\ at' = [at EXCEPT ![c] = l]
        /\ draft' = [draft EXCEPT ![c] = lane[l]]
        /\ pc' = [pc EXCEPT ![c] = "claim"]
        /\ UNCHANGED <<files, taskLock, status, left, faults>>
  BY DEF Claim
<1>2. TypeOK /\ Archives(c)
  BY DEF IInv, Knows
<1>3. \A d \in Client \ {c} : Still(d)
  <2> TAKE d \in Client \ {c}
  <2>1. /\ pc'[d] = pc[d] /\ work'[d] = work[d] /\ at'[d] = at[d]
        /\ draft'[d] = draft[d] /\ status'[d] = status[d] /\ left'[d] = left[d] /\ taskLock' = taskLock
    BY <1>1, <1>2 DEF TypeOK
  <2>2. \A k \in Lane : laneLock[k] = d => laneLock'[k] = d
    BY <1>1, <1>2 DEF TypeOK
  <2> QED
    BY <2>1, <2>2 DEF Still
<1>4. Knows(c)'
  <2>1. /\ pc'[c] = "claim" /\ at'[c] = l /\ draft'[c] = lane[l] /\ left' = left
        /\ laneLock'[l] = c
    BY <1>1, <1>2 DEF TypeOK
  <2>2. Known' = Known /\ Queue(l)' = lane[l].queue /\ Active(l)' = None
    BY <1>1 DEF Known, Queue, Active, files
  <2> QED
    BY <1>1, <1>2, <2>1, <2>2
    DEF Knows, Holds, Claims, Claiming, Writes, Archives, InLane, Writing, Queue, Active
<1> QED
  BY <1>1, <1>3, <1>4, NoFileWritten

\* A claim has found its operation.
LEMMA ClaimTakesKeeps ==
  ASSUME IInv, TypeOK', NEW c \in Client, ClaimTakes(c) PROVE IInv'
<1>1. /\ TypeOK /\ QueuesAreKnown /\ Archives(c) /\ UNCHANGED files /\ UNCHANGED taskLock
      /\ pc[c] = "claim" /\ draft[c] # Absent /\ draft[c].queue # <<>>
      /\ at[c] \in Lane /\ laneLock[at[c]] = c
      /\ draft[c].active = None /\ Active(at[c]) = None /\ draft[c].queue = Queue(at[c])
  BY DEF IInv, Knows, Holds, Claims, Claiming, InLane, ClaimTakes
<1>2. draft[c] \in LaneRecord
  BY <1>1 DEF TypeOK
<1>3. PICK o \in Op, r \in LaneRecord :
        /\ o = Head(Queue(at[c])) /\ op[o] = "queued" /\ Prepare(c, o, "starting", r)
        /\ r.active = o /\ r.queue = Tail(Queue(at[c]))
  <2> DEFINE o == Head(draft[c].queue)
             r == [draft[c] EXCEPT !.status = "starting", !.active = o, !.queue = Tail(@)]
  <2>1. r.active = o /\ r.queue = Tail(Queue(at[c])) /\ r \in LaneRecord /\ o \in Op
    BY <1>1, <1>2, Ends DEF LaneRecord, Working
  <2>2. op[o] = "queued" /\ Prepare(c, o, "starting", r)
    BY DEF ClaimTakes
  <2> HIDE DEF r
  <2> QED
    BY <1>1, <2>1, <2>2
<1>4. LaneOf[o] = at[c]
  <2>1. Queue(at[c]) \in Seq(Op)
    BY <1>1, ViewTypes
  <2>2. In(o, Queue(at[c]))
    BY <1>1, <1>3, <2>1, Ends
  <2> QED
    BY <1>1, <2>2 DEF In, QueuesAreKnown
<1>5. /\ \A d \in Client \ {c} : Still(d)
      /\ pc'[c] = "write operation" /\ work'[c] = o /\ at'[c] = LaneOf[o]
      /\ status'[c] = "starting" /\ draft'[c] = r /\ left'[c] = left[c] /\ laneLock'[LaneOf[o]] = c
  <2>1. "starting" \in OpStatus
    BY DEF OpStatus, Working
  <2>2. /\ TypeOK /\ taskLock' = taskLock /\ Prepare(c, o, "starting", r)
        /\ laneLock[LaneOf[o]] \in {None, c}
    BY <1>1, <1>3, <1>4
  <2> QED
    BY <2>1, <2>2, PrepareStill
<1>6. op' = op /\ Queue(at[c])' = Queue(at[c]) /\ Active(at[c])' = Active(at[c]) /\ Known' = Known
  BY <1>1, <1>4, <1>5 DEF files, Queue, Active, Known
<1>7. Takes(c)'
  BY <1>1, <1>3, <1>4, <1>5, <1>6 DEF Takes, Queue, Active, files
<1>8. Knows(c)'
  BY <1>1, <1>3, <1>4, <1>5, <1>6, <1>7
  DEF Knows, Holds, Claims, Claiming, Writes, Archives, InLane, Writing
<1> QED
  BY <1>1, <1>5, <1>8, NoFileWritten

\* A claim gives up.
LEMMA ClaimGivesUpKeeps ==
  ASSUME IInv, TypeOK', NEW c \in Client, ClaimGivesUp(c) PROVE IInv'
<1>1. TypeOK /\ Finish(c) /\ UNCHANGED files
  BY DEF IInv, ClaimGivesUp
<1> QED
  BY <1>1, FinishKnows, NoFileWritten

\* A transition of the active operation has read both files.
LEMMA TransitionKeeps ==
  ASSUME IInv, TypeOK', NEW c \in Client, NEW o \in Op, NEW s \in Working \cup Terminal,
         Transition(c, o, s)
  PROVE  IInv'
<1>1. /\ TypeOK /\ Archives(c) /\ UNCHANGED files /\ taskLock' = taskLock
      /\ laneLock[LaneOf[o]] = None /\ lane[LaneOf[o]] # Absent
      /\ op[o] \notin Terminal /\ lane[LaneOf[o]].active = o
      /\ Prepare(c, o, s, Moved(lane[LaneOf[o]], o, s)) /\ pc[c] = "idle"
  BY DEF IInv, Knows, Transition
<1>2. LaneOf[o] \in Lane /\ lane[LaneOf[o]] \in LaneRecord /\ s \in OpStatus
  BY <1>1 DEF TypeOK, OpStatus
<1>3. PICK r \in LaneRecord :
        /\ Prepare(c, o, s, r) /\ r.queue = Queue(LaneOf[o])
        /\ r.active = IF s \in Working THEN o ELSE None
  <2>1. /\ Moved(lane[LaneOf[o]], o, s) \in LaneRecord
        /\ Moved(lane[LaneOf[o]], o, s).queue = lane[LaneOf[o]].queue
        /\ Moved(lane[LaneOf[o]], o, s).active = IF s \in Working THEN o ELSE None
    BY <1>2, MovedRecord
  <2> QED
    BY <1>1, <2>1 DEF Queue
<1>4. /\ \A d \in Client \ {c} : Still(d)
      /\ pc'[c] = "write operation" /\ work'[c] = o /\ at'[c] = LaneOf[o]
      /\ status'[c] = s /\ draft'[c] = r /\ left'[c] = left[c] /\ laneLock'[LaneOf[o]] = c
  <2>1. laneLock[LaneOf[o]] \in {None, c} /\ TypeOK /\ taskLock' = taskLock /\ Prepare(c, o, s, r)
    BY <1>1, <1>3
  <2> QED
    BY <1>2, <2>1, PrepareStill
<1>5. /\ op' = op /\ Queue(LaneOf[o])' = Queue(LaneOf[o]) /\ Known' = Known
      /\ Active(LaneOf[o])' = o
  BY <1>1 DEF files, Queue, Active, Known
<1>6. Moves(c)'
  BY <1>1, <1>3, <1>4, <1>5 DEF Moves, Queue, Active, files
<1>7. Knows(c)'
  BY <1>1, <1>2, <1>3, <1>4, <1>5, <1>6
  DEF Knows, Holds, Claims, Claiming, Writes, Archives, InLane, Writing
<1> QED
  BY <1>1, <1>4, <1>7, NoFileWritten

\* A repair has found its operation terminal and still active.
LEMMA RepairKeeps ==
  ASSUME IInv, TypeOK', NEW c \in Client, NEW o \in Op, Repair(c, o) PROVE IInv'
<1>1. /\ TypeOK /\ Archives(c) /\ UNCHANGED files /\ taskLock' = taskLock
      /\ laneLock[LaneOf[o]] = None /\ lane[LaneOf[o]] # Absent
      /\ op[o] \in Terminal /\ lane[LaneOf[o]].active = o /\ pc[c] = "idle"
      /\ laneLock' = [laneLock EXCEPT ![LaneOf[o]] = c]
      /\ work' = [work EXCEPT ![c] = o] /\ at' = [at EXCEPT ![c] = LaneOf[o]]
      /\ draft' = [draft EXCEPT ![c] = Moved(lane[LaneOf[o]], o, op[o])]
      /\ pc' = [pc EXCEPT ![c] = "write lane"] /\ UNCHANGED <<status, left>>
  BY DEF IInv, Knows, Repair
<1>2. LaneOf[o] \in Lane /\ lane[LaneOf[o]] \in LaneRecord
  <2>1. lane \in [Lane -> LaneRecord \cup {Absent}] /\ lane[LaneOf[o]] # Absent
    BY <1>1, Zenon DEF TypeOK
  <2> QED
    BY <2>1
<1>3. PICK r \in LaneRecord :
        /\ draft' = [draft EXCEPT ![c] = r] /\ r.queue = Queue(LaneOf[o]) /\ r.active = None
  <2>1. /\ Moved(lane[LaneOf[o]], o, op[o]) \in LaneRecord
        /\ Moved(lane[LaneOf[o]], o, op[o]).queue = lane[LaneOf[o]].queue
        /\ Moved(lane[LaneOf[o]], o, op[o]).active = None
    <3>1. op[o] \in Working \cup Terminal /\ op[o] \notin Working
      BY <1>1, Zenon DEF Working, Terminal
    <3> QED
      BY <1>2, <3>1, MovedRecord
  <2>2. Queue(LaneOf[o]) = lane[LaneOf[o]].queue
    BY <1>1, Zenon DEF Queue
  <2>3. draft' = [draft EXCEPT ![c] = Moved(lane[LaneOf[o]], o, op[o])]
    BY <1>1
  <2> QED
    BY <2>1, <2>2, <2>3, Zenon
<1>4. \A d \in Client \ {c} : Still(d)
  <2> TAKE d \in Client \ {c}
  <2>1. /\ pc'[d] = pc[d] /\ work'[d] = work[d] /\ at'[d] = at[d]
        /\ draft'[d] = draft[d] /\ status'[d] = status[d] /\ left'[d] = left[d]
    <3>1. pc'[d] = pc[d] /\ work'[d] = work[d] /\ at'[d] = at[d]
      <4>1. /\ pc \in [Client -> Place] /\ pc' = [pc EXCEPT ![c] = "write lane"]
            /\ work \in [Client -> Op \cup {None}] /\ work' = [work EXCEPT ![c] = o]
            /\ at \in [Client -> Lane \cup {None}] /\ at' = [at EXCEPT ![c] = LaneOf[o]]
        BY <1>1, Zenon DEF TypeOK
      <4> QED
        BY <4>1
    <3>2. draft'[d] = draft[d]
      <4>1. draft \in [Client -> LaneRecord \cup {Absent}] /\ draft' = [draft EXCEPT ![c] = r]
        BY <1>1, <1>3, Zenon DEF TypeOK
      <4> QED
        BY <4>1
    <3> QED
      BY <1>1, <3>1, <3>2
  <2>2. \A k \in Lane : laneLock[k] = d => laneLock'[k] = d
    <3>1. laneLock \in [Lane -> Client \cup {None}] /\ laneLock[LaneOf[o]] = None
          /\ laneLock' = [laneLock EXCEPT ![LaneOf[o]] = c]
      BY <1>1, Zenon DEF TypeOK
    <3> QED
      BY <3>1
  <2> QED
    BY <1>1, <2>1, <2>2 DEF Still
<1>5. /\ pc'[c] = "write lane" /\ work'[c] = o /\ at'[c] = LaneOf[o] /\ draft'[c] = r
      /\ left'[c] = left[c] /\ laneLock'[LaneOf[o]] = c
  <2>1. pc'[c] = "write lane" /\ work'[c] = o /\ at'[c] = LaneOf[o] /\ left'[c] = left[c]
    BY <1>1 DEF TypeOK
  <2>2. draft'[c] = r
    BY <1>3 DEF TypeOK
  <2>3. laneLock'[LaneOf[o]] = c
    BY <1>1, <1>2 DEF TypeOK
  <2> QED
    BY <2>1, <2>2, <2>3
<1>6. /\ op' = op /\ Queue(LaneOf[o])' = Queue(LaneOf[o]) /\ Known' = Known
      /\ Active(LaneOf[o])' = o
  BY <1>1 DEF files, Queue, Active, Known
<1>7. Moves(c)'
  BY <1>1, <1>3, <1>5, <1>6 DEF Moves, Queue, Active, files
<1>8. Knows(c)'
  BY <1>1, <1>2, <1>3, <1>5, <1>6, <1>7
  DEF Knows, Holds, Claims, Claiming, Writes, Archives, InLane, Writing
<1> QED
  BY <1>1, <1>4, <1>8, NoFileWritten

\* Entering an archive, looking at a lane, reading one, and dying.
LEMMA ArchiveLooksKeeps ==
  ASSUME IInv, TypeOK', NEW c \in Client,
         Archive(c) \/ ArchiveChecks(c) \/ ArchiveReads(c) \/ Crash(c)
  PROVE  IInv'
<1>0. TypeOK /\ Holds(c) /\ Archives(c)
  BY DEF IInv, Knows
<1>1. CASE Archive(c)
  <2>1. /\ pc' = [pc EXCEPT ![c] = "archive checks"] /\ left' = [left EXCEPT ![c] = Known]
        /\ taskLock = None /\ taskLock' = c
        /\ UNCHANGED <<files, laneLock, work, at, draft, status>>
    BY <1>1 DEF Archive
  <2>2. \A d \in Client \ {c} : Still(d)
    BY <1>0, <2>1 DEF Still, TypeOK
  <2>3. pc'[c] = "archive checks" /\ left'[c] = Known /\ Known' = Known
    BY <1>0, <2>1 DEF TypeOK, files, Known
  <2>4. \A l \in Lane \ Known : Quiet(l)'
    BY <2>1 DEF Known, Quiet, Queue, Active, files
  <2>5. Knows(c)'
    BY <2>1, <2>3, <2>4 DEF Knows, Holds, Claims, Claiming, Writes, Archives, InLane, Writing
  <2> QED
    BY <2>1, <2>2, <2>5, NoFileWritten
<1>2. CASE ArchiveChecks(c)
  <2>1. CASE Finish(c)
    BY <1>0, <1>2, <2>1, FinishKnows, NoFileWritten DEF ArchiveChecks
  <2>2. CASE \E l \in left[c] :
               /\ Quiet(l) /\ left' = [left EXCEPT ![c] = @ \ {l}]
               /\ UNCHANGED <<locks, pc, work, at, draft, status>>
    <3>1. PICK l \in left[c] :
            /\ Quiet(l) /\ left' = [left EXCEPT ![c] = @ \ {l}]
            /\ UNCHANGED <<locks, pc, work, at, draft, status>>
      BY <2>2
    <3>2. pc[c] = "archive checks" /\ UNCHANGED files
      BY <1>2 DEF ArchiveChecks
    <3>3. \A d \in Client \ {c} : Still(d)
      BY <1>0, <3>1 DEF Still, TypeOK, locks
    <3>4. pc'[c] = "archive checks" /\ left'[c] = left[c] \ {l} /\ Known' = Known /\ taskLock' = taskLock
      BY <1>0, <3>1, <3>2 DEF TypeOK, files, Known, locks
    <3>5. \A k \in Lane \ left'[c] : Quiet(k)'
      BY <1>0, <3>1, <3>2, <3>4 DEF Archives, Quiet, Queue, Active, files
    <3>6. Knows(c)'
      BY <1>0, <3>2, <3>4, <3>5
      DEF Knows, Holds, Claims, Claiming, Writes, Archives, InLane, Writing
    <3> QED
      BY <3>2, <3>3, <3>6, NoFileWritten
  <2> QED
    BY <1>2, <2>1, <2>2 DEF ArchiveChecks
<1>3. CASE ArchiveReads(c)
  <2>1. PICK l \in left[c] :
          /\ at' = [at EXCEPT ![c] = l]
          /\ draft' = [draft EXCEPT ![c] = [lane[l] EXCEPT !.status = "archived"]]
    BY <1>3 DEF ArchiveReads
  <2>2. /\ pc[c] = "archive" /\ pc' = [pc EXCEPT ![c] = "archive writes"]
        /\ UNCHANGED <<files, locks, work, status, left>>
    BY <1>3 DEF ArchiveReads
  <2>3. l \in Lane /\ lane[l] # Absent /\ lane[l] \in LaneRecord /\ task = "archiving"
    <3>1. l \in Known /\ task = "archiving" /\ lane \in [Lane -> LaneRecord \cup {Absent}]
      BY <1>0, <2>1, <2>2, Zenon DEF Archives, TypeOK
    <3> QED
      BY <3>1 DEF Known
  <2>4. lane[l].active = None /\ lane[l].queue = <<>>
    BY <2>3 DEF IInv, ArchivingIsQuiet, Quiet, Queue, Active
  <2>5. PICK r \in LaneRecord :
          draft' = [draft EXCEPT ![c] = r] /\ r.active = None /\ r.queue = <<>>
    <3>1. /\ [lane[l] EXCEPT !.status = "archived"] \in LaneRecord
          /\ [lane[l] EXCEPT !.status = "archived"].active = None
          /\ [lane[l] EXCEPT !.status = "archived"].queue = <<>>
      BY <2>3, <2>4 DEF LaneRecord
    <3> QED
      BY <2>1, <3>1
  <2>6. \A d \in Client \ {c} : Still(d)
    BY <1>0, <2>1, <2>2, <2>5 DEF Still, TypeOK, locks
  <2>7. pc'[c] = "archive writes" /\ at'[c] = l /\ draft'[c] = r /\ left'[c] = left[c]
    BY <1>0, <2>1, <2>2, <2>5 DEF TypeOK
  <2>8. Known' = Known /\ taskLock' = taskLock /\ task' = task /\ lane' = lane
    BY <2>2 DEF Known, locks, files
  <2>9. Knows(c)'
    BY <1>0, <2>2, <2>3, <2>5, <2>7, <2>8
    DEF Knows, Holds, Claims, Claiming, Writes, Archives, InLane, Writing
  <2> QED
    BY <2>2, <2>6, <2>9, NoFileWritten
<1>4. CASE Crash(c)
  BY <1>0, <1>4, FinishKnows, NoFileWritten DEF Crash
<1> QED
  BY <1>1, <1>2, <1>3, <1>4

-----------------------------------------------------------------------------
(* The actions that write a file.                                          *)

\* Such an action keeps the invariant if the others are left what they rely on.
LEMMA FileWritten ==
  ASSUME IInv, TypeOK', NEW c \in Client, Knows(c)',
         \A d \in Client \ {c} : Still(d) /\ Leaves(d),
         ArchivingIsQuiet', HolderAgrees', QueuesAreKnown'
  PROVE  IInv'
<1>1. \A d \in Client \ {c} : Knows(d)'
  BY StillKnows
<1> QED
  BY <1>1 DEF IInv

\* The operation file of a change is written.
LEMMA WriteOperationKeeps ==
  ASSUME IInv, TypeOK', NEW c \in Client, WriteOperation(c) PROVE IInv'
<1>1. /\ TypeOK /\ ArchivingIsQuiet /\ HolderAgrees /\ QueuesAreKnown
      /\ Holds(c) /\ Writes(c) /\ Archives(c)
      /\ pc[c] = "write operation" /\ op' = [op EXCEPT ![work[c]] = status[c]]
      /\ pc' = [pc EXCEPT ![c] = "write lane"]
      /\ UNCHANGED <<task, lane, locks, locals, faults>>
  BY DEF IInv, Knows, WriteOperation
<1>2. /\ work[c] \in Op /\ at[c] = LaneOf[work[c]] /\ draft[c] # Absent
      /\ at[c] \in Lane /\ laneLock[at[c]] = c
      /\ Adds(c) \/ Takes(c) \/ Moves(c)
  BY <1>1, Zenon DEF Writes, Holds, InLane, Writing
<1>3. op'[work[c]] = status[c] /\ \A o \in Op \ {work[c]} : op'[o] = op[o]
  BY <1>1, <1>2 DEF TypeOK
<1>4. /\ task' = task /\ lane' = lane /\ taskLock' = taskLock /\ laneLock' = laneLock
      /\ work' = work /\ at' = at /\ draft' = draft /\ status' = status /\ left' = left
      /\ pc'[c] = "write lane"
  BY <1>1 DEF TypeOK, locks, locals
<1>5. Known' = Known /\ \A l \in Lane : Queue(l)' = Queue(l) /\ Active(l)' = Active(l)
  BY <1>4 DEF Known, Queue, Active
<1>6. \A d \in Client \ {c} : Still(d) /\ Leaves(d)
  <2> TAKE d \in Client \ {c}
  <2>1. Still(d)
    BY <1>1, <1>4 DEF Still, TypeOK
  <2>2. \A o \in Op : laneLock[LaneOf[o]] = d => op'[o] = op[o]
    <3>1. laneLock[LaneOf[work[c]]] = c
      BY <1>2, Zenon
    <3> QED
      BY <1>3, <3>1
  <2>3. Leaves(d)
    BY <1>4, <1>5, <2>2 DEF Leaves, Quiet
  <2> QED
    BY <2>1, <2>3
<1>7. status[c] \notin {Absent, "running", "callback-ready"} \/ Active(at[c]) = work[c]
  BY <1>1, <1>2 DEF Adds, Takes, Moves, OpStatus, Working, Terminal
<1>8. status[c] # Absent /\ (Active(at[c]) = work[c] => status[c] # "queued")
  <2>1. CASE Adds(c)
    BY <1>1, <2>1 DEF Adds, OpStatus
  <2>2. CASE Takes(c)
    BY <1>1, <2>2 DEF Takes, OpStatus, Working
  <2>3. CASE Moves(c)
    BY <1>1, <2>3 DEF Moves, OpStatus, Working, Terminal
  <2> QED
    BY <1>2, <2>1, <2>2, <2>3
<1>9. HolderAgrees'
  <2> SUFFICES ASSUME NEW o \in Op
               PROVE  /\ op'[o] \in {"running", "callback-ready"} => Active(LaneOf[o]) = o
                      /\ Active(LaneOf[o]) = o => op'[o] \notin {Absent, "queued"}
    BY <1>5 DEF HolderAgrees
  <2>1. CASE o = work[c]
    BY <1>2, <1>3, <1>7, <1>8, <2>1
  <2>2. CASE o # work[c]
    BY <1>1, <1>3, <2>2 DEF HolderAgrees
  <2> QED
    BY <2>1, <2>2
<1>10. QueuesAreKnown'
  <2>1. \A o \in Op : op[o] # Absent => op'[o] # Absent
    BY <1>3, <1>8
  <2> SUFFICES ASSUME NEW l \in Lane, NEW i \in DOMAIN Queue(l)'
               PROVE  LaneOf[Queue(l)'[i]] = l /\ op'[Queue(l)'[i]] # Absent
    BY Zenon DEF QueuesAreKnown
  <2>4. Queue(l)' = Queue(l) /\ Queue(l) \in Seq(Op)
    BY <1>1, <1>5, ViewTypes
  <2>2. Queue(l)[i] \in Op /\ i \in DOMAIN Queue(l)
    BY <2>4
  <2>3. LaneOf[Queue(l)[i]] = l /\ op[Queue(l)[i]] # Absent
    BY <1>1, <2>2, Zenon DEF QueuesAreKnown
  <2> QED
    BY <2>1, <2>2, <2>3, <2>4
<1>11. ArchivingIsQuiet'
  BY <1>1, <1>4, <1>5 DEF ArchivingIsQuiet, Quiet
<1>12. Writes(c)'
  <2>1. /\ Queue(at[c])' = Queue(at[c]) /\ Active(at[c])' = Active(at[c])
        /\ at'[c] = at[c] /\ work'[c] = work[c] /\ draft'[c] = draft[c]
    BY <1>2, <1>4, <1>5
  <2>2. Adds(c) => Adds(c)'
    BY <1>1, <1>3, <1>4, <2>1 DEF Adds, Queue, Active
  <2>3. Takes(c) => Takes(c)'
    BY <1>1, <1>3, <1>4, <2>1 DEF Takes, Queue, Active
  <2>4. Moves(c) => Moves(c)'
    BY <1>1, <1>2, <1>3, <1>4, <2>1 DEF Moves, Queue, Active, Terminal
  <2> QED
    BY <1>2, <1>4, <2>2, <2>3, <2>4 DEF Writes
<1>13. Knows(c)'
  <2>1. at'[c] = at[c] /\ laneLock'[at[c]] = c /\ at[c] \in Lane /\ pc'[c] = "write lane"
    BY <1>2, <1>4, Zenon
  <2>3. Holds(c)' /\ Claims(c)'
    BY <2>1 DEF Holds, Claims, Claiming, InLane, Writing
  <2>2. Archives(c)'
    BY <1>1, <1>4, <1>5 DEF Archives
  <2> QED
    BY <1>12, <2>2, <2>3 DEF Knows
<1> QED
  BY <1>6, <1>9, <1>10, <1>11, <1>13, FileWritten

\* A lane that is quiet cannot be written under its lock but by an enqueue.
LEMMA QuietIsNotTaken ==
  ASSUME IInv, NEW c \in Client, pc[c] \in Writing, Quiet(at[c])
  PROVE  Adds(c)
<1>1. work[c] \in Op /\ (Adds(c) \/ Takes(c) \/ Moves(c))
  BY DEF IInv, Knows, Writes
<1> QED
  BY <1>1 DEF Takes, Moves, Quiet

\* The lane file of a change is written.
LEMMA WriteLaneKeeps ==
  ASSUME IInv, TypeOK', NEW c \in Client, WriteLane(c) PROVE IInv'
<1>1. /\ TypeOK /\ ArchivingIsQuiet /\ HolderAgrees /\ QueuesAreKnown
      /\ Holds(c) /\ Writes(c)
      /\ pc[c] = "write lane" /\ lane' = [lane EXCEPT ![at[c]] = draft[c]]
      /\ Finish(c) /\ task' = task /\ op' = op
  BY DEF IInv, Knows, WriteLane
<1>2. /\ work[c] \in Op /\ at[c] = LaneOf[work[c]] /\ draft[c] # Absent
      /\ at[c] \in Lane /\ laneLock[at[c]] = c
      /\ Adds(c) \/ Takes(c) \/ Moves(c)
  BY <1>1, Zenon DEF Writes, Holds, InLane, Writing
<1>3. draft[c] \in LaneRecord
  BY <1>1, <1>2 DEF TypeOK
<1> PICK a \in Lane, r \in LaneRecord : a = at[c] /\ r = draft[c]
  BY <1>2, <1>3
<1>4. /\ Queue(a)' = r.queue /\ Active(a)' = r.active
      /\ \A k \in Lane \ {a} : Queue(k)' = Queue(k) /\ Active(k)' = Active(k)
      /\ Known \subseteq Known'
  <2>1. TypeOK /\ lane' = [lane EXCEPT ![a] = r]
    BY <1>1, Zenon
  <2> QED
    BY <2>1, LaneWritten
<1>5. Knows(c)' /\ \A d \in Client \ {c} : Still(d)
  BY <1>1, FinishKnows
<1>6. \A l \in Lane : Quiet(l) => Quiet(l)' \/ (taskLock = c /\ task = "active")
  <2> TAKE l \in Lane
  <2> SUFFICES ASSUME Quiet(l), l = a PROVE taskLock = c /\ task = "active"
    BY <1>4 DEF Quiet
  <2>2. Quiet(at[c])
    OBVIOUS
  <2>1. Adds(c)
    BY <1>1, <2>2, QuietIsNotTaken DEF Writing
  <2> QED
    BY <2>1 DEF Adds
<1>7. \A d \in Client \ {c} : Leaves(d)
  <2> TAKE d \in Client \ {c}
  <2>1. \A l \in Lane : laneLock[l] = d => Queue(l)' = Queue(l) /\ Active(l)' = Active(l)
    <3>1. laneLock[a] = c
      BY <1>2, Zenon
    <3> QED
      BY <1>4, <3>1
  <2>2. taskLock = d => \A l \in Lane : Quiet(l) => Quiet(l)'
    BY <1>6
  <2> QED
    BY <1>1, <1>4, <2>1, <2>2 DEF Leaves
<1>8. ArchivingIsQuiet'
  BY <1>1, <1>6 DEF ArchivingIsQuiet
<1>9. HolderAgrees'
  <2> SUFFICES ASSUME NEW o \in Op
               PROVE  /\ op[o] \in {"running", "callback-ready"} => Active(LaneOf[o])' = o
                      /\ Active(LaneOf[o])' = o => op[o] \notin {Absent, "queued"}
    BY <1>1 DEF HolderAgrees
  <2>1. CASE LaneOf[o] # a
    BY <1>1, <1>4, <2>1 DEF HolderAgrees
  <2>2. CASE LaneOf[o] = a
    <3>1. /\ op[o] \in {"running", "callback-ready"} => Active(at[c]) = o
          /\ Active(at[c]) = o => op[o] \notin {Absent, "queued"}
      BY <1>1, <2>2 DEF HolderAgrees
    <3>5. Active(LaneOf[o])' = draft[c].active
      BY <1>4, <2>2
    <3>2. CASE Adds(c)
      BY <3>1, <3>2, <3>5 DEF Adds
    <3>3. CASE Takes(c)
      <4>1. /\ Active(at[c]) = None /\ draft[c].active = work[c]
            /\ op[work[c]] \in {"starting", "unreadable"}
        BY <1>1, <3>3, Zenon DEF Takes
      <4>2. op[work[c]] \notin {Absent, "queued"}
        BY <4>1 DEF OpStatus, Working
      <4> QED
        BY <3>1, <3>5, <4>1, <4>2
    <3>4. CASE Moves(c)
      <4>1. /\ Active(at[c]) = work[c] /\ draft[c].active \in {work[c], None}
            /\ draft[c].active = None => op[work[c]] \in {"complete", "failed", "unreadable"}
        BY <1>1, <3>4 DEF Moves, Terminal
      <4> QED
        BY <3>1, <3>5, <4>1
    <3> QED
      BY <1>2, <3>2, <3>3, <3>4
  <2> QED
    BY <2>1, <2>2
<1>10. QueuesAreKnown'
  <2> DEFINE S == {o \in Op : LaneOf[o] = at[c] /\ op[o] # Absent}
  <2>1. Queue(at[c]) \in Seq(Op) /\ \A i \in DOMAIN Queue(at[c]) : Queue(at[c])[i] \in S
    <3>1. TypeOK /\ QueuesAreKnown /\ at[c] \in Lane
      BY <1>1, <1>2, Zenon
    <3>2. Queue(at[c]) \in Seq(Op)
      BY <3>1, ViewTypes
    <3> QED
      BY <3>1, <3>2 DEF QueuesAreKnown
  <2>2. \A i \in DOMAIN draft[c].queue : draft[c].queue[i] \in S
    <3>1. CASE Adds(c)
      <4>1. work[c] \in S
        BY <1>1, <1>2, <3>1 DEF Adds, OpStatus
      <4> HIDE DEF S
      <4> QED
        BY <1>2, <2>1, <3>1, <4>1, EndsMembers DEF Adds
    <3>2. CASE Takes(c)
      <4> HIDE DEF S
      <4> QED
        BY <2>1, <3>2, EndsMembers DEF Takes
    <3>3. CASE Moves(c)
      BY <2>1, <3>3 DEF Moves
    <3> QED
      BY <1>2, <3>1, <3>2, <3>3
  <2> QED
    <3> SUFFICES ASSUME NEW l \in Lane, NEW i \in DOMAIN Queue(l)'
                 PROVE  LaneOf[Queue(l)'[i]] = l /\ op[Queue(l)'[i]] # Absent
      BY <1>1, Zenon DEF QueuesAreKnown
    <3>1. CASE l = a
      <4>1. Queue(l)' = draft[c].queue /\ at[c] = l
        BY <1>4, <3>1
      <4> QED
        BY <2>2, <4>1
    <3>2. CASE l # a
      <4>1. Queue(l)' = Queue(l) /\ QueuesAreKnown
        BY <1>1, <1>4, <3>2
      <4> QED
        BY <4>1 DEF QueuesAreKnown
    <3> QED
      BY <3>1, <3>2
<1> QED
  BY <1>5, <1>7, <1>8, <1>9, <1>10, FileWritten

\* A claim writes the lane: without the head that it passes over, or idle.
LEMMA ClaimWritesKeeps ==
  ASSUME IInv, TypeOK', NEW c \in Client, ClaimPasses(c) \/ ClaimFindsNone(c) PROVE IInv'
<1>1. TypeOK /\ ArchivingIsQuiet /\ HolderAgrees /\ QueuesAreKnown /\ Archives(c)
  BY DEF IInv, Knows
<1>2. Claiming(c)
  BY DEF ClaimPasses, ClaimFindsNone, Claiming
<1>3. PICK a \in Lane :
        /\ a = at[c] /\ laneLock[a] = c /\ Active(a) = None
        /\ draft[c] \in LaneRecord /\ draft[c].active = None /\ draft[c].queue = Queue(a)
  <2>1. Holds(c) /\ Claims(c) /\ draft[c] \in LaneRecord \cup {Absent}
    BY <1>1 DEF IInv, Knows, TypeOK
  <2> QED
    BY <1>2, <2>1 DEF Holds, Claims, Claiming, InLane
<1>4. PICK r \in LaneRecord :
        /\ lane' = [lane EXCEPT ![a] = r] /\ r.active = None
        /\ IF Queue(a) = <<>> THEN r.queue = <<>> /\ Finish(c)
           ELSE /\ r.queue = Tail(Queue(a)) /\ draft' = [draft EXCEPT ![c] = r]
                /\ pc' \in {pc, [pc EXCEPT ![c] = "claim, discarded"]}
                /\ UNCHANGED <<locks, work, at, status, left>>
  <2>1. CASE ClaimPasses(c)
    <3> DEFINE o == Head(draft[c].queue)
               broken == op[o] \in {Absent, "unreadable"}
               d == [draft[c] EXCEPT !.queue = Tail(@), !.status = IF broken THEN "failed" ELSE @]
    <3>1. d \in LaneRecord /\ d.active = None /\ d.queue = Tail(Queue(a)) /\ Queue(a) # <<>>
      BY <1>3, <2>1, Ends DEF ClaimPasses, LaneRecord
    <3>2. /\ draft' = [draft EXCEPT ![c] = d] /\ lane' = [lane EXCEPT ![a] = d]
          /\ pc' \in {pc, [pc EXCEPT ![c] = "claim, discarded"]}
          /\ UNCHANGED <<locks, work, at, status, left>>
      BY <1>3, <2>1 DEF ClaimPasses
    <3> HIDE DEF d
    <3> QED
      BY <3>1, <3>2
  <2>2. CASE ClaimFindsNone(c)
    <3> DEFINE d == [draft[c] EXCEPT !.status = "idle"]
    <3>1. d \in LaneRecord /\ d.active = None /\ d.queue = <<>> /\ Queue(a) = <<>>
      BY <1>3, <2>2 DEF ClaimFindsNone, LaneRecord
    <3>2. lane' = [lane EXCEPT ![a] = d] /\ Finish(c)
      BY <1>3, <2>2 DEF ClaimFindsNone
    <3> HIDE DEF d
    <3> QED
      BY <3>1, <3>2
  <2> QED
    BY <2>1, <2>2
<1>5. /\ Queue(a)' = r.queue /\ Active(a)' = r.active
      /\ \A k \in Lane \ {a} : Queue(k)' = Queue(k) /\ Active(k)' = Active(k)
      /\ Known \subseteq Known'
  BY <1>1, <1>4, LaneWritten
<1>6. task' = task /\ op' = op
  BY DEF ClaimPasses, ClaimFindsNone
<1>7. Knows(c)' /\ \A d \in Client \ {c} : Still(d)
  <2>1. CASE Queue(a) = <<>>
    BY <1>1, <1>4, <2>1, FinishKnows
  <2>2. CASE Queue(a) # <<>>
    <3>1. /\ draft' = [draft EXCEPT ![c] = r] /\ pc' \in {pc, [pc EXCEPT ![c] = "claim, discarded"]}
          /\ UNCHANGED <<locks, work, at, status, left>>
      BY <1>4, <2>2
    <3>2. \A d \in Client \ {c} : Still(d)
      BY <1>1, <3>1 DEF Still, TypeOK, locks
    <3>3. pc'[c] \in {"claim", "claim, discarded"} /\ draft'[c] = r
      BY <1>1, <1>2, <3>1 DEF TypeOK, Claiming
    <3>4. at'[c] = a /\ laneLock'[a] = c /\ left'[c] = left[c]
      BY <1>3, <3>1 DEF locks
    <3>5. Queue(at[c])' = r.queue /\ Active(at[c])' = None
      BY <1>4, <1>5, <3>4 DEF Queue, Active
    <3>6. Claims(c)'
      BY <1>4, <2>2, <3>3, <3>5 DEF Claims
    <3>7. Holds(c)' /\ Writes(c)'
      BY <3>3, <3>4 DEF Holds, Writes, Writing
    <3>8. Archives(c)'
      BY <1>1, <1>5, <3>3, <3>4 DEF Archives
    <3> QED
      BY <3>2, <3>6, <3>7, <3>8 DEF Knows
  <2> QED
    BY <2>1, <2>2
<1>8. \A l \in Lane : Quiet(l) => Quiet(l)'
  <2> TAKE l \in Lane
  <2>1. CASE l = a
    BY <1>4, <1>5, <2>1 DEF Quiet
  <2>2. CASE l # a
    BY <1>5, <2>2 DEF Quiet
  <2> QED
    BY <2>1, <2>2
<1>9. \A d \in Client \ {c} : Leaves(d)
  <2> TAKE d \in Client \ {c}
  <2>1. \A l \in Lane : laneLock[l] = d => Queue(l)' = Queue(l) /\ Active(l)' = Active(l)
    BY <1>3, <1>5
  <2> QED
    BY <1>5, <1>6, <1>8, <2>1 DEF Leaves
<1>10. ArchivingIsQuiet'
  BY <1>1, <1>6, <1>8 DEF ArchivingIsQuiet
<1>11. \A l \in Lane : Active(l)' = Active(l)
  BY <1>3, <1>4, <1>5
<1>12. HolderAgrees'
  BY <1>1, <1>6, <1>11 DEF HolderAgrees
<1>13. QueuesAreKnown'
  <2> SUFFICES ASSUME NEW l \in Lane, NEW i \in DOMAIN Queue(l)'
               PROVE  LaneOf[Queue(l)'[i]] = l /\ op'[Queue(l)'[i]] # Absent
    BY Zenon DEF QueuesAreKnown
  <2>1. CASE l = a /\ Queue(a) = <<>>
    BY <1>4, <1>5, <2>1
  <2>2. CASE l = a /\ Queue(a) # <<>>
    <3>1. Queue(a)' = Tail(Queue(a)) /\ Queue(a) \in Seq(Op)
      BY <1>1, <1>4, <1>5, <2>2, ViewTypes
    <3>2. i + 1 \in DOMAIN Queue(a) /\ Queue(a)'[i] = Queue(a)[i + 1]
      BY <2>2, <3>1
    <3>3. QueuesAreKnown
      BY <1>1
    <3> QED
      BY <1>6, <2>2, <3>2, <3>3 DEF QueuesAreKnown
  <2>3. CASE l # a
    <3>1. Queue(l)' = Queue(l) /\ QueuesAreKnown
      BY <1>1, <1>5, <2>3
    <3> QED
      BY <1>6, <3>1 DEF QueuesAreKnown
  <2> QED
    BY <2>1, <2>2, <2>3
<1> QED
  BY <1>7, <1>9, <1>10, <1>12, <1>13, FileWritten

\* The task file of an archive is written.
LEMMA ArchiveTaskKeeps ==
  ASSUME IInv, TypeOK', NEW c \in Client, ArchiveMarks(c) \/ ArchiveDone(c) \/ ArchiveFails(c)
  PROVE  IInv'
<1>1. /\ TypeOK /\ ArchivingIsQuiet /\ HolderAgrees /\ QueuesAreKnown
      /\ Holds(c) /\ Archives(c) /\ taskLock = c
  BY DEF IInv, Knows, Holds, ArchiveMarks, ArchiveDone, ArchiveFails
<1>2. lane' = lane /\ op' = op
  BY DEF ArchiveMarks, ArchiveDone, ArchiveFails
<1>3. Known' = Known /\ \A l \in Lane : Queue(l)' = Queue(l) /\ Active(l)' = Active(l)
  BY <1>2 DEF Known, Queue, Active
<1>4. HolderAgrees' /\ QueuesAreKnown'
  BY <1>1, <1>2, <1>3 DEF HolderAgrees, QueuesAreKnown
<1>5. \A d \in Client \ {c} : Leaves(d)
  BY <1>1, <1>2, <1>3 DEF Leaves
<1>6. \A l \in Lane : Quiet(l)' <=> Quiet(l)
  BY <1>3 DEF Quiet
<1>7. CASE ArchiveMarks(c)
  <2>1. /\ pc[c] = "archive checks" /\ left[c] = {} /\ task' = "archiving"
        /\ left' = [left EXCEPT ![c] = Known] /\ pc' = [pc EXCEPT ![c] = "archive"]
        /\ UNCHANGED <<locks, work, at, draft, status>>
    BY <1>7 DEF ArchiveMarks
  <2>2. \A l \in Lane : Quiet(l)
    BY <1>1, <2>1 DEF Archives
  <2>3. ArchivingIsQuiet'
    BY <1>6, <2>2 DEF ArchivingIsQuiet
  <2>4. \A d \in Client \ {c} : Still(d)
    BY <1>1, <2>1 DEF Still, TypeOK, locks
  <2>5. pc'[c] = "archive" /\ left'[c] = Known /\ taskLock' = c
    BY <1>1, <2>1 DEF TypeOK, locks
  <2>6. Knows(c)'
    BY <1>3, <2>1, <2>5 DEF Knows, Holds, Claims, Claiming, Writes, Archives, InLane, Writing
  <2> QED
    BY <1>4, <1>5, <2>3, <2>4, <2>6, FileWritten
<1>8. CASE ArchiveDone(c) \/ ArchiveFails(c)
  <2>1. Finish(c) /\ task = "archiving"
    BY <1>1, <1>8 DEF Archives, ArchiveDone, ArchiveFails
  <2>2. ArchivingIsQuiet'
    BY <1>1, <1>6, <2>1 DEF ArchivingIsQuiet
  <2> QED
    BY <1>1, <1>4, <1>5, <2>1, <2>2, FinishKnows, FileWritten
<1> QED
  BY <1>7, <1>8

\* The lane file of an archive is written: quiet it was, quiet it is.
LEMMA ArchiveWritesKeeps ==
  ASSUME IInv, TypeOK', NEW c \in Client, ArchiveWrites(c) PROVE IInv'
<1>1. /\ TypeOK /\ ArchivingIsQuiet /\ HolderAgrees /\ QueuesAreKnown /\ Archives(c)
      /\ taskLock = c /\ task = "archiving" /\ pc[c] = "archive writes"
  BY DEF IInv, Knows, Holds, Archives, ArchiveWrites
<1>2. PICK a \in Lane, r \in LaneRecord :
        /\ a = at[c] /\ r.active = None /\ r.queue = <<>> /\ lane' = [lane EXCEPT ![a] = r]
  BY <1>1 DEF ArchiveWrites, Archives, TypeOK
<1>3. /\ Queue(a)' = r.queue /\ Active(a)' = r.active
      /\ \A k \in Lane \ {a} : Queue(k)' = Queue(k) /\ Active(k)' = Active(k)
      /\ Known \subseteq Known'
  BY <1>1, <1>2, LaneWritten
<1>4. Quiet(a)
  BY <1>1 DEF ArchivingIsQuiet
<1>5. \A l \in Lane : Queue(l)' = Queue(l) /\ Active(l)' = Active(l)
  BY <1>2, <1>3, <1>4 DEF Quiet
<1>6. /\ task' = task /\ op' = op /\ pc' = [pc EXCEPT ![c] = "archive"]
      /\ left' = [left EXCEPT ![c] = @ \ {at[c]}]
      /\ UNCHANGED <<locks, work, at, draft, status>>
  BY DEF ArchiveWrites
<1>7. \A d \in Client \ {c} : Still(d) /\ Leaves(d)
  <2>1. \A d \in Client \ {c} : Still(d)
    BY <1>1, <1>6 DEF Still, TypeOK, locks
  <2>2. \A d \in Client \ {c} : Leaves(d)
    BY <1>3, <1>5, <1>6 DEF Leaves, Quiet
  <2> QED
    BY <2>1, <2>2
<1>8. HolderAgrees' /\ QueuesAreKnown' /\ ArchivingIsQuiet'
  <2>1. op' = op /\ task' = task
    BY <1>6
  <2>2. HolderAgrees' /\ ArchivingIsQuiet'
    BY <1>1, <1>5, <2>1 DEF HolderAgrees, ArchivingIsQuiet, Quiet
  <2>3. QueuesAreKnown'
    <3> SUFFICES ASSUME NEW l \in Lane, NEW i \in DOMAIN Queue(l)'
                 PROVE  LaneOf[Queue(l)'[i]] = l /\ op'[Queue(l)'[i]] # Absent
      BY Zenon DEF QueuesAreKnown
    <3>1. Queue(l)' = Queue(l) /\ QueuesAreKnown
      BY <1>1, <1>5
    <3> QED
      BY <2>1, <3>1 DEF QueuesAreKnown
  <2> QED
    BY <2>2, <2>3
<1>9. Knows(c)'
  <2>1. pc'[c] = "archive" /\ left'[c] \subseteq left[c] /\ taskLock' = c
    BY <1>1, <1>6 DEF TypeOK, locks
  <2> QED
    BY <1>1, <1>3, <1>6, <2>1
    DEF Knows, Holds, Claims, Claiming, Writes, Archives, InLane, Writing
<1> QED
  BY <1>7, <1>8, <1>9, FileWritten

\* An operation file is damaged.
LEMMA DamageKeeps ==
  ASSUME IInv, TypeOK', Damage PROVE IInv'
<1>1. PICK o \in Op : op[o] # Absent /\ op' = [op EXCEPT ![o] = "unreadable"]
  BY DEF Damage
<1>2. /\ TypeOK /\ ArchivingIsQuiet /\ HolderAgrees /\ QueuesAreKnown
      /\ UNCHANGED <<task, lane, locks, pc, locals>>
  BY DEF IInv, Damage
<1>3. Known' = Known /\ \A l \in Lane : Queue(l)' = Queue(l) /\ Active(l)' = Active(l)
  BY <1>2 DEF Known, Queue, Active
<1>4. \A p \in Op : op'[p] = op[p] \/ (op[p] # Absent /\ op'[p] = "unreadable")
  BY <1>1, <1>2 DEF TypeOK
<1>5. ASSUME NEW d \in Client PROVE Still(d) /\ Leaves(d)
  BY <1>2, <1>3, <1>4 DEF Still, Leaves, Quiet, locks, locals
<1>6. \A d \in Client : Knows(d)'
  BY <1>5, StillKnows
<1>7. "unreadable" \notin {Absent, "queued", "running", "callback-ready"}
  BY DEF OpStatus
<1>8. HolderAgrees' /\ ArchivingIsQuiet'
  BY <1>2, <1>3, <1>4, <1>7 DEF HolderAgrees, ArchivingIsQuiet, Quiet
<1>9. QueuesAreKnown'
  <2> SUFFICES ASSUME NEW l \in Lane, NEW i \in DOMAIN Queue(l)'
               PROVE  LaneOf[Queue(l)'[i]] = l /\ op'[Queue(l)'[i]] # Absent
    BY Zenon DEF QueuesAreKnown
  <2>1. Queue(l)' = Queue(l) /\ Queue(l) \in Seq(Op)
    BY <1>2, <1>3, ViewTypes
  <2>2. Queue(l)[i] \in Op /\ i \in DOMAIN Queue(l)
    BY <2>1
  <2> QED
    BY <1>2, <1>4, <1>7, <2>1, <2>2 DEF QueuesAreKnown
<1> QED
  BY <1>6, <1>8, <1>9 DEF IInv

-----------------------------------------------------------------------------
(* The theorems.                                                           *)

\* The invariant holds at the start.
LEMMA InitInv == Init => IInv
<1> SUFFICES ASSUME Init PROVE IInv
  OBVIOUS
<1>1. TypeOK
  BY InitTypes
<1>2. \A l \in Lane : Queue(l) = <<>> /\ Active(l) = None
  BY DEF Init, Queue, Active
<1>3. ArchivingIsQuiet /\ HolderAgrees /\ QueuesAreKnown
  <2>1. ArchivingIsQuiet
    BY <1>2 DEF ArchivingIsQuiet, Quiet
  <2>2. Absent \notin {"running", "callback-ready"} /\ \A o \in Op : op[o] = Absent
    BY DEF Init, OpStatus, Working
  <2>3. HolderAgrees
    BY <1>2, <2>2 DEF HolderAgrees
  <2>4. QueuesAreKnown
    BY <1>2 DEF QueuesAreKnown
  <2> QED
    BY <2>1, <2>3, <2>4
<1>4. ASSUME NEW c \in Client PROVE Knows(c)
  <2>1. pc[c] = "idle" /\ left[c] = {}
    BY DEF Init
  <2> QED
    BY <2>1 DEF Knows, Holds, Claims, Claiming, Writes, Archives, InLane, Writing
<1> QED
  BY <1>1, <1>3, <1>4 DEF IInv

\* Every step keeps it.
LEMMA InvStep == IInv /\ [Next]_vars => IInv'
<1> SUFFICES ASSUME IInv, [Next]_vars PROVE IInv'
  OBVIOUS
<1>0. TypeOK'
  BY NextTypes
<1>1. CASE UNCHANGED vars
  <2>1. task' = task /\ lane' = lane /\ op' = op
    BY <1>1 DEF vars
  <2>2. Known' = Known /\ \A l \in Lane : Queue(l)' = Queue(l) /\ Active(l)' = Active(l)
    BY <2>1 DEF Known, Queue, Active
  <2>3. \A d \in Client : Still(d) /\ Leaves(d)
    BY <1>1, <2>1, <2>2 DEF vars, Still, Leaves, Quiet
  <2>4. \A d \in Client : Knows(d)'
    BY <2>3, StillKnows
  <2>5. ArchivingIsQuiet' /\ HolderAgrees' /\ QueuesAreKnown'
    BY <2>1, <2>2 DEF IInv, ArchivingIsQuiet, HolderAgrees, QueuesAreKnown, Quiet
  <2> QED
    BY <1>0, <2>4, <2>5 DEF IInv
<1>2. ASSUME NEW c \in Client, Call(c) \/ Step(c) \/ ArchiveFails(c) \/ Crash(c) PROVE IInv'
  BY <1>0, <1>2, EnqueueKeeps, EnqueueInLaneKeeps, ClaimKeeps, ClaimTakesKeeps, ClaimGivesUpKeeps,
     TransitionKeeps, RepairKeeps, ArchiveLooksKeeps, WriteOperationKeeps, WriteLaneKeeps,
     ClaimWritesKeeps, ArchiveTaskKeeps, ArchiveWritesKeeps DEF Call, Step
<1>3. CASE Damage
  BY <1>0, <1>3, DamageKeeps
<1> QED
  BY <1>1, <1>2, <1>3 DEF Next

\* The inductive invariant: who holds which lock, what each call knows of the
\* files it has read, and what the lanes, queues and operations agree on.
THEOREM Invariance == Spec => []IInv
  BY InitInv, InvStep, PTL DEF Spec

\* The registry is correctly typed, for any clients, lanes and operations.
THEOREM TypeCorrect == Spec => []TypeOK
<1>1. IInv => TypeOK
  BY DEF IInv
<1> QED
  BY Invariance, <1>1, PTL

\* A task that is being archived has no work in any lane.
THEOREM NoWorkIsArchived == Spec => []ArchivingIsQuiet
<1>1. IInv => ArchivingIsQuiet
  BY DEF IInv
<1> QED
  BY Invariance, <1>1, PTL

\* Running operations hold their lanes, and lanes are held by started ones.
THEOREM HolderCorrect == Spec => []HolderAgrees
<1>1. IInv => HolderAgrees
  BY DEF IInv
<1> QED
  BY Invariance, <1>1, PTL

-----------------------------------------------------------------------------
(* Steps.                                                                  *)

\* Operation files are written by WriteOperation only, and damaged.
LEMMA OperationsWritten ==
  ASSUME [Next]_vars
  PROVE  op' = op \/ Damage \/ \E c \in Client : WriteOperation(c)
<1>1. ASSUME NEW c \in Client, Call(c) PROVE op' = op
  BY <1>1 DEF Call, Enqueue, Claim, Transition, Repair, Archive, files
<1>2. ASSUME NEW c \in Client, Step(c) PROVE op' = op \/ WriteOperation(c)
  BY <1>2 DEF Step, EnqueueInLane, WriteLane, ClaimPasses, ClaimTakes, ClaimGivesUp, ClaimFindsNone,
     ArchiveChecks, ArchiveMarks, ArchiveReads, ArchiveWrites, ArchiveDone, files
<1>3. ASSUME NEW c \in Client, ArchiveFails(c) \/ Crash(c) PROVE op' = op
  BY <1>3 DEF ArchiveFails, Crash, files
<1>4. CASE UNCHANGED vars
  BY <1>4, Zenon DEF vars
<1> QED
  BY <1>1, <1>2, <1>3, <1>4, Zenon DEF Next

\* An operation that has ended keeps its result.
THEOREM ResultKept == Spec => ResultIsFinal
<1> DEFINE Final == \A o \in Op : op[o] \in Terminal => op'[o] \in {op[o], "unreadable"}
<1>1. ASSUME IInv, [Next]_vars PROVE Final
  <2>1. CASE op' = op
    BY <2>1
  <2>2. CASE Damage
    BY <1>1, <2>2 DEF Damage, IInv, TypeOK
  <2>3. ASSUME NEW c \in Client, WriteOperation(c) PROVE Final
    <3>1. /\ pc[c] = "write operation" /\ work[c] \in Op /\ op \in [Op -> OpStatus \cup {Absent}]
          /\ Adds(c) \/ Takes(c) \/ Moves(c)
      BY <1>1, <2>3 DEF IInv, TypeOK, Knows, Writes, Writing, WriteOperation
    <3>2. op[work[c]] \notin Terminal
      BY <3>1 DEF Adds, Takes, Moves, Terminal, OpStatus
    <3> QED
      BY <2>3, <3>1, <3>2 DEF WriteOperation
  <2> QED
    BY <1>1, <2>1, <2>2, <2>3, OperationsWritten
<1> QED
  BY <1>1, Invariance, PTL DEF Spec, ResultIsFinal

\* Lane files are written by three actions.
LEMMA LanesWritten ==
  ASSUME [Next]_vars
  PROVE  lane' = lane \/ \E c \in Client :
           WriteLane(c) \/ ClaimPasses(c) \/ ClaimFindsNone(c) \/ ArchiveWrites(c)
<1>1. ASSUME NEW c \in Client, Call(c) PROVE lane' = lane
  BY <1>1 DEF Call, Enqueue, Claim, Transition, Repair, Archive, files
<1>2. ASSUME NEW c \in Client, Step(c)
      PROVE  lane' = lane \/ WriteLane(c) \/ ClaimPasses(c) \/ ClaimFindsNone(c) \/ ArchiveWrites(c)
  BY <1>2 DEF Step, EnqueueInLane, WriteOperation, ClaimTakes, ClaimGivesUp,
     ArchiveChecks, ArchiveMarks, ArchiveReads, ArchiveDone, files
<1>3. ASSUME NEW c \in Client, ArchiveFails(c) \/ Crash(c) PROVE lane' = lane
  BY <1>3 DEF ArchiveFails, Crash, files
<1>5. CASE Damage
  BY <1>5, Zenon DEF Damage
<1>4. CASE UNCHANGED vars
  BY <1>4, Zenon DEF vars
<1> QED
  BY <1>1, <1>2, <1>3, <1>4, <1>5, Zenon DEF Next

\* What one lane can see of a step.
Seen(l) ==
  \/ Queue(l)' = Queue(l) /\ Active(l)' = Active(l)
  \/ \E o \in Op : /\ Active(l) # o /\ ~ In(o, Queue(l))
                    /\ Queue(l)' = Append(Queue(l), o) /\ Active(l)' = Active(l)
  \/ /\ Active(l) = None /\ Queue(l) # <<>> /\ Queue(l)' = Tail(Queue(l))
     /\ Active(l)' \in {None, Head(Queue(l))} /\ op[Head(Queue(l))] # "queued"
  \/ Active(l) # None /\ Active(l)' = None /\ Queue(l)' = Queue(l)

\* A step changes one lane at most, and in one of these ways.
LEMMA OneLaneMoves ==
  ASSUME IInv, [Next]_vars
  PROVE  \/ \A l \in Lane : Queue(l)' = Queue(l) /\ Active(l)' = Active(l)
         \/ \E a \in Lane : /\ Seen(a)
                            /\ \A l \in Lane \ {a} : Queue(l)' = Queue(l) /\ Active(l)' = Active(l)
<1> DEFINE Same == \A l \in Lane : Queue(l)' = Queue(l) /\ Active(l)' = Active(l)
           One == \E a \in Lane : /\ Seen(a)
                    /\ \A l \in Lane \ {a} : Queue(l)' = Queue(l) /\ Active(l)' = Active(l)
<1>0. TypeOK /\ QueuesAreKnown /\ ArchivingIsQuiet /\ \A c \in Client : Knows(c)
  BY DEF IInv
<1>1. CASE lane' = lane
  BY <1>1 DEF Queue, Active
<1>2. ASSUME NEW c \in Client, WriteLane(c) PROVE One
  <2>1. /\ pc[c] = "write lane" /\ lane' = [lane EXCEPT ![at[c]] = draft[c]]
        /\ Holds(c) /\ Writes(c)
    BY <1>0, <1>2 DEF Knows, WriteLane
  <2>2. /\ work[c] \in Op /\ at[c] \in Lane /\ draft[c] # Absent
        /\ Adds(c) \/ Takes(c) \/ Moves(c)
    BY <2>1 DEF Writes, Holds, InLane, Writing
  <2>3. PICK a \in Lane, r \in LaneRecord : a = at[c] /\ r = draft[c]
    BY <1>0, <2>2 DEF TypeOK
  <2>4. lane' = [lane EXCEPT ![a] = r]
    BY <2>1, <2>3
  <2>5. /\ Queue(a)' = r.queue /\ Active(a)' = r.active
        /\ \A k \in Lane \ {a} : Queue(k)' = Queue(k) /\ Active(k)' = Active(k)
    BY <1>0, <2>4, LaneWritten
  <2>6. Seen(a)
    <3>1. CASE Adds(c)
      <4>1. /\ Active(a) # work[c] /\ ~ In(work[c], Queue(a))
            /\ r.queue = Append(Queue(a), work[c]) /\ r.active = Active(a)
        BY <2>3, <3>1 DEF Adds
      <4> QED
        BY <2>2, <2>5, <4>1 DEF Seen
    <3>2. CASE Takes(c)
      <4>1. /\ Active(a) = None /\ Queue(a) # <<>> /\ r.queue = Tail(Queue(a))
            /\ r.active = Head(Queue(a)) /\ op[Head(Queue(a))] \in {"starting", "unreadable"}
        BY <2>1, <2>3, <3>2 DEF Takes
      <4> QED
        BY <2>5, <4>1 DEF Seen
    <3>3. CASE Moves(c)
      <4>1. Active(a) = work[c] /\ r.queue = Queue(a) /\ r.active \in {work[c], None}
        BY <2>3, <3>3 DEF Moves
      <4> QED
        BY <2>2, <2>5, <4>1 DEF Seen
    <3> QED
      BY <2>2, <3>1, <3>2, <3>3
  <2> QED
    BY <2>5, <2>6
<1>3. ASSUME NEW c \in Client, ClaimPasses(c) \/ ClaimFindsNone(c) PROVE Same \/ One
  <2>1. Holds(c) /\ Claims(c) /\ draft[c] \in LaneRecord \cup {Absent} /\ Claiming(c)
    BY <1>0, <1>3 DEF Knows, TypeOK, ClaimPasses, ClaimFindsNone, Claiming
  <2>2. PICK a \in Lane : a = at[c] /\ draft[c] \in LaneRecord
                         /\ draft[c].active = None /\ Active(a) = None /\ draft[c].queue = Queue(a)
    BY <2>1 DEF Holds, Claims, Claiming, InLane
  <2>3. CASE ClaimPasses(c)
    <3> DEFINE o == Head(draft[c].queue)
               d == [draft[c] EXCEPT !.queue = Tail(@),
                       !.status = IF op[o] \in {Absent, "unreadable"} THEN "failed" ELSE @]
    <3>1. /\ d \in LaneRecord /\ d.active = None /\ d.queue = Tail(Queue(a)) /\ Queue(a) # <<>>
          /\ op[Head(Queue(a))] # "queued"
      BY <2>2, <2>3, Ends DEF ClaimPasses, LaneRecord
    <3>2. lane' = [lane EXCEPT ![a] = d]
      BY <2>2, <2>3 DEF ClaimPasses
    <3> HIDE DEF d
    <3>3. PICK r \in LaneRecord : r = d
      BY <3>1
    <3>4. /\ Queue(a)' = r.queue /\ Active(a)' = r.active
          /\ \A k \in Lane \ {a} : Queue(k)' = Queue(k) /\ Active(k)' = Active(k)
      BY <1>0, <3>2, <3>3, LaneWritten
    <3>5. Seen(a)
      BY <2>2, <3>1, <3>3, <3>4 DEF Seen
    <3> QED
      BY <3>4, <3>5
  <2>4. CASE ClaimFindsNone(c)
    <3>1. PICK r \in LaneRecord :
            lane' = [lane EXCEPT ![a] = r] /\ r.active = None /\ r.queue = Queue(a)
      <4> DEFINE d == [draft[c] EXCEPT !.status = "idle"]
      <4>1. d \in LaneRecord /\ d.active = None /\ d.queue = Queue(a)
        BY <2>2 DEF LaneRecord
      <4>2. lane' = [lane EXCEPT ![a] = d]
        BY <2>2, <2>4 DEF ClaimFindsNone
      <4> HIDE DEF d
      <4> QED
        BY <4>1, <4>2
    <3>2. /\ Queue(a)' = r.queue /\ Active(a)' = r.active
          /\ \A k \in Lane \ {a} : Queue(k)' = Queue(k) /\ Active(k)' = Active(k)
      BY <1>0, <3>1, LaneWritten
    <3> QED
      BY <2>2, <3>1, <3>2
  <2> QED
    BY <1>3, <2>3, <2>4
<1>4. ASSUME NEW c \in Client, ArchiveWrites(c) PROVE Same
  <2>1. Archives(c) /\ pc[c] = "archive writes" /\ draft[c] \in LaneRecord \cup {Absent}
    BY <1>0, <1>4 DEF Knows, ArchiveWrites, TypeOK
  <2>2. PICK a \in Lane, r \in LaneRecord :
          /\ a = at[c] /\ r.active = None /\ r.queue = <<>> /\ lane' = [lane EXCEPT ![a] = r]
          /\ task = "archiving"
    BY <1>4, <2>1 DEF ArchiveWrites, Archives
  <2>3. /\ Queue(a)' = r.queue /\ Active(a)' = r.active
        /\ \A k \in Lane \ {a} : Queue(k)' = Queue(k) /\ Active(k)' = Active(k)
    BY <1>0, <2>2, LaneWritten
  <2>4. Quiet(a)
    BY <1>0, <2>2 DEF ArchivingIsQuiet
  <2> QED
    BY <2>2, <2>3, <2>4 DEF Quiet
<1> QED
  BY <1>1, <1>2, <1>3, <1>4, LanesWritten

\* An operation that waits is not passed over.
THEOREM WaitingKept == Spec => WaitingIsNotDropped
<1> DEFINE Kept == \A l \in Lane :
             Queue(l) # <<>> /\ Queue(l)' = Tail(Queue(l)) => op[Head(Queue(l))] # "queued"
<1>1. ASSUME IInv, [Next]_vars PROVE Kept
  <2> SUFFICES ASSUME NEW l \in Lane, Queue(l) # <<>>, Queue(l)' = Tail(Queue(l))
               PROVE  op[Head(Queue(l))] # "queued"
    OBVIOUS
  <2>1. Queue(l) \in Seq(Op)
    BY <1>1, ViewTypes DEF IInv
  <2>2. Queue(l)' # Queue(l) /\ \A o \in Op : Queue(l)' # Append(Queue(l), o)
    BY <2>1, Ends
  <2>3. Seen(l)
    BY <1>1, <2>2, OneLaneMoves
  <2> QED
    BY <2>2, <2>3 DEF Seen
<1> QED
  BY <1>1, Invariance, PTL DEF Spec, WaitingIsNotDropped

\* The lanes implement FIFO queues with one active operation each.
THEOREM Implements == Spec => ImplementsLaneQueues
<1> DEFINE Q == [l \in Lane |-> Queue(l)]
           A == [l \in Lane |-> Active(l)]
<1>1. Init => Fifo!Init
  BY DEF Init, Fifo!Init, Queue, Active
<1>2. ASSUME IInv, [Next]_vars PROVE [Fifo!Next]_<<Q, A>>
  <2>1. CASE \A l \in Lane : Queue(l)' = Queue(l) /\ Active(l)' = Active(l)
    BY <2>1
  <2>2. ASSUME NEW a \in Lane, Seen(a),
               \A l \in Lane \ {a} : Queue(l)' = Queue(l) /\ Active(l)' = Active(l)
        PROVE  [Fifo!Next]_<<Q, A>>
    <3>1. Q' = [Q EXCEPT ![a] = Queue(a)'] /\ A' = [A EXCEPT ![a] = Active(a)']
      BY <2>2
    <3>2. Q[a] = Queue(a) /\ A[a] = Active(a)
      OBVIOUS
    <3>3. CASE Queue(a)' = Queue(a) /\ Active(a)' = Active(a)
      BY <2>2, <3>3
    <3>4. ASSUME NEW o \in Op, Active(a) # o, ~ In(o, Queue(a)),
                 Queue(a)' = Append(Queue(a), o), Active(a)' = Active(a)
          PROVE  Fifo!Enqueue(a, o)
      <4>1. A' = A /\ Q' = [Q EXCEPT ![a] = Append(Q[a], o)]
        BY <2>2, <3>1, <3>2, <3>4
      <4>2. \A i \in DOMAIN Q[a] : Q[a][i] # o
        BY <3>2, <3>4 DEF In
      <4> QED
        BY <3>2, <3>4, <4>1, <4>2 DEF Fifo!Enqueue
    <3>5. CASE /\ Active(a) = None /\ Queue(a) # <<>> /\ Queue(a)' = Tail(Queue(a))
               /\ Active(a)' \in {None, Head(Queue(a))}
      <4>1. Q' = [Q EXCEPT ![a] = Tail(Q[a])]
        BY <3>1, <3>2, <3>5
      <4>2. CASE Active(a)' = None
        <5>1. A' = A
          BY <2>2, <3>5, <4>2
        <5> QED
          BY <3>2, <3>5, <4>1, <5>1 DEF Fifo!Discard, Fifo!Next
      <4>3. CASE Active(a)' = Head(Queue(a))
        BY <3>1, <3>2, <3>5, <4>1, <4>3 DEF Fifo!Claim, Fifo!Next
      <4> QED
        BY <3>5, <4>2, <4>3
    <3>6. CASE Active(a) # None /\ Active(a)' = None /\ Queue(a)' = Queue(a)
      <4>1. Q' = Q
        BY <2>2, <3>6
      <4> QED
        BY <3>1, <3>2, <3>6, <4>1 DEF Fifo!Release, Fifo!Next
    <3> QED
      BY <2>2, <3>3, <3>4, <3>5, <3>6 DEF Seen, Fifo!Next
  <2> QED
    BY <1>2, <2>1, <2>2, OneLaneMoves
<1> QED
  BY <1>1, <1>2, Invariance, PTL DEF Spec, ImplementsLaneQueues, Fifo!Spec

-----------------------------------------------------------------------------
(* What a repeated enqueue may rely on.                                    *)

\* A call has written the record of o and is about to write its lane.
Between(o) == \E c \in Client : pc[c] = "write lane" /\ work[c] = o

\* Until a call dies or a file is damaged, an operation that waits is in its
\* queue, or its enqueue is still on the way there.
NothingLost ==
  faults = 0 => \A o \in Op : op[o] = "queued" => In(o, Queue(LaneOf[o])) \/ Between(o)

\* An enqueue that finds its operation waiting finds it in the queue, as long
\* as no call has died and no file is damaged.
DuplicatesStandUntilAFault ==
  [][\A c \in Client :
       pc[c] = "enqueue" /\ pc'[c] = "idle" /\ faults = 0 /\ faults' = 0 /\ op[work[c]] = "queued"
       => In(work[c], Queue(at[c]))]_vars

\* Members of a queue after an end of it changed.
LEMMA MembersStay ==
  ASSUME NEW q \in Seq(Op), NEW o \in Op, In(o, q)
  PROVE  /\ \A x \in Op : In(o, Append(q, x))
         /\ q # <<>> /\ Head(q) # o => In(o, Tail(q))
<1>1. PICK i \in 1..Len(q) : q[i] = o
  BY DEF In
<1>2. ASSUME NEW x \in Op PROVE In(o, Append(q, x))
  <2>1. i \in DOMAIN Append(q, x) /\ Append(q, x)[i] = o
    BY <1>1
  <2> QED
    BY <2>1 DEF In
<1>3. ASSUME q # <<>>, Head(q) # o PROVE In(o, Tail(q))
  <2>1. i # 1
    BY <1>1, <1>3
  <2>2. i - 1 \in DOMAIN Tail(q) /\ Tail(q)[i - 1] = o
    BY <1>1, <1>3, <2>1
  <2> QED
    BY <2>2 DEF In
<1> QED
  BY <1>2, <1>3

\* The operation just appended is a member.
LEMMA AppendedIsIn ==
  ASSUME NEW q \in Seq(Op), NEW o \in Op
  PROVE  In(o, Append(q, o))
<1>1. Len(q) + 1 \in DOMAIN Append(q, o) /\ Append(q, o)[Len(q) + 1] = o
  OBVIOUS
<1> QED
  BY <1>1 DEF In

\* A call that dies or a file that is damaged counts.
LEMMA FaultsCount ==
  ASSUME IInv, [Next]_vars, faults' = 0
  PROVE  faults = 0 /\ ~ Damage /\ \A c \in Client : ~ Crash(c) /\ ~ ArchiveFails(c)
<1>1. faults \in Nat
  BY DEF IInv, TypeOK
<1>2. faults' # faults + 1
  BY <1>1
<1>3. ~ Damage
  BY <1>2 DEF Damage
<1>4. ASSUME NEW c \in Client PROVE ~ Crash(c) /\ ~ ArchiveFails(c)
  BY <1>2 DEF Crash, ArchiveFails
<1>5. ASSUME NEW c \in Client, Call(c) PROVE faults' = faults
  BY <1>5 DEF Call, Enqueue, Claim, Transition, Repair, Archive
<1>6. ASSUME NEW c \in Client, Step(c) PROVE faults' = faults
  BY <1>6 DEF Step, EnqueueInLane, WriteOperation, WriteLane, ClaimPasses, ClaimTakes,
     ClaimGivesUp, ClaimFindsNone, ArchiveChecks, ArchiveMarks, ArchiveReads, ArchiveWrites,
     ArchiveDone
<1>7. UNCHANGED vars => faults' = faults
  BY Zenon DEF vars
<1> QED
  BY <1>3, <1>4, <1>5, <1>6, <1>7, Zenon DEF Next

\* A call that is about to write its lane does so, or dies; others do not move it.
LEMMA BetweenStays ==
  ASSUME IInv, [Next]_vars, faults' = 0, NEW c \in Client, pc[c] = "write lane"
  PROVE  WriteLane(c) \/ (pc'[c] = "write lane" /\ work'[c] = work[c])
<1>1. /\ pc \in [Client -> Place] /\ work \in [Client -> Op \cup {None}]
  BY DEF IInv, TypeOK
<1>2. CASE UNCHANGED vars
  BY <1>2 DEF vars
<1>3. ASSUME NEW d \in Client, Call(d) \/ Step(d), d = c PROVE WriteLane(c)
  BY <1>3 DEF Call, Enqueue, Claim, Transition, Repair, Archive, Step, EnqueueInLane,
     WriteOperation, ClaimPasses, ClaimTakes, ClaimGivesUp, ClaimFindsNone, Claiming,
     ArchiveChecks, ArchiveMarks, ArchiveReads, ArchiveWrites, ArchiveDone
<1>4. ASSUME NEW d \in Client, Call(d), d # c PROVE pc'[c] = pc[c] /\ work'[c] = work[c]
  BY <1>1, <1>4 DEF Call, Enqueue, Claim, Transition, Repair, Archive, Prepare
<1>5. ASSUME NEW d \in Client, Step(d), d # c PROVE pc'[c] = pc[c] /\ work'[c] = work[c]
  BY <1>1, <1>5 DEF Step, EnqueueInLane, WriteOperation, WriteLane, ClaimPasses, ClaimTakes,
     ClaimGivesUp, ClaimFindsNone, ArchiveChecks, ArchiveMarks, ArchiveReads, ArchiveWrites,
     ArchiveDone, Prepare, Finish, locals
<1> QED
  BY <1>2, <1>3, <1>4, <1>5, FaultsCount DEF Next

\* A step that is not a fault loses no operation.
LEMMA NothingLostStep ==
  ASSUME IInv, NothingLost, [Next]_vars PROVE NothingLost'
<1> SUFFICES ASSUME faults' = 0, NEW o \in Op, op'[o] = "queued"
             PROVE  (In(o, Queue(LaneOf[o])) \/ Between(o))'
  BY DEF NothingLost
<1>0. /\ TypeOK /\ HolderAgrees /\ \A c \in Client : Holds(c) /\ Writes(c)
      /\ pc \in [Client -> Place] /\ op \in [Op -> OpStatus \cup {Absent}]
  BY DEF IInv, Knows, TypeOK
<1>1. faults = 0 /\ ~ Damage
  BY FaultsCount
<1>2. ASSUME NEW c \in Client, WriteOperation(c), op[o] # "queued" PROVE Between(o)'
  <2>1. /\ op' = [op EXCEPT ![work[c]] = status[c]] /\ pc' = [pc EXCEPT ![c] = "write lane"]
        /\ work' = work
    BY <1>2 DEF WriteOperation, locals
  <2>2. work[c] = o
    BY <1>0, <1>2, <2>1
  <2>3. pc'[c] = "write lane" /\ work'[c] = o
    BY <1>0, <2>1, <2>2
  <2> QED
    BY <2>3 DEF Between
<1>3. CASE op[o] = "queued" /\ In(o, Queue(LaneOf[o]))
  <2>1. PICK l \in Lane : l = LaneOf[o]
    OBVIOUS
  <2>2. PICK q \in Seq(Op) : q = Queue(l)
    BY <1>0, ViewTypes
  <2>3. PICK q1 : q1 = Queue(l)'
    OBVIOUS
  <2>4. \/ q1 = q
        \/ \E x \in Op : q1 = Append(q, x)
        \/ q # <<>> /\ q1 = Tail(q) /\ op[Head(q)] # "queued"
    BY <2>2, <2>3, OneLaneMoves DEF Seen
  <2>5. In(o, q1)
    BY <1>3, <2>1, <2>2, <2>4, MembersStay
  <2> QED
    BY <2>1, <2>3, <2>5 DEF In
<1>4. CASE op[o] = "queued" /\ Between(o)
  <2>1. PICK c \in Client : pc[c] = "write lane" /\ work[c] = o
    BY <1>4 DEF Between
  <2>2. CASE pc'[c] = "write lane" /\ work'[c] = work[c]
    BY <2>1, <2>2 DEF Between
  <2>3. CASE WriteLane(c)
    <3>1. /\ at[c] = LaneOf[o] /\ draft[c] # Absent
          /\ Adds(c) \/ Takes(c) \/ Moves(c)
      BY <1>0, <2>1 DEF Writes, Writing
    <3>2. ~ Takes(c) /\ ~ Moves(c)
      BY <1>0, <1>4, <2>1, <3>1 DEF Takes, Moves, HolderAgrees
    <3>3. PICK l \in Lane : l = at[c]
      BY <3>1, LaneAssumption
    <3>4. PICK r \in LaneRecord : r = draft[c]
      BY <1>0, <3>1 DEF TypeOK
    <3>5. r.queue = Append(Queue(l), o)
      BY <2>1, <3>1, <3>2, <3>3, <3>4 DEF Adds
    <3>6. lane' = [lane EXCEPT ![l] = r]
      BY <2>3, <3>3, <3>4 DEF WriteLane
    <3>7. Queue(l)' = r.queue
      BY <1>0, <3>6, LaneWritten
    <3>8. PICK q \in Seq(Op) : q = Queue(l)
      BY <1>0, ViewTypes
    <3>9. In(o, Append(q, o))
      BY AppendedIsIn
    <3> QED
      BY <3>1, <3>3, <3>5, <3>7, <3>8, <3>9 DEF In
  <2> QED
    BY <2>1, <2>2, <2>3, BetweenStays
<1>5. op[o] = "queued" => In(o, Queue(LaneOf[o])) \/ Between(o)
  BY <1>1 DEF NothingLost
<1>6. op[o] # "queued" => \E c \in Client : WriteOperation(c)
  BY <1>1, OperationsWritten
<1> QED
  BY <1>2, <1>3, <1>4, <1>5, <1>6

\* The exact boundary of the lost enqueue: while no call has died between its two
\* files and none is damaged, "queued" is never the answer to an enqueue whose
\* operation is not in the queue, whatever claims, transitions and archives run beside.
THEOREM DuplicatesStand == Spec => DuplicatesStandUntilAFault
<1> DEFINE Stand == \A c \in Client :
             pc[c] = "enqueue" /\ pc'[c] = "idle" /\ faults = 0 /\ faults' = 0
               /\ op[work[c]] = "queued"
             => In(work[c], Queue(at[c]))
<1>1. Init => NothingLost
  <2>1. Absent # "queued"
    BY LaneAssumption DEF OpStatus
  <2> QED
    BY <2>1 DEF Init, NothingLost
<1>2. IInv /\ NothingLost /\ [Next]_vars => NothingLost'
  BY NothingLostStep
<1>3. ASSUME IInv, NothingLost, [Next]_vars PROVE Stand
  <2> SUFFICES ASSUME NEW c \in Client, pc[c] = "enqueue", pc'[c] = "idle", faults = 0,
                      faults' = 0, op[work[c]] = "queued"
               PROVE  In(work[c], Queue(at[c]))
    OBVIOUS
  <2>0. /\ work[c] \in Op /\ at[c] = LaneOf[work[c]]
        /\ pc \in [Client -> Place] /\ \A d \in Client : Holds(d) /\ Writes(d)
    BY <1>3 DEF IInv, Knows, Holds, TypeOK
  <2>1. laneLock[at[c]] = None
    <3>1. EnqueueInLane(c)
      <4>1. ~ UNCHANGED vars
        BY DEF vars
      <4>2. ASSUME NEW d \in Client, Call(d) \/ Step(d), d # c PROVE FALSE
        BY <2>0, <4>2 DEF Call, Enqueue, Claim, Transition, Repair, Archive, Step, EnqueueInLane,
           WriteOperation, WriteLane, ClaimPasses, ClaimTakes, ClaimGivesUp, ClaimFindsNone,
           ArchiveChecks, ArchiveMarks, ArchiveReads, ArchiveWrites, ArchiveDone, Prepare, Finish
      <4>3. ~ Call(c)
        BY DEF Call, Enqueue, Claim, Transition, Repair, Archive
      <4>4. Step(c)
        BY <1>3, <4>1, <4>2, <4>3, FaultsCount, Zenon DEF Next
      <4> QED
        BY <4>4 DEF Step, WriteOperation, WriteLane, ClaimPasses, ClaimTakes, ClaimGivesUp,
           ClaimFindsNone, Claiming, ArchiveChecks, ArchiveMarks, ArchiveReads, ArchiveWrites,
           ArchiveDone
    <3> QED
      BY <3>1 DEF EnqueueInLane
  <2>2. ~ Between(work[c])
    <3> SUFFICES ASSUME NEW d \in Client, pc[d] = "write lane", work[d] = work[c] PROVE FALSE
      BY DEF Between
    <3>1. at[d] = at[c] /\ laneLock[at[d]] = d
      BY <2>0 DEF Writes, Writing, Holds, InLane
    <3> QED
      BY <2>1, <3>1
  <2> QED
    BY <1>3, <2>0, <2>2 DEF NothingLost
<1>4. Spec => []NothingLost
  BY <1>1, <1>2, Invariance, PTL DEF Spec
<1>5. IInv /\ NothingLost /\ [Next]_vars => [Stand]_vars
  BY <1>3
<1> QED
  BY <1>4, <1>5, Invariance, PTL DEF Spec, DuplicatesStandUntilAFault
=============================================================================
