-------------------------- MODULE VaultWriteProofs --------------------------
(***************************************************************************)
(* Proofs about VaultWrite, for any writers, files, contents and payloads. *)
(* The journal is the commit point: from the moment it is written the      *)
(* managed files are read through it (Committed), and the writes that      *)
(* follow, a crash and the recovery change nothing of what is committed.   *)
(* That a source URL keeps one page needs no more than that it begins with *)
(* one: every plan is made under the lock from what is committed.  And a   *)
(* writer stops after its journal only at a page to delete that somebody   *)
(* changed without the lock (OnlyEditsStop).                               *)
(***************************************************************************)
EXTENDS VaultWrite, TLAPS

USE VaultAssumption, ContentAssumption

Holding == {"recover", "plan", "journal", "apply"}

\* What a writer inside main() knows: it alone holds the lock; it plans with
\* no transaction outstanding; the entries it has applied are on disk.
HolderOf(w) ==
  /\ pc[w] \in Holding => lock = w
  /\ pc[w] \in {"lock", "recover"} => req[w] \in Requests \cup {None}
  /\ pc[w] = "plan" => req[w] \in Requests
  /\ pc[w] \in {"plan", "journal"} => journal = None
  /\ pc[w] \in {"journal", "apply"} => req[w] # None
  /\ pc[w] = "apply" => journal = req[w]
  /\ pc[w] = "recover" /\ journal = None => todo[w] = {}

AppliedOf(w) ==
  pc[w] \in {"recover", "apply"} /\ journal # None
    => /\ todo[w] \subseteq DOMAIN journal
       /\ \A p \in (Managed \cap DOMAIN journal) \ todo[w] : file[p] = journal[p].new

\* A planned payload is one of the requests, less its preserved conflicts, and
\* the managed files still match it.
PlannedOf(w) ==
  pc[w] = "journal" => \E r \in Requests :
    /\ Managed \cap DOMAIN req[w] = {q \in Managed \cap DOMAIN r : ~ LeftOut(file[q], r[q])}
    /\ \A p \in Managed \cap DOMAIN req[w] : req[w][p] = r[p] /\ Matches(file[p], r[p].old)

IInv == TypeOK /\ \A w \in Writer : HolderOf(w) /\ AppliedOf(w) /\ PlannedOf(w)

-----------------------------------------------------------------------------
(* Lemmas about payloads.                                                  *)

\* Every entry of a payload is an entry on one of the paths.
LEMMA PayloadEntries ==
  ASSUME NEW r \in Payload
  PROVE  /\ DOMAIN r \subseteq Path
         /\ \A p \in DOMAIN r : r[p] \in Entry /\ r[p].new \in Content \cup {Absent}
BY DEF Payload, Entry

\* Planning leaves entries out and changes none.
LEMMA PlannedPayload ==
  ASSUME NEW f, NEW r \in Payload
  PROVE  /\ Planned(f, r) \in Payload
         /\ DOMAIN Planned(f, r) = {q \in DOMAIN r : ~ LeftOut(f[q], r[q])}
         /\ \A p \in DOMAIN Planned(f, r) : Planned(f, r)[p] = r[p]
<1> DEFINE D == {q \in DOMAIN r : ~ LeftOut(f[q], r[q])}
<1>1. DOMAIN r \subseteq Path /\ \A p \in DOMAIN r : r[p] \in Entry
  BY PayloadEntries
<1>2. Planned(f, r) = [p \in D |-> r[p]]
  BY DEF Planned
<1>3. [p \in D |-> r[p]] \in [D -> Entry] /\ D \in SUBSET Path
  BY <1>1
<1> QED
  BY <1>2, <1>3 DEF Payload

-----------------------------------------------------------------------------
(* Type correctness, step by step.                                         *)

\* The initial state is well typed.
LEMMA InitTypes == Init => TypeOK
BY DEF Init, TypeOK

\* Every step of a writer, a death and a foreign edit keep the types.
LEMMA NextTypes ==
  ASSUME IInv, [Next]_vars PROVE TypeOK'
<1> USE DEF TypeOK
<1>0. TypeOK /\ \A w \in Writer : HolderOf(w) /\ AppliedOf(w)
  BY DEF IInv
<1>1. ASSUME NEW w \in Writer, Start(w) PROVE TypeOK'
  BY <1>0, <1>1 DEF Start
<1>2. ASSUME NEW w \in Writer, Acquire(w) PROVE TypeOK'
  BY <1>0, <1>2, PayloadEntries DEF Acquire
<1>3. ASSUME NEW w \in Writer, LockTimeout(w) PROVE TypeOK'
  BY <1>0, <1>3 DEF LockTimeout, Finish
<1>4. ASSUME NEW w \in Writer, RecoverEntry(w) PROVE TypeOK'
  <2>1. PICK p \in NextEntries(todo[w], journal) :
          IF journal[p].new # Absent \/ file[p] \in {Absent, journal[p].old}
          THEN Put(p, journal[p].new) /\ Applied(w, p)
          ELSE Finish(w, "io") /\ UNCHANGED <<file, journal>>
    BY <1>4 DEF RecoverEntry
  <2>2. journal \in Payload /\ p \in DOMAIN journal
    BY <1>0, <1>4, <2>1 DEF RecoverEntry, HolderOf, AppliedOf, NextEntries
  <2>3. journal[p].new \in Content \cup {Absent}
    BY <2>2, PayloadEntries
  <2> QED
    BY <1>0, <2>1, <2>3 DEF Put, Applied, Finish
<1>5. ASSUME NEW w \in Writer, Recovered(w) PROVE TypeOK'
  BY <1>0, <1>5 DEF Recovered, Finish
<1>6. ASSUME NEW w \in Writer, Plan(w) PROVE TypeOK'
  <2>1. Planned(file, req[w]) \in Payload
    BY <1>0, <1>6, PlannedPayload DEF Plan, HolderOf
  <2> QED
    BY <1>0, <1>6, <2>1 DEF Plan, Finish
<1>7. ASSUME NEW w \in Writer, WriteJournal(w) PROVE TypeOK'
  <2>1. req[w] \in Payload
    BY <1>0, <1>7 DEF WriteJournal, HolderOf
  <2>2. DOMAIN req[w] \subseteq Path
    BY <2>1, PayloadEntries
  <2> QED
    BY <1>0, <1>7, <2>1, <2>2 DEF WriteJournal
<1>8. ASSUME NEW w \in Writer, ApplyEntry(w) PROVE TypeOK'
  <2>1. PICK p \in NextEntries(todo[w], req[w]) :
          IF req[w][p].new # Absent \/ file[p] = req[w][p].old
          THEN Put(p, req[w][p].new) /\ Applied(w, p)
          ELSE Finish(w, "conflict") /\ UNCHANGED <<file, journal>>
    BY <1>8 DEF ApplyEntry
  <2>2. req[w] \in Payload /\ p \in DOMAIN req[w]
    BY <1>0, <1>8, <2>1 DEF ApplyEntry, HolderOf, AppliedOf, NextEntries
  <2>3. req[w][p].new \in Content \cup {Absent}
    BY <2>2, PayloadEntries
  <2> QED
    BY <1>0, <2>1, <2>3 DEF Put, Applied, Finish
<1>9. ASSUME NEW w \in Writer, CommitDone(w) PROVE TypeOK'
  BY <1>0, <1>9 DEF CommitDone, Finish
<1>10. ASSUME NEW w \in Writer, Crash(w) PROVE TypeOK'
  BY <1>0, <1>10 DEF Crash
<1>11. ASSUME Edit PROVE TypeOK'
  BY <1>0, <1>11 DEF Edit, Put
<1>12. CASE UNCHANGED vars
  BY <1>0, <1>12 DEF vars
<1> QED
  BY <1>1, <1>2, <1>3, <1>4, <1>5, <1>6, <1>7, <1>8, <1>9, <1>10, <1>11, <1>12 DEF Next, Step

-----------------------------------------------------------------------------
(* The invariant, one action at a time.                                    *)

\* A writer that does not move keeps its part while nobody else can change the
\* journal or the managed files it relies on.
LEMMA StillKeeps ==
  ASSUME IInv, NEW v \in Writer,
         pc'[v] = pc[v], req'[v] = req[v], todo'[v] = todo[v],
         pc[v] \in Holding => lock' = v /\ journal' = journal /\ \A p \in Managed : file'[p] = file[p]
  PROVE  (HolderOf(v) /\ AppliedOf(v) /\ PlannedOf(v))'
<1>0. HolderOf(v) /\ AppliedOf(v) /\ PlannedOf(v)
  BY DEF IInv
<1>1. HolderOf(v)'
  BY <1>0 DEF HolderOf, Holding
<1>2. AppliedOf(v)'
  BY <1>0 DEF AppliedOf, Holding
<1>3. ASSUME pc[v] = "journal" PROVE PlannedOf(v)'
  <2>1. PICK r \in Requests :
          /\ Managed \cap DOMAIN req[v] = {q \in Managed \cap DOMAIN r : ~ LeftOut(file[q], r[q])}
          /\ \A p \in Managed \cap DOMAIN req[v] : req[v][p] = r[p] /\ Matches(file[p], r[p].old)
    BY <1>0, <1>3 DEF PlannedOf
  <2>2. \A p \in Managed : file'[p] = file[p]
    BY <1>3 DEF Holding
  <2>3. {q \in Managed \cap DOMAIN r : ~ LeftOut(file'[q], r[q])}
          = {q \in Managed \cap DOMAIN r : ~ LeftOut(file[q], r[q])}
    BY <2>2
  <2>4. \A p \in Managed \cap DOMAIN req'[v] : req'[v][p] = r[p] /\ Matches(file'[p], r[p].old)
    BY <2>1, <2>2
  <2> QED
    BY <2>1, <2>3, <2>4 DEF PlannedOf
<1>4. ASSUME pc[v] # "journal" PROVE PlannedOf(v)'
  BY <1>4 DEF PlannedOf
<1> QED
  BY <1>1, <1>2, <1>3, <1>4

\* A writer that exits knows nothing more, and the lock goes to nobody else.
LEMMA FinishKeeps ==
  ASSUME IInv, NEW w \in Writer, NEW result, Finish(w, result), UNCHANGED file,
         journal' = journal \/ pc[w] \in Holding, NEW v \in Writer
  PROVE  (HolderOf(v) /\ AppliedOf(v) /\ PlannedOf(v))'
<1>0. TypeOK /\ HolderOf(v) /\ HolderOf(w)
  BY DEF IInv
<1>1. CASE v = w
  BY <1>0, <1>1 DEF Finish, TypeOK, HolderOf, AppliedOf, PlannedOf, Holding
<1>2. CASE v # w
  <2>1. pc'[v] = pc[v] /\ req'[v] = req[v] /\ todo'[v] = todo[v]
    BY <1>0, <1>2 DEF Finish, TypeOK
  <2>2. pc[v] \in Holding => lock' = v /\ journal' = journal
    BY <1>0, <1>2 DEF Finish, HolderOf
  <2> QED
    BY <2>1, <2>2, StillKeeps
<1> QED
  BY <1>1, <1>2

\* Applying one entry, in a commit or in a recovery.
LEMMA ApplyKeeps ==
  ASSUME IInv, NEW w \in Writer, pc[w] \in {"recover", "apply"}, journal # None,
         NEW p \in DOMAIN journal, Put(p, journal[p].new), Applied(w, p), NEW v \in Writer
  PROVE  (HolderOf(v) /\ AppliedOf(v) /\ PlannedOf(v))'
<1>0. TypeOK /\ HolderOf(v) /\ HolderOf(w) /\ AppliedOf(w)
  BY DEF IInv
<1>1. CASE v = w
  <2>1. /\ pc' = pc /\ req' = req /\ lock' = lock /\ journal' = journal
        /\ todo' = [todo EXCEPT ![w] = todo[w] \ {p}] /\ file' = [file EXCEPT ![p] = journal[p].new]
    BY DEF Applied, Put
  <2>2. HolderOf(w)'
    BY <1>0, <2>1 DEF HolderOf, TypeOK
  <2>3. todo'[w] = todo[w] \ {p}
    BY <1>0, <2>1 DEF TypeOK
  <2>4. ASSUME NEW q \in (Managed \cap DOMAIN journal) \ todo'[w] PROVE file'[q] = journal[q].new
    BY <1>0, <2>1, <2>3, <2>4 DEF AppliedOf, TypeOK, Managed
  <2>5. AppliedOf(w)'
    BY <1>0, <2>1, <2>3, <2>4 DEF AppliedOf
  <2>6. PlannedOf(w)'
    BY <2>1 DEF PlannedOf
  <2> QED
    BY <1>1, <2>2, <2>5, <2>6
<1>2. CASE v # w
  <2>1. pc'[v] = pc[v] /\ req'[v] = req[v] /\ todo'[v] = todo[v]
    BY <1>0, <1>2 DEF Applied, TypeOK
  <2>2. pc[v] \notin Holding
    BY <1>0, <1>2 DEF HolderOf, Holding
  <2> QED
    BY <2>1, <2>2, StillKeeps
<1> QED
  BY <1>1, <1>2

\* The step is a writer's own, taken under the lock, and not an exit: the other
\* writers are outside, and keep their part whatever it does.
LEMMA OthersKeep ==
  ASSUME IInv, NEW w \in Writer, lock = w \/ lock = None, NEW v \in Writer, v # w,
         pc'[v] = pc[v], req'[v] = req[v], todo'[v] = todo[v]
  PROVE  (HolderOf(v) /\ AppliedOf(v) /\ PlannedOf(v))'
<1>1. HolderOf(v) /\ lock # v
  BY DEF IInv
<1>2. pc[v] \notin Holding
  BY <1>1 DEF HolderOf
<1> QED
  BY <1>2, StillKeeps

\* Every step keeps what each writer's stage says of the lock, the journal and the plan.
LEMMA InvStep ==
  ASSUME IInv, [Next]_vars PROVE IInv'
<1> DEFINE Part(v) == HolderOf(v) /\ AppliedOf(v) /\ PlannedOf(v)
<1>0. TypeOK /\ TypeOK' /\ \A w \in Writer : Part(w)
  BY NextTypes DEF IInv
<1>1. ASSUME NEW w \in Writer, Start(w), NEW v \in Writer PROVE Part(v)'
  <2>1. CASE v = w
    BY <1>0, <1>1, <2>1 DEF Start, TypeOK, HolderOf, AppliedOf, PlannedOf, Holding
  <2>2. CASE v # w
    BY <1>0, <1>1, <2>2, StillKeeps DEF Start, TypeOK, HolderOf
  <2> QED
    BY <2>1, <2>2
<1>2. ASSUME NEW w \in Writer, Acquire(w), NEW v \in Writer PROVE Part(v)'
  <2>1. CASE v = w
    <3>1. /\ pc'[w] = "recover" /\ lock' = w /\ req' = req /\ file' = file /\ journal' = journal
          /\ todo'[w] = IF journal = None THEN {} ELSE DOMAIN journal
      BY <1>0, <1>2 DEF Acquire, TypeOK
    <3>2. req[w] \in Requests \cup {None}
      BY <1>0, <1>2 DEF Acquire, HolderOf
    <3> QED
      BY <2>1, <3>1, <3>2 DEF HolderOf, AppliedOf, PlannedOf, Holding
  <2>2. CASE v # w
    BY <1>0, <1>2, <2>2, OthersKeep DEF Acquire, TypeOK
  <2> QED
    BY <2>1, <2>2
<1>3. ASSUME NEW w \in Writer, LockTimeout(w), NEW v \in Writer PROVE Part(v)'
  BY <1>3, FinishKeeps DEF LockTimeout
<1>4. ASSUME NEW w \in Writer, RecoverEntry(w), NEW v \in Writer PROVE Part(v)'
  <2>1. PICK p \in NextEntries(todo[w], journal) :
          IF journal[p].new # Absent \/ file[p] \in {Absent, journal[p].old}
          THEN Put(p, journal[p].new) /\ Applied(w, p)
          ELSE Finish(w, "io") /\ UNCHANGED <<file, journal>>
    BY <1>4 DEF RecoverEntry
  <2>2. pc[w] = "recover" /\ journal # None /\ p \in DOMAIN journal
    BY <1>0, <1>4, <2>1 DEF RecoverEntry, HolderOf, AppliedOf, NextEntries
  <2>3. CASE Put(p, journal[p].new) /\ Applied(w, p)
    BY <2>2, <2>3, ApplyKeeps
  <2>4. CASE Finish(w, "io") /\ UNCHANGED <<file, journal>>
    BY <2>4, FinishKeeps
  <2> QED
    BY <2>1, <2>3, <2>4
<1>5. ASSUME NEW w \in Writer, Recovered(w), NEW v \in Writer PROVE Part(v)'
  <2>1. CASE req[w] = None
    BY <1>5, <2>1, FinishKeeps DEF Recovered, Holding
  <2>2. CASE req[w] # None /\ v = w
    <3>1. pc'[w] = "plan" /\ journal' = None /\ UNCHANGED <<lock, req, todo, file>>
      BY <1>0, <1>5, <2>2 DEF Recovered, TypeOK
    <3>2. lock = w /\ req[w] \in Requests
      BY <1>0, <1>5, <2>2 DEF Recovered, HolderOf, Holding
    <3> QED
      BY <2>2, <3>1, <3>2 DEF HolderOf, AppliedOf, PlannedOf, Holding
  <2>3. CASE req[w] # None /\ v # w
    BY <1>0, <1>5, <2>3, OthersKeep DEF Recovered, TypeOK, HolderOf, Holding
  <2> QED
    BY <2>1, <2>2, <2>3
<1>6. ASSUME NEW w \in Writer, Plan(w), NEW v \in Writer PROVE Part(v)'
  <2> DEFINE r == Planned(file, req[w])
  <2>0. pc[w] = "plan" /\ lock = w /\ journal = None /\ req[w] \in Requests
    BY <1>0, <1>6 DEF Plan, HolderOf, Holding
  <2>1. CASE \E result : Finish(w, result)
    BY <1>6, <2>1, FinishKeeps DEF Plan
  <2>2. CASE /\ \A p \in DOMAIN r : Matches(file[p], r[p].old)
             /\ pc' = [pc EXCEPT ![w] = "journal"] /\ req' = [req EXCEPT ![w] = r]
             /\ UNCHANGED <<file, journal, lock, todo>>
    <3>1. CASE v = w
      <4>0. req[w] \in Payload
        BY <2>0
      <4>1. /\ r \in Payload /\ DOMAIN r = {q \in DOMAIN req[w] : ~ LeftOut(file[q], req[w][q])}
            /\ \A p \in DOMAIN r : r[p] = req[w][p]
        <5>1. \A f : /\ Planned(f, req[w]) \in Payload
                     /\ DOMAIN Planned(f, req[w]) = {q \in DOMAIN req[w] : ~ LeftOut(f[q], req[w][q])}
                     /\ \A p \in DOMAIN Planned(f, req[w]) : Planned(f, req[w])[p] = req[w][p]
          BY <4>0, PlannedPayload
        <5> QED
          BY <5>1
      <4> HIDE DEF r
      <4>2. pc'[w] = "journal" /\ req'[w] = r
        BY <1>0, <2>2 DEF TypeOK
      <4>3. Managed \cap DOMAIN r = {q \in Managed \cap DOMAIN req[w] : ~ LeftOut(file[q], req[w][q])}
        BY <4>1
      <4>4. \A p \in Managed \cap DOMAIN r : r[p] = req[w][p] /\ Matches(file[p], req[w][p].old)
        BY <2>2, <4>1
      <4>5. PlannedOf(w)'
        BY <2>0, <2>2, <4>2, <4>3, <4>4 DEF PlannedOf
      <4>6. HolderOf(w)' /\ AppliedOf(w)'
        BY <2>0, <2>2, <4>1, <4>2 DEF HolderOf, AppliedOf, Holding
      <4> QED
        BY <3>1, <4>5, <4>6
    <3>2. CASE v # w
      BY <1>0, <2>0, <2>2, <3>2, OthersKeep DEF TypeOK
    <3> QED
      BY <3>1, <3>2
  <2> QED
    BY <1>6, <2>1, <2>2 DEF Plan
<1>7. ASSUME NEW w \in Writer, WriteJournal(w), NEW v \in Writer PROVE Part(v)'
  <2>0. pc[w] = "journal" /\ lock = w /\ req[w] # None
    BY <1>0, <1>7 DEF WriteJournal, HolderOf, Holding
  <2>1. /\ pc'[w] = "apply" /\ todo'[w] = DOMAIN req[w] /\ journal' = req[w]
        /\ UNCHANGED <<file, lock, req>>
    BY <1>0, <1>7 DEF WriteJournal, TypeOK
  <2>2. CASE v = w
    BY <2>0, <2>1, <2>2 DEF HolderOf, AppliedOf, PlannedOf, Holding
  <2>3. CASE v # w
    BY <1>0, <1>7, <2>0, <2>3, OthersKeep DEF WriteJournal, TypeOK
  <2> QED
    BY <2>2, <2>3
<1>8. ASSUME NEW w \in Writer, ApplyEntry(w), NEW v \in Writer PROVE Part(v)'
  <2>1. PICK p \in NextEntries(todo[w], req[w]) :
          IF req[w][p].new # Absent \/ file[p] = req[w][p].old
          THEN Put(p, req[w][p].new) /\ Applied(w, p)
          ELSE Finish(w, "conflict") /\ UNCHANGED <<file, journal>>
    BY <1>8 DEF ApplyEntry
  <2>2. pc[w] = "apply" /\ journal # None /\ journal = req[w] /\ p \in DOMAIN journal
    BY <1>0, <1>8, <2>1 DEF ApplyEntry, HolderOf, AppliedOf, NextEntries
  <2>3. CASE Put(p, req[w][p].new) /\ Applied(w, p)
    BY <2>2, <2>3, ApplyKeeps
  <2>4. CASE Finish(w, "conflict") /\ UNCHANGED <<file, journal>>
    BY <2>4, FinishKeeps
  <2> QED
    BY <2>1, <2>3, <2>4
<1>9. ASSUME NEW w \in Writer, CommitDone(w), NEW v \in Writer PROVE Part(v)'
  BY <1>9, FinishKeeps DEF CommitDone, Holding
<1>10. ASSUME NEW w \in Writer, Crash(w), NEW v \in Writer PROVE Part(v)'
  <2>1. CASE v = w
    BY <1>0, <1>10, <2>1 DEF Crash, TypeOK, HolderOf, AppliedOf, PlannedOf, Holding
  <2>2. CASE v # w
    BY <1>0, <1>10, <2>2, OthersKeep DEF Crash, TypeOK, HolderOf, Holding
  <2> QED
    BY <2>1, <2>2
<1>11. ASSUME Edit, NEW v \in Writer PROVE Part(v)'
  <2>1. \A p \in Managed : file'[p] = file[p]
    BY <1>0, <1>11 DEF Edit, Put, Managed, TypeOK
  <2> QED
    BY <1>0, <1>11, <2>1, StillKeeps DEF Edit, HolderOf
<1>12. ASSUME UNCHANGED vars, NEW v \in Writer PROVE Part(v)'
  BY <1>0, <1>12, StillKeeps DEF vars, HolderOf
<1>13. \A v \in Writer : Part(v)'
  BY <1>1, <1>2, <1>3, <1>4, <1>5, <1>6, <1>7, <1>8, <1>9, <1>10, <1>11, <1>12 DEF Next, Step
<1> QED
  BY <1>0, <1>13 DEF IInv

\* Before the first writer starts, the invariant holds trivially.
LEMMA InitInv == Init => IInv
BY InitTypes DEF Init, IInv, HolderOf, AppliedOf, PlannedOf, Holding

\* Every reachable state satisfies the inductive invariant.
THEOREM Invariance == Spec => []IInv
<1>1. IInv /\ [Next]_vars => IInv'
  BY InvStep
<1> QED
  BY InitInv, <1>1, PTL DEF Spec

\* Every variable keeps its type: in particular the journal is always a payload.
THEOREM TypeCorrect == Spec => []TypeOK
<1>1. IInv => TypeOK
  BY DEF IInv
<1> QED
  BY Invariance, <1>1, PTL

-----------------------------------------------------------------------------
(* The journal as the commit point.                                        *)

\* An outstanding transaction is rolled forward or removed, never replaced.
THEOREM JournalKept == Spec => JournalIsNeverReplaced
<1>1. IInv /\ [Next]_vars => [journal # None => journal' \in {journal, None}]_vars
  <2> SUFFICES ASSUME IInv, Next, journal # None PROVE journal' \in {journal, None}
    BY DEF vars
  <2>1. \A w \in Writer : HolderOf(w)
    BY DEF IInv
  <2> QED
    BY <2>1 DEF Next, Step, Start, Acquire, LockTimeout, RecoverEntry, Recovered, Plan,
       WriteJournal, ApplyEntry, CommitDone, Crash, Edit, Applied, Finish, HolderOf
<1> QED
  BY Invariance, <1>1, PTL DEF Spec, JournalIsNeverReplaced

\* A writer reports ok for a payload only once its managed files are written
\* and nothing is left to recover.
THEOREM OkWritten == Spec => OkMeansWritten
<1> DEFINE Acknowledged == \A w \in Writer :
      pc[w] = "apply" /\ pc'[w] = "idle" /\ reply'[w] = "ok" =>
        /\ journal' = None
        /\ \A p \in Managed \cap DOMAIN req[w] : file[p] = req[w][p].new
<1>1. IInv /\ [Next]_vars => [Acknowledged]_vars
  <2> SUFFICES ASSUME IInv, Next, NEW w \in Writer,
                      pc[w] = "apply", pc'[w] = "idle", reply'[w] = "ok"
               PROVE  /\ journal' = None
                      /\ \A p \in Managed \cap DOMAIN req[w] : file[p] = req[w][p].new
    BY DEF vars
  <2>0. TypeOK /\ HolderOf(w) /\ AppliedOf(w) /\ \A v \in Writer : HolderOf(v)
    BY DEF IInv
  <2>1. ASSUME NEW v \in Writer, Start(v) \/ Step(v) \/ Crash(v) PROVE v = w
    <3>1. pc \in [Writer -> {"idle", "lock", "recover", "plan", "journal", "apply"}]
      BY <2>0, Zenon DEF TypeOK
    <3>2. v # w => pc'[w] = pc[w]
      BY <2>1, <3>1 DEF Step, Start, Acquire, LockTimeout, RecoverEntry, Recovered, Plan,
         WriteJournal, ApplyEntry, CommitDone, Crash, Applied, Finish
    <3> QED
      BY <3>2
  <2>2. ~ Edit
    BY DEF Edit
  <2>3. CommitDone(w)
    <3>1. Start(w) \/ Step(w) \/ Crash(w)
      BY <2>1, <2>2 DEF Next
    <3>2. /\ pc \in [Writer -> {"idle", "lock", "recover", "plan", "journal", "apply"}]
          /\ reply \in [Writer -> {"none", "ok", "dry-run", "conflict", "refused", "io"}]
      BY <2>0, Zenon DEF TypeOK
    <3>3. ~ Start(w) /\ ~ Crash(w)
      BY <3>2 DEF Start, Crash
    <3> QED
      BY <3>1, <3>2, <3>3 DEF Step, Acquire, LockTimeout, RecoverEntry, Recovered, Plan,
         WriteJournal, ApplyEntry, Applied, Finish
  <2>4. journal' = None /\ journal = req[w] /\ journal # None /\ todo[w] = {}
    BY <2>0, <2>3 DEF CommitDone, HolderOf
  <2> QED
    BY <2>0, <2>4 DEF AppliedOf
<1> QED
  BY Invariance, <1>1, PTL DEF Spec, OkMeansWritten

-----------------------------------------------------------------------------
(* Refinement of AtomicVault.                                              *)

\* A step that neither commits nor drops the journal changes nothing committed,
\* as long as it changes no managed file the journal does not cover.
LEMMA CommittedSame ==
  ASSUME journal' = journal,
         \A p \in Managed : (journal = None \/ p \notin DOMAIN journal) => file'[p] = file[p]
  PROVE  Committed' = Committed
BY DEF Committed

\* Dropping a journal whose managed entries are all on disk.
LEMMA CommittedDropped ==
  ASSUME journal' = None, file' = file,
         journal # None => \A p \in Managed \cap DOMAIN journal : file[p] = journal[p].new
  PROVE  Committed' = Committed
BY DEF Committed

\* Writing the journal is the commit of the request it was planned from.
LEMMA JournalCommits ==
  ASSUME IInv, NEW w \in Writer, WriteJournal(w) PROVE Atomic!Next
<1>0. TypeOK /\ HolderOf(w) /\ PlannedOf(w)
  BY DEF IInv
<1>1. pc[w] = "journal" /\ journal = None /\ journal' = req[w] /\ req[w] # None /\ file' = file
  BY <1>0 DEF WriteJournal, HolderOf
<1>2. PICK r \in Requests :
        /\ Managed \cap DOMAIN req[w] = {q \in Managed \cap DOMAIN r : ~ LeftOut(file[q], r[q])}
        /\ \A p \in Managed \cap DOMAIN req[w] : req[w][p] = r[p] /\ Matches(file[p], r[p].old)
  BY <1>0, <1>1 DEF PlannedOf
<1>3. \A p \in Managed : Committed[p] = file[p]
  BY <1>1 DEF Committed
<1> DEFINE local == [p \in Managed \cap DOMAIN r |-> r[p]]
           here == Atomic!Planned(Committed, local)
<1>4. DOMAIN here = {q \in Managed \cap DOMAIN r : ~ LeftOut(Committed[q], r[q])}
  BY DEF Atomic!Planned, Atomic!LeftOut, LeftOut
<1>5. \A p \in DOMAIN here : here[p] = r[p]
  BY DEF Atomic!Planned
<1>6. DOMAIN here = Managed \cap DOMAIN req[w]
  BY <1>2, <1>3, <1>4
<1> HIDE DEF here
<1>7. \A p \in DOMAIN here : Atomic!Matches(Committed[p], here[p].old)
  BY <1>2, <1>3, <1>5, <1>6 DEF Atomic!Matches, Matches
<1>8. Committed' = [p \in Managed |-> IF p \in DOMAIN req[w] THEN req[w][p].new ELSE file[p]]
  BY <1>1 DEF Committed
<1>9. Committed' = [p \in Managed |-> IF p \in DOMAIN here THEN here[p].new ELSE Committed[p]]
  BY <1>2, <1>3, <1>5, <1>6, <1>8
<1>10. Atomic!Commit(r)
  BY <1>7, <1>9 DEF Atomic!Commit, here
<1> QED
  BY <1>10 DEF Atomic!Next

\* Every other step leaves the committed vault as it is.
LEMMA OnlyJournalsCommit ==
  ASSUME IInv, [Next]_vars
  PROVE  Committed' = Committed \/ \E w \in Writer : WriteJournal(w)
<1>0. TypeOK /\ \A w \in Writer : HolderOf(w) /\ AppliedOf(w)
  BY DEF IInv
<1>1. ASSUME NEW w \in Writer, Start(w) \/ Acquire(w) \/ LockTimeout(w) \/ Plan(w) \/ Crash(w)
      PROVE  Committed' = Committed
  BY <1>1, CommittedSame DEF Start, Acquire, LockTimeout, Plan, Crash, Finish
<1>2. ASSUME NEW w \in Writer, RecoverEntry(w) PROVE Committed' = Committed
  <2>1. PICK p \in NextEntries(todo[w], journal) :
          \/ Put(p, journal[p].new) /\ Applied(w, p)
          \/ UNCHANGED <<file, journal>>
    BY <1>2 DEF RecoverEntry
  <2>2. journal # None /\ p \in DOMAIN journal
    BY <1>0, <1>2, <2>1 DEF RecoverEntry, HolderOf, AppliedOf, NextEntries
  <2> QED
    BY <1>0, <2>1, <2>2, CommittedSame DEF Put, Applied, TypeOK, Managed
<1>3. ASSUME NEW w \in Writer, ApplyEntry(w) PROVE Committed' = Committed
  <2>1. PICK p \in NextEntries(todo[w], req[w]) :
          \/ Put(p, req[w][p].new) /\ Applied(w, p)
          \/ UNCHANGED <<file, journal>>
    BY <1>3 DEF ApplyEntry
  <2>2. journal # None /\ p \in DOMAIN journal
    BY <1>0, <1>3, <2>1 DEF ApplyEntry, HolderOf, AppliedOf, NextEntries
  <2> QED
    BY <1>0, <2>1, <2>2, CommittedSame DEF Put, Applied, TypeOK, Managed
<1>4. ASSUME NEW w \in Writer, Recovered(w) \/ CommitDone(w) PROVE Committed' = Committed
  <2>1. pc[w] \in {"recover", "apply"} /\ todo[w] = {} /\ journal' = None /\ file' = file
    BY <1>4 DEF Recovered, CommitDone
  <2> QED
    BY <1>0, <2>1, CommittedDropped DEF AppliedOf
<1>5. ASSUME Edit PROVE Committed' = Committed
  <2>1. journal' = journal /\ \A p \in Managed : file'[p] = file[p]
    BY <1>0, <1>5 DEF Edit, Put, Managed, TypeOK
  <2> QED
    BY <2>1, CommittedSame
<1>6. CASE UNCHANGED vars
  BY <1>6, CommittedSame DEF vars
<1> QED
  BY <1>1, <1>2, <1>3, <1>4, <1>5, <1>6 DEF Next, Step

\* Read through the journal, a step is a commit or changes nothing.
LEMMA StepImplements ==
  ASSUME IInv, [Next]_vars PROVE [Atomic!Next]_Committed
BY OnlyJournalsCommit, JournalCommits

\* Over the files that only vault-write writes, every behaviour, with crashes
\* and foreign edits of other files, is one of an atomic multi-file
\* compare-and-swap.
THEOREM Implements == Spec => ImplementsAtomicVault
<1>1. Init => Atomic!Init
  BY DEF Init, Atomic!Init, Committed, Managed
<1>2. IInv /\ [Next]_vars => [Atomic!Next]_Committed
  BY StepImplements
<1> QED
  BY <1>1, <1>2, Invariance, PTL DEF Spec, ImplementsAtomicVault, Atomic!Spec

-----------------------------------------------------------------------------
(* One page per source URL.                                                *)

\* No two managed files of f have one source.
NoSharedSource(f) ==
  \A p, q \in Managed :
    /\ p # q /\ f[p] # Absent /\ f[q] # Absent
    /\ Source[f[p]] # None
    => Source[f[p]] # Source[f[q]]

\* What a managed file holds once r is written.
After(r, p) == IF p \in DOMAIN r THEN r[p].new ELSE file[p]

\* The vault found at the start: validate_unique_source_urls keeps sources
\* apart, it does not separate pages that share one already.
UniqueAtStart == NoSharedSource(InitialFile)

\* A payload on its way to the journal was compared with every page, and the
\* managed ones are still what it was compared with.
ComparedOf(w) == pc[w] = "journal" => NoSharedSource([p \in Managed |-> After(req[w], p)])

SourceInv == SourcesAreUnique /\ \A w \in Writer : ComparedOf(w)

\* Over a vault without a shared source, a payload without a clash shares none.
LEMMA NoClashNoShare ==
  ASSUME NEW r \in Payload, ~ SourceClash(r), NoSharedSource([p \in Managed |-> file[p]])
  PROVE  NoSharedSource([p \in Managed |-> After(r, p)])
<1> SUFFICES ASSUME NEW p \in Managed, NEW q \in Managed, p # q,
                    After(r, p) # Absent, After(r, q) # Absent,
                    Source[After(r, p)] # None, Source[After(r, p)] = Source[After(r, q)]
             PROVE  FALSE
  BY DEF NoSharedSource
<1>1. p \in Path /\ q \in Path
  BY DEF Managed
<1>2. CASE p \in DOMAIN r
  BY <1>1, <1>2 DEF SourceClash, After
<1>3. CASE q \in DOMAIN r
  BY <1>1, <1>3 DEF SourceClash, After
<1>4. CASE p \notin DOMAIN r /\ q \notin DOMAIN r
  BY <1>4 DEF NoSharedSource, After
<1> QED
  BY <1>2, <1>3, <1>4

\* With no journal outstanding the committed vault is the one on disk.
LEMMA CommittedOnDisk == ASSUME journal = None PROVE Committed = [p \in Managed |-> file[p]]
BY DEF Committed

\* The invariant of the sources, restated over the committed vault.
LEMMA UniqueIsNoShare == SourcesAreUnique <=> NoSharedSource(Committed)
BY DEF SourcesAreUnique, NoSharedSource

\* Only a plan brings a writer before the journal, and it stays as it was
\* compared until the writer moves.
LEMMA ComparedStep ==
  ASSUME IInv, SourceInv, [Next]_vars, NEW v \in Writer PROVE ComparedOf(v)'
<1> SUFFICES ASSUME pc'[v] = "journal"
             PROVE  NoSharedSource([p \in Managed |-> After(req[v], p)])'
  BY DEF ComparedOf
<1>0. TypeOK /\ \A w \in Writer : HolderOf(w)
  BY DEF IInv
<1>1. \/ /\ pc[v] = "journal" /\ req'[v] = req[v]
         /\ \A p \in Managed : file'[p] = file[p]
      \/ Plan(v)
  <2>1. CASE UNCHANGED vars
    BY <2>1 DEF vars
  <2>2. CASE Edit
    BY <1>0, <2>2 DEF Edit, Put, Managed, TypeOK
  <2>3. ASSUME NEW w \in Writer, Start(w) \/ Step(w) \/ Crash(w), w = v PROVE Plan(v)
    <3>1. pc \in [Writer -> {"idle", "lock", "recover", "plan", "journal", "apply"}]
      BY <1>0, Zenon DEF TypeOK
    <3>2. pc[v] # "journal" \/ ~ WriteJournal(v)
      BY <3>1 DEF WriteJournal
    <3> QED
      BY <2>3, <3>1 DEF Step, Start, Acquire, LockTimeout, RecoverEntry, Recovered,
         WriteJournal, ApplyEntry, CommitDone, Crash, Applied, Finish
  <2>4. ASSUME NEW w \in Writer, Start(w) \/ Step(w) \/ Crash(w), w # v
        PROVE  /\ pc[v] = "journal" /\ req'[v] = req[v]
               /\ \A p \in Managed : file'[p] = file[p]
    <3>1. /\ pc \in [Writer -> {"idle", "lock", "recover", "plan", "journal", "apply"}]
          /\ req \in [Writer -> Payload \cup {None}]
      BY <1>0, Zenon DEF TypeOK
    <3>2. pc'[v] = pc[v] /\ req'[v] = req[v]
      BY <2>4, <3>1 DEF Step, Start, Acquire, LockTimeout, RecoverEntry, Recovered, Plan,
         WriteJournal, ApplyEntry, CommitDone, Crash, Applied, Finish
    <3>3. pc[v] \in Holding /\ pc[w] \notin Holding
      BY <1>0, <2>4, <3>2 DEF HolderOf, Holding
    <3>4. file' = file
      BY <2>4, <3>3 DEF Step, Start, Acquire, LockTimeout, RecoverEntry, Recovered, Plan,
         WriteJournal, ApplyEntry, CommitDone, Crash, Holding
    <3> QED
      BY <3>2, <3>3, <3>4
  <2> QED
    BY <2>1, <2>2, <2>3, <2>4 DEF Next
<1>2. CASE /\ pc[v] = "journal" /\ req'[v] = req[v]
           /\ \A p \in Managed : file'[p] = file[p]
  <2>1. NoSharedSource([p \in Managed |-> After(req[v], p)])
    BY <1>2 DEF SourceInv, ComparedOf
  <2>2. \A p \in Managed : After(req[v], p)' = After(req[v], p)
    BY <1>2 DEF After
  <2> QED
    BY <2>1, <2>2 DEF NoSharedSource
<1>3. CASE Plan(v)
  <2>1. PICK r : r = Planned(file, req[v])
    OBVIOUS
  <2>2. pc[v] = "plan" /\ journal = None /\ req[v] \in Payload
    BY <1>0, <1>3 DEF Plan, HolderOf
  <2>3. r \in Payload
    <3>1. \A f : Planned(f, req[v]) \in Payload
      BY <2>2, PlannedPayload
    <3> QED
      BY <2>1, <3>1
  <2>4. pc \in [Writer -> {"idle", "lock", "recover", "plan", "journal", "apply"}]
    BY <1>0, Zenon DEF TypeOK
  <2>5. req \in [Writer -> Payload \cup {None}]
    BY <1>0, Zenon DEF TypeOK
  <2>6. ~ SourceClash(r) /\ req'[v] = r /\ file' = file
    BY <1>3, <2>1, <2>2, <2>4, <2>5 DEF Plan, Finish
  <2>7. NoSharedSource([p \in Managed |-> file[p]])
    BY <2>2, CommittedOnDisk, UniqueIsNoShare DEF SourceInv
  <2>8. NoSharedSource([p \in Managed |-> After(r, p)])
    BY <2>3, <2>6, <2>7, NoClashNoShare
  <2>9. \A p \in Managed : After(req[v], p)' = After(r, p)
    BY <2>6 DEF After
  <2> QED
    BY <2>8, <2>9 DEF NoSharedSource
<1> QED
  BY <1>1, <1>2, <1>3

\* A commit installs a vault that was compared; nothing else changes it.
LEMMA SourceStep ==
  ASSUME IInv, SourceInv, [Next]_vars PROVE SourceInv'
<1>1. ASSUME Committed' = Committed PROVE SourcesAreUnique'
  BY <1>1 DEF SourceInv, SourcesAreUnique
<1>2. ASSUME NEW w \in Writer, WriteJournal(w) PROVE SourcesAreUnique'
  <2>1. pc[w] = "journal" /\ journal' = req[w] /\ req[w] # None /\ file' = file
    BY <1>2 DEF WriteJournal, IInv, HolderOf
  <2>2. NoSharedSource([p \in Managed |-> After(req[w], p)])
    BY <2>1 DEF SourceInv, ComparedOf
  <2>3. Committed' = [p \in Managed |-> After(req[w], p)]
    BY <2>1 DEF Committed, After
  <2> QED
    BY <2>2, <2>3 DEF SourcesAreUnique, NoSharedSource
<1>3. SourcesAreUnique'
  BY <1>1, <1>2, OnlyJournalsCommit
<1> QED
  BY <1>3, ComparedStep DEF SourceInv

\* In a vault whose managed files have no source in common at the start, no
\* payload, crash or recovery ever commits a second page for one source URL.
THEOREM UniqueSources ==
  ASSUME UniqueAtStart PROVE Spec => []SourcesAreUnique
<1>1. Init => SourceInv
  BY CommittedOnDisk, UniqueIsNoShare
     DEF Init, SourceInv, ComparedOf, UniqueAtStart, NoSharedSource
<1>2. IInv /\ SourceInv /\ [Next]_vars => SourceInv'
  BY SourceStep
<1>3. SourceInv => SourcesAreUnique
  BY DEF SourceInv
<1> QED
  BY <1>1, <1>2, <1>3, Invariance, PTL DEF Spec

-----------------------------------------------------------------------------
(* What stops a transaction that has begun.                                *)

\* A managed file that a journal deletes is gone or holds what the journal names.
DeletesFit ==
  journal # None => \A p \in Managed \cap DOMAIN journal :
    journal[p].new = Absent => file[p] \in {Absent, journal[p].old}

\* One that a commit has still to delete is as it was planned.
DeletesLeft(w) ==
  pc[w] = "apply" => \A p \in Managed \cap todo[w] :
    journal[p].new = Absent => file[p] = journal[p].old

DeletesInv == DeletesFit /\ \A w \in Writer : DeletesLeft(w)

\* A commit or a recovery that is refused has met a page to delete that was
\* changed without the lock.
OnlyForeignEditsStop ==
  [][\A w \in Writer :
       /\ pc[w] \in {"recover", "apply"} /\ pc'[w] = "idle" /\ reply'[w] \in {"conflict", "io"}
       /\ faults' = faults
       => \E p \in Editable \cap DOMAIN journal :
            journal[p].new = Absent /\ file[p] # journal[p].old]_vars

\* A delete was planned against the content it names.
LEMMA DeletesPlanned ==
  ASSUME IInv, NEW w \in Writer, pc[w] = "journal", NEW p \in Managed \cap DOMAIN req[w],
         req[w][p].new = Absent
  PROVE  file[p] = req[w][p].old
<1>1. PICK r \in Requests :
        /\ Managed \cap DOMAIN req[w] = {q \in Managed \cap DOMAIN r : ~ LeftOut(file[q], r[q])}
        /\ \A q \in Managed \cap DOMAIN req[w] : req[w][q] = r[q] /\ Matches(file[q], r[q].old)
  BY DEF IInv, PlannedOf
<1>2. p \in DOMAIN r /\ req[w][p] = r[p] /\ Matches(file[p], r[p].old)
  BY <1>1
<1>3. r[p].old \in Content
  BY <1>2 DEF WellFormed
<1> QED
  BY <1>2, <1>3 DEF Matches

\* Of two writers one at most is inside.
LEMMA OneInside ==
  ASSUME IInv, NEW v \in Writer, NEW w \in Writer, pc[v] \in Holding, pc[w] \in Holding
  PROVE  v = w
BY DEF IInv, HolderOf

\* Steps that leave journal and managed files alone leave the deletes to do.
LEMMA DeletesStay ==
  ASSUME IInv, DeletesInv, journal' = journal, \A p \in Managed : file'[p] = file[p],
         \A v \in Writer : pc'[v] = "apply" => pc[v] = "apply" /\ todo'[v] = todo[v]
  PROVE  DeletesInv'
<1>1. DeletesFit'
  BY DEF DeletesInv, DeletesFit
<1>2. \A v \in Writer : DeletesLeft(v)'
  BY DEF DeletesInv, DeletesLeft
<1> QED
  BY <1>1, <1>2 DEF DeletesInv

\* An entry that is applied is one delete less.
LEMMA DeletesApplied ==
  ASSUME IInv, DeletesInv, NEW w \in Writer, pc[w] \in {"recover", "apply"}, journal # None,
         NEW p \in DOMAIN journal, Put(p, journal[p].new), Applied(w, p)
  PROVE  DeletesInv'
<1>0. TypeOK /\ AppliedOf(w)
  BY DEF IInv
<1>1. journal' = journal /\ pc' = pc /\ file' = [file EXCEPT ![p] = journal[p].new]
  BY DEF Put, Applied
<1>2. p \in Path /\ DOMAIN file = Path /\ DOMAIN todo = Writer
  BY <1>0, PayloadEntries DEF TypeOK
<1>3. file'[p] = journal[p].new /\ \A q \in Path \ {p} : file'[q] = file[q]
  BY <1>1, <1>2
<1>4. DeletesFit'
  BY <1>1, <1>2, <1>3 DEF DeletesInv, DeletesFit, Managed
<1>5. ASSUME NEW v \in Writer PROVE DeletesLeft(v)'
  <2>1. CASE v = w
    <3>1. todo'[v] = todo[v] \ {p}
      BY <1>2, <2>1 DEF Applied
    <3> QED
      BY <1>1, <1>3, <3>1 DEF DeletesInv, DeletesLeft, Managed
  <2>2. CASE v # w
    <3>1. pc[v] # "apply"
      BY <2>2, OneInside DEF Holding
    <3> QED
      BY <1>1, <3>1 DEF DeletesLeft
  <2> QED
    BY <2>1, <2>2
<1> QED
  BY <1>4, <1>5 DEF DeletesInv

\* Every step keeps what is known of the deletes.
LEMMA DeletesStep ==
  ASSUME IInv, DeletesInv, [Next]_vars PROVE DeletesInv'
<1>0. TypeOK /\ \A w \in Writer : HolderOf(w) /\ AppliedOf(w)
  BY DEF IInv
<1>1. /\ pc \in [Writer -> {"idle", "lock", "recover", "plan", "journal", "apply"}]
      /\ todo \in [Writer -> SUBSET Path] /\ file \in [Path -> Content \cup {Absent}]
  BY <1>0, Zenon DEF TypeOK
<1>2. ASSUME NEW w \in Writer,
             Start(w) \/ Acquire(w) \/ LockTimeout(w) \/ Plan(w) \/ Crash(w)
      PROVE  DeletesInv'
  BY <1>1, <1>2, DeletesStay DEF Start, Acquire, LockTimeout, Plan, Crash, Finish
<1>3. ASSUME NEW w \in Writer, RecoverEntry(w) PROVE DeletesInv'
  <2>1. PICK p \in NextEntries(todo[w], journal) :
          \/ Put(p, journal[p].new) /\ Applied(w, p)
          \/ Finish(w, "io") /\ UNCHANGED <<file, journal>>
    BY <1>3 DEF RecoverEntry
  <2>2. pc[w] = "recover" /\ journal # None /\ p \in DOMAIN journal
    BY <1>0, <1>3, <2>1 DEF RecoverEntry, HolderOf, AppliedOf, NextEntries
  <2>3. CASE Put(p, journal[p].new) /\ Applied(w, p)
    BY <2>2, <2>3, DeletesApplied
  <2>4. CASE Finish(w, "io") /\ UNCHANGED <<file, journal>>
    BY <1>1, <2>4, DeletesStay DEF Finish
  <2> QED
    BY <2>1, <2>3, <2>4
<1>4. ASSUME NEW w \in Writer, ApplyEntry(w) PROVE DeletesInv'
  <2>1. PICK p \in NextEntries(todo[w], req[w]) :
          \/ Put(p, req[w][p].new) /\ Applied(w, p)
          \/ Finish(w, "conflict") /\ UNCHANGED <<file, journal>>
    BY <1>4 DEF ApplyEntry
  <2>2. /\ pc[w] = "apply" /\ journal # None /\ p \in DOMAIN journal /\ journal = req[w]
    BY <1>0, <1>4, <2>1 DEF ApplyEntry, HolderOf, AppliedOf, NextEntries
  <2>3. CASE Put(p, req[w][p].new) /\ Applied(w, p)
    BY <2>2, <2>3, DeletesApplied
  <2>4. CASE Finish(w, "conflict") /\ UNCHANGED <<file, journal>>
    BY <1>1, <2>4, DeletesStay DEF Finish
  <2> QED
    BY <2>1, <2>3, <2>4
<1>5. ASSUME NEW w \in Writer, Recovered(w) \/ CommitDone(w) PROVE DeletesInv'
  <2>1. pc[w] \in {"recover", "apply"} /\ journal' = None /\ pc'[w] # "apply"
    BY <1>1, <1>5 DEF Recovered, CommitDone, Finish
  <2>2. \A v \in Writer \ {w} : pc'[v] = pc[v]
    BY <1>1, <1>5 DEF Recovered, CommitDone, Finish
  <2>3. \A v \in Writer : pc'[v] # "apply"
    BY <2>1, <2>2, OneInside DEF Holding
  <2> QED
    BY <2>1, <2>3 DEF DeletesInv, DeletesFit, DeletesLeft
<1>6. ASSUME NEW w \in Writer, WriteJournal(w) PROVE DeletesInv'
  <2>1. /\ pc[w] = "journal" /\ journal' = req[w] /\ file' = file
        /\ pc' = [pc EXCEPT ![w] = "apply"] /\ todo' = [todo EXCEPT ![w] = DOMAIN req[w]]
    BY <1>6 DEF WriteJournal
  <2>2. \A p \in Managed \cap DOMAIN req[w] : req[w][p].new = Absent => file[p] = req[w][p].old
    BY <2>1, DeletesPlanned
  <2>3. DeletesFit'
    BY <2>1, <2>2 DEF DeletesFit
  <2>4. \A v \in Writer \ {w} : pc[v] # "apply"
    BY <2>1, OneInside DEF Holding
  <2>5. \A v \in Writer : DeletesLeft(v)'
    BY <1>1, <2>1, <2>2, <2>4 DEF DeletesLeft
  <2> QED
    BY <2>3, <2>5 DEF DeletesInv
<1>7. CASE Edit
  <2>1. \A p \in Managed : file'[p] = file[p]
    BY <1>1, <1>7 DEF Edit, Put, Managed
  <2> QED
    BY <1>7, <2>1, DeletesStay DEF Edit
<1>8. CASE UNCHANGED vars
  BY <1>8, DeletesStay DEF vars
<1> QED
  BY <1>2, <1>3, <1>4, <1>5, <1>6, <1>7, <1>8 DEF Next, Step

\* The exact boundary of the late conflict: once its journal is written, neither a
\* payload nor a recovery is ever refused for a file that only vault-write writes,
\* whoever died before; what stops them is a page to delete edited without the lock.
THEOREM OnlyEditsStop == Spec => OnlyForeignEditsStop
<1> DEFINE Stops == \A w \in Writer :
             /\ pc[w] \in {"recover", "apply"} /\ pc'[w] = "idle" /\ reply'[w] \in {"conflict", "io"}
             /\ faults' = faults
             => \E p \in Editable \cap DOMAIN journal :
                  journal[p].new = Absent /\ file[p] # journal[p].old
<1>1. Init => DeletesInv
  BY DEF Init, DeletesInv, DeletesFit, DeletesLeft
<1>2. IInv /\ DeletesInv /\ [Next]_vars => DeletesInv'
  BY DeletesStep
<1>3. ASSUME IInv, DeletesInv, [Next]_vars PROVE Stops
  <2> SUFFICES ASSUME NEW w \in Writer, pc[w] \in {"recover", "apply"}, pc'[w] = "idle",
                      reply'[w] \in {"conflict", "io"}, faults' = faults
               PROVE  \E p \in Editable \cap DOMAIN journal :
                        journal[p].new = Absent /\ file[p] # journal[p].old
    OBVIOUS
  <2>0. TypeOK /\ HolderOf(w) /\ AppliedOf(w)
    BY <1>3 DEF IInv
  <2>1. RecoverEntry(w) \/ ApplyEntry(w)
    <3>1. /\ pc \in [Writer -> {"idle", "lock", "recover", "plan", "journal", "apply"}]
          /\ reply \in [Writer -> {"none", "ok", "dry-run", "conflict", "refused", "io"}]
          /\ faults \in Nat
      BY <2>0, Zenon DEF TypeOK
    <3>2. ~ UNCHANGED vars /\ ~ Edit
      BY <3>1 DEF vars, Edit
    <3>3. ASSUME NEW v \in Writer, Start(v) \/ Step(v) \/ Crash(v) PROVE v = w
      BY <3>1, <3>3 DEF Step, Start, Acquire, LockTimeout, RecoverEntry, Recovered, Plan,
         WriteJournal, ApplyEntry, CommitDone, Crash, Applied, Finish
    <3>4. ~ Start(w) /\ ~ Crash(w) /\ ~ Acquire(w) /\ ~ LockTimeout(w) /\ ~ Plan(w)
      BY <3>1 DEF Start, Crash, Acquire, LockTimeout, Plan
    <3>5. ~ WriteJournal(w) /\ ~ Recovered(w) /\ ~ CommitDone(w)
      BY <3>1 DEF WriteJournal, Recovered, CommitDone, Finish
    <3> QED
      BY <1>3, <3>2, <3>3, <3>4, <3>5, Zenon DEF Next, Step
  <2>2. CASE RecoverEntry(w)
    <3>1. PICK p \in NextEntries(todo[w], journal) :
            IF journal[p].new # Absent \/ file[p] \in {Absent, journal[p].old}
            THEN Put(p, journal[p].new) /\ Applied(w, p)
            ELSE Finish(w, "io") /\ UNCHANGED <<file, journal>>
      BY <2>2 DEF RecoverEntry
    <3>2. ~ Applied(w, p) /\ pc[w] = "recover"
      BY <2>2 DEF Applied, RecoverEntry
    <3>3. journal[p].new = Absent /\ file[p] \notin {Absent, journal[p].old}
      BY <3>1, <3>2
    <3>4. journal # None /\ journal \in Payload /\ p \in DOMAIN journal
      BY <2>0, <3>1, <3>2 DEF HolderOf, AppliedOf, NextEntries, TypeOK
    <3>5. p \in Path /\ p \notin Managed
      BY <1>3, <3>3, <3>4, PayloadEntries DEF DeletesInv, DeletesFit
    <3> QED
      BY <3>3, <3>4, <3>5 DEF Managed
  <2>3. CASE ApplyEntry(w)
    <3>1. PICK p \in NextEntries(todo[w], req[w]) :
            IF req[w][p].new # Absent \/ file[p] = req[w][p].old
            THEN Put(p, req[w][p].new) /\ Applied(w, p)
            ELSE Finish(w, "conflict") /\ UNCHANGED <<file, journal>>
      BY <2>3 DEF ApplyEntry
    <3>2. ~ Applied(w, p) /\ pc[w] = "apply"
      BY <2>3 DEF Applied, ApplyEntry
    <3>3. /\ journal # None /\ journal = req[w] /\ journal \in Payload
          /\ p \in DOMAIN journal /\ p \in todo[w]
      BY <2>0, <3>1, <3>2 DEF HolderOf, AppliedOf, NextEntries, TypeOK
    <3>4. journal[p].new = Absent /\ file[p] # journal[p].old
      BY <3>1, <3>2, <3>3
    <3>5. p \in Path /\ p \notin Managed
      BY <1>3, <3>2, <3>3, <3>4, PayloadEntries DEF DeletesInv, DeletesLeft
    <3> QED
      BY <3>3, <3>4, <3>5 DEF Managed
  <2> QED
    BY <2>1, <2>2, <2>3
<1>4. Spec => []DeletesInv
  BY <1>1, <1>2, Invariance, PTL DEF Spec
<1>5. IInv /\ DeletesInv /\ [Next]_vars => [Stops]_vars
  BY <1>3
<1> QED
  BY <1>4, <1>5, Invariance, PTL DEF Spec, OnlyForeignEditsStop
=============================================================================
