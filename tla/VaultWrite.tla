----------------------------- MODULE VaultWrite -----------------------------
(***************************************************************************)
(* vault-write: one JSON payload becomes a multi-file transaction          *)
(* (vault-write.py, vault_write_transaction.py, the checks of              *)
(* vault_write_mutations.py and vault_write_pages.py).  A process takes    *)
(* the vault lock, rolls an outstanding journal forward, plans against the *)
(* files it finds, writes the journal and then the files one by one.  It   *)
(* may die between any two writes; files outside Managed are also written  *)
(* by programs that do not take the lock (reindex.py, an editor).          *)
(***************************************************************************)
EXTENDS VaultPayload, Naturals

CONSTANTS
  Writer,      \* vault-write processes
  Editable,    \* files that other programs write as well
  Source,      \* the source URL of a content, or None
  Requests,    \* the payloads writers may be given
  InitialFile, \* the vault found at the start
  None,
  MaxFaults    \* bound on crashes, failed writes and foreign edits together

Managed == Path \ Editable

ASSUME VaultAssumption ==
  /\ Editable \subseteq Path
  /\ Requests \subseteq Payload
  /\ \A r \in Requests : WellFormed(r)
  /\ None \notin Payload /\ None \notin Writer
  /\ InitialFile \in [Path -> Content \cup {Absent}]
  /\ DOMAIN Source = Content
  /\ MaxFaults \in Nat

VARIABLES
  file,      \* the files on disk
  journal,   \* the outstanding transaction, or None
  lock,      \* the holder of the vault lock, or None
  pc,        \* where each writer is in main()
  req,       \* the payload of each writer; None for --recover
  todo,      \* entries each writer has still to apply
  reply,     \* what each writer last reported
  faults     \* crashes, failed writes and foreign edits so far

vars == <<file, journal, lock, pc, req, todo, reply, faults>>

Init ==
  /\ file = InitialFile
  /\ journal = None /\ lock = None
  /\ pc = [w \in Writer |-> "idle"]
  /\ req = [w \in Writer |-> None]
  /\ todo = [w \in Writer |-> {}]
  /\ reply = [w \in Writer |-> "none"]
  /\ faults = 0

\* The process exits with a result; closing the lock file releases the lock.
Finish(w, result) ==
  /\ pc' = [pc EXCEPT ![w] = "idle"]
  /\ req' = [req EXCEPT ![w] = None]
  /\ todo' = [todo EXCEPT ![w] = {}]
  /\ reply' = [reply EXCEPT ![w] = result]
  /\ lock' = IF lock = w THEN None ELSE lock
  /\ UNCHANGED faults

\* A payload was read and parsed; None stands for --recover.
Start(w) ==
  /\ pc[w] = "idle"
  /\ pc' = [pc EXCEPT ![w] = "lock"]
  /\ \E r \in Requests \cup {None} : req' = [req EXCEPT ![w] = r]
  /\ reply' = [reply EXCEPT ![w] = "none"]
  /\ UNCHANGED <<file, journal, lock, todo, faults>>

Acquire(w) ==
  /\ pc[w] = "lock" /\ lock = None
  /\ lock' = w
  /\ pc' = [pc EXCEPT ![w] = "recover"]
  /\ todo' = [todo EXCEPT ![w] = IF journal = None THEN {} ELSE DOMAIN journal]
  /\ UNCHANGED <<file, journal, req, reply, faults>>

LockTimeout(w) ==
  /\ pc[w] = "lock" /\ lock # None
  /\ Finish(w, "io")
  /\ UNCHANGED <<file, journal>>

-----------------------------------------------------------------------------
(* Roll-forward recovery and commit apply a transaction's entries in order:*)
(* the writes, then the deletes.                                           *)

NextEntries(entries, r) ==
  LET writes == {p \in entries : r[p].new # Absent}
  IN IF writes # {} THEN writes ELSE entries

Put(p, c) == file' = [file EXCEPT ![p] = c]

Applied(w, p) ==
  /\ todo' = [todo EXCEPT ![w] = @ \ {p}]
  /\ UNCHANGED <<journal, lock, pc, req, reply, faults>>

\* Fault: a write is repeated only over the content it was planned against.
RecoverExpected(w) ==
  /\ pc[w] = "recover"
  /\ \E p \in NextEntries(todo[w], journal) :
       IF file[p] \in {journal[p].new, journal[p].old}
       THEN Put(p, journal[p].new) /\ Applied(w, p)
       ELSE Finish(w, "io") /\ UNCHANGED <<file, journal>>

\* A write is repeated whatever the file holds by now.  A file to delete must
\* be gone or still hold the content the journal names.
RecoverEntry(w) ==
  /\ pc[w] = "recover"
  /\ \E p \in NextEntries(todo[w], journal) :
       IF journal[p].new # Absent \/ file[p] \in {Absent, journal[p].old}
       THEN Put(p, journal[p].new) /\ Applied(w, p)
       ELSE Finish(w, "io") /\ UNCHANGED <<file, journal>>

\* Fault: the journal is dropped before every entry is applied.
RecoveredEarly(w) ==
  /\ pc[w] = "recover"
  /\ journal' = None
  /\ IF req[w] = None THEN Finish(w, "ok")
     ELSE /\ pc' = [pc EXCEPT ![w] = "plan"]
          /\ todo' = [todo EXCEPT ![w] = {}]
          /\ UNCHANGED <<lock, req, reply, faults>>
  /\ UNCHANGED file

Recovered(w) ==
  /\ pc[w] = "recover" /\ todo[w] = {}
  /\ journal' = None
  /\ IF req[w] = None THEN Finish(w, "ok")
     ELSE /\ pc' = [pc EXCEPT ![w] = "plan"]
          /\ UNCHANGED <<lock, req, todo, reply, faults>>
  /\ UNCHANGED file

\* validate_unique_source_urls: no page the payload writes has the source of
\* another one, nor of a page on disk that the payload leaves alone.
SourceClash(r) ==
  \E p \in DOMAIN r : \E q \in Path \ {p} :
    LET after == IF q \in DOMAIN r THEN r[q].new ELSE file[q]
    IN /\ r[p].new # Absent /\ after # Absent
       /\ Source[r[p].new] # None /\ Source[r[p].new] = Source[after]

\* Fault: planning does not compare sources.
PlanAnySource(w) ==
  /\ pc[w] = "plan"
  /\ LET r == Planned(file, req[w]) IN
       IF \A p \in DOMAIN r : Matches(file[p], r[p].old)
       THEN /\ pc' = [pc EXCEPT ![w] = "journal"]
            /\ req' = [req EXCEPT ![w] = r]
            /\ UNCHANGED <<lock, todo, reply, faults>>
       ELSE Finish(w, "conflict")
  /\ UNCHANGED <<file, journal>>

\* Every file is validated before any is written.  A payload that is refused
\* for its text or has nothing left to write, and a dry run, end here as well.
Plan(w) ==
  /\ pc[w] = "plan"
  /\ LET r == Planned(file, req[w])
         matching == \A p \in DOMAIN r : Matches(file[p], r[p].old)
         writable == matching /\ ~ SourceClash(r) /\ DOMAIN r # {}
     IN \/ /\ writable
           /\ pc' = [pc EXCEPT ![w] = "journal"]
           /\ req' = [req EXCEPT ![w] = r]
           /\ UNCHANGED <<lock, todo, reply, faults>>
        \/ writable /\ Finish(w, "dry-run")
        \/ ~ matching /\ Finish(w, "conflict")
        \/ Finish(w, "refused")
  /\ UNCHANGED <<file, journal>>

WriteJournal(w) ==
  /\ pc[w] = "journal"
  /\ journal' = req[w]
  /\ todo' = [todo EXCEPT ![w] = DOMAIN req[w]]
  /\ pc' = [pc EXCEPT ![w] = "apply"]
  /\ UNCHANGED <<file, lock, req, reply, faults>>

\* A delete whose file changed since it was planned raises a ConflictError.
ApplyEntry(w) ==
  /\ pc[w] = "apply"
  /\ \E p \in NextEntries(todo[w], req[w]) :
       IF req[w][p].new # Absent \/ file[p] = req[w][p].old
       THEN Put(p, req[w][p].new) /\ Applied(w, p)
       ELSE Finish(w, "conflict") /\ UNCHANGED <<file, journal>>

\* Fault: the journal is removed with entries still to apply.
CommitDoneEarly(w) ==
  /\ pc[w] = "apply"
  /\ journal' = None
  /\ Finish(w, "ok")
  /\ UNCHANGED file

CommitDone(w) ==
  /\ pc[w] = "apply" /\ todo[w] = {}
  /\ journal' = None
  /\ Finish(w, "ok")
  /\ UNCHANGED file

\* The process dies, or a write fails and it exits with an io error.
Crash(w) ==
  /\ pc[w] \notin {"idle", "lock"}
  /\ faults < MaxFaults
  /\ faults' = faults + 1
  /\ pc' = [pc EXCEPT ![w] = "idle"]
  /\ req' = [req EXCEPT ![w] = None]
  /\ todo' = [todo EXCEPT ![w] = {}]
  /\ reply' = [reply EXCEPT ![w] = "io"]
  /\ lock' = None
  /\ UNCHANGED <<file, journal>>

\* reindex.py rewrites an index, or somebody saves a page in an editor.
Edit ==
  /\ faults < MaxFaults
  /\ faults' = faults + 1
  /\ \E p \in Editable : \E c \in Content \cup {Absent} : Put(p, c)
  /\ UNCHANGED <<journal, lock, pc, req, todo, reply>>

\* What a writer does of its own accord once it has a payload.
Step(w) ==
  \/ Acquire(w) \/ LockTimeout(w) \/ RecoverEntry(w) \/ Recovered(w)
  \/ Plan(w) \/ WriteJournal(w) \/ ApplyEntry(w) \/ CommitDone(w)

Next ==
  \/ \E w \in Writer : Start(w) \/ Step(w) \/ Crash(w)
  \/ Edit

Spec == Init /\ [][Next]_vars

\* A process that runs is scheduled, and the vault keeps being written: the
\* skills and the hooks call vault-write again.
FairSpec == Spec /\ \A w \in Writer : WF_vars(Start(w)) /\ WF_vars(Step(w))

-----------------------------------------------------------------------------
(* Properties                                                              *)

TypeOK ==
  /\ file \in [Path -> Content \cup {Absent}]
  /\ journal \in Payload \cup {None}
  /\ lock \in Writer \cup {None}
  /\ pc \in [Writer -> {"idle", "lock", "recover", "plan", "journal", "apply"}]
  /\ req \in [Writer -> Payload \cup {None}]
  /\ todo \in [Writer -> SUBSET Path]
  /\ reply \in [Writer -> {"none", "ok", "dry-run", "conflict", "refused", "io"}]
  /\ faults \in Nat

\* What the managed files hold once the outstanding transaction is applied.
Committed ==
  [p \in Managed |-> IF journal # None /\ p \in DOMAIN journal THEN journal[p].new ELSE file[p]]

\* vault-write implements an atomic multi-file compare-and-swap over the files
\* it alone writes, whatever dies between two of its writes.
Atomic == INSTANCE AtomicVault WITH Path <- Managed, vault <- Committed
ImplementsAtomicVault == Atomic!Spec

\* An outstanding transaction is finished before another one begins: its
\* journal is never replaced, only rolled forward and removed.
JournalIsNeverReplaced == [][journal # None => journal' \in {journal, None}]_vars

\* A writer reports ok for a payload only when all of its managed files hold
\* what it asked for and no journal is left to redo.
OkMeansWritten ==
  [][\A w \in Writer : pc[w] = "apply" /\ pc'[w] = "idle" /\ reply'[w] = "ok" =>
       /\ journal' = None
       /\ \A p \in Managed \cap DOMAIN req[w] : file[p] = req[w][p].new]_vars

\* No committed vault has two pages for one source URL.
SourcesAreUnique ==
  \A p, q \in Managed :
    /\ p # q /\ Committed[p] # Absent /\ Committed[q] # Absent
    /\ Source[Committed[p]] # None
    => Source[Committed[p]] # Source[Committed[q]]

\* A payload refused as a conflict has written nothing: neither its journal
\* nor any of its files (vault-write.py:58 and its exit message).
ConflictWritesNothing ==
  [][\A w \in Writer : pc[w] = "apply" => reply'[w] # "conflict"]_vars

\* An outstanding transaction is eventually finished by some later writer.
OutstandingIsFinished == journal # None ~> journal = None
=============================================================================
