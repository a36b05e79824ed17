------------------------ MODULE ReviewGateDriversProofs ------------------------
(***************************************************************************)
(* Theorems about ReviewGate for any number of drivers at once.            *)
(*                                                                         *)
(* What one driver relies on (DriverOK of ReviewGateProofs) another may    *)
(* destroy: it replaces the gate between two steps of the first.  What a   *)
(* driver may rely on here is only what no driver takes back (Grows):      *)
(* attempts stay authorized, the gate stays in existence and a lane that   *)
(* was opened stays opened.  That is enough for the gate to ask the ledger *)
(* only what the ledger's theorems allow, so those hold of the whole gate; *)
(* it is not enough for OneAnswer, which two drivers can break.            *)
(*                                                                         *)
(* The last part bounds the one disagreement the gate has about HEADs: an  *)
(* attempt is charged where it was derived, except when it takes its cycle *)
(* back.                                                                   *)
(***************************************************************************)
EXTENDS ReviewGateProofs

-----------------------------------------------------------------------------
(* The inductive invariant.                                                *)

\* The types of what the drivers share.
Shared ==
  /\ head \in HeadSha /\ gate \in GateFile
  /\ session \in [Axis -> Lane]
  /\ answers \subseteq Attempt \X Axis \X Verdict
  /\ outbox \in [Axis -> Post]
  /\ commits \in Nat /\ crashes \in Nat

\* Whoever opened a lane, and whoever it answered, it is for an authorized attempt.
LanesKnown ==
  /\ \A x \in answers : x[1] \in granted
  /\ \A a \in Axis :
       /\ session[a].op \in granted \cup {NoAttempt}
       /\ session[a].op = NoAttempt => session[a].child = "none"
       /\ outbox[a].op # NoAttempt => outbox[a].answer \in Verdict

\* Whoever wrote the gate, it is that of an authorized attempt and a cycle of the budget.
GateKnown ==
  /\ IF Exists(gate) THEN gate.id \in granted /\ gate.cycle \in 1..MaxCycles ELSE gate = NoGate
  /\ (gate.phase = "terminal") = (gate.result # "")

\* The points at which a driver works on the attempt it has seen.
Lately == {"recover", "reopen", "settle", "succeed"}

\* What a driver knows at the point it has reached, whatever the others do.
DriverKnows(r) ==
  /\ r.pc \notin {"launch", "fail"} => r.mine = {}
  /\ r.pc \in Lately => r.head \in HeadSha /\ r.seen.id \in granted /\ r.seen.cycle \in 1..MaxCycles
  /\ r.pc = "reserve" => r.q \in Request
  /\ r.pc \in {"enter", "initialize"} => r.q.attempt \in granted /\ r.cycle \in 1..MaxCycles
  /\ r.pc \in Opening \cup Taking => r.run.id \in granted /\ r.run.cycle \in 1..MaxCycles
  /\ r.pc \in Taking => Exists(gate)
  /\ r.pc = "launch" => \A a \in r.mine : session[a].op # NoAttempt

\* The inductive invariant.
DriversInv ==
  /\ IInv
  /\ Shared /\ LanesKnown /\ GateKnown
  /\ drv \in [Driver -> Holding]
  /\ \A d \in Driver : DriverKnows(drv[d])

\* What no step takes back.
Grows ==
  /\ granted \subseteq granted'
  /\ Exists(gate) => Exists(gate')
  /\ \A a \in Axis : session[a].op # NoAttempt => session'[a].op # NoAttempt

-----------------------------------------------------------------------------
(* What is known stays known.                                              *)

\* Nothing a driver knows is taken back.
LEMMA KnowsOn ==
  ASSUME Grows, NEW r \in Holding, DriverKnows(r)
  PROVE  DriverKnows(r)'
  <1>1. r.mine \subseteq Axis BY DEF Holding
  <1>2. QED BY <1>1 DEF DriverKnows, Grows, Exists

\* A record a driver holds in the next state, by another name.
LEMMA KnowsNext ==
  ASSUME NEW e, NEW x, x = drv'[e], DriverKnows(x)'
  PROVE  DriverKnows(drv[e])'
  BY DEF DriverKnows

\* One driver goes on to what it knows, the others keep what they know.
LEMMA DriverGoes ==
  ASSUME DriversInv, Grows, IInv', Shared', LanesKnown', GateKnown',
         NEW d \in Driver, NEW r \in Holding, drv' = [drv EXCEPT ![d] = r], DriverKnows(r)'
  PROVE  DriversInv'
  <1>1. drv \in [Driver -> Holding] /\ \A e \in Driver : DriverKnows(drv[e]) BY DEF DriversInv
  <1>2. drv' \in [Driver -> Holding] BY <1>1
  <1>3. ASSUME NEW e \in Driver PROVE DriverKnows(drv[e])'
    <2>1. CASE e = d
      <3>1. drv'[e] = r BY <1>1, <2>1
      <3>2. QED BY <3>1, KnowsNext
    <2>2. CASE e # d
      <3>1. drv[e] \in Holding /\ DriverKnows(drv[e]) /\ drv'[e] = drv[e] BY <1>1, <2>2
      <3>2. DriverKnows(drv[e])' BY <3>1, KnowsOn, KnowsNext
      <3>3. QED BY <3>2
    <2>3. QED BY <2>1, <2>2
  <1>4. QED BY <1>2, <1>3 DEF DriversInv

\* A step of no driver leaves every driver what it knows.
LEMMA DriversStay ==
  ASSUME DriversInv, Grows, IInv', Shared', LanesKnown', GateKnown', UNCHANGED drv
  PROVE  DriversInv'
  <1>1. drv \in [Driver -> Holding] /\ \A e \in Driver : DriverKnows(drv[e]) BY DEF DriversInv
  <1>2. ASSUME NEW e \in Driver PROVE DriverKnows(drv[e])'
    <2>1. drv[e] \in Holding /\ DriverKnows(drv[e]) /\ drv'[e] = drv[e] BY <1>1
    <2>2. DriverKnows(drv[e])' BY <2>1, KnowsOn, KnowsNext
    <2>3. QED BY <2>2
  <1>3. QED BY <1>1, <1>2 DEF DriversInv

\* What a driver holds, and what there is.
LEMMA KnownOf ==
  ASSUME DriversInv, NEW d \in Driver
  PROVE  /\ drv[d] \in Holding /\ DriverKnows(drv[d])
         /\ Shared /\ LanesKnown /\ GateKnown /\ IInv /\ Typed
         /\ gate \in GateFile /\ session \in [Axis -> Lane] /\ outbox \in [Axis -> Post]
         /\ granted \subseteq Attempt /\ NoAttempt \notin granted
  <1>1. granted \subseteq Attempt BY DEF DriversInv, IInv
  <1>2. NoAttempt \notin granted BY <1>1, IdsAre
  <1>3. QED BY <1>1, <1>2 DEF DriversInv, Shared, Typed

\* A driver between two of the points knows nothing.
LEMMA BetweenKnows ==
  ASSUME NEW r, r.pc \in {"idle", "decide", "record"}, r.mine = {}
  PROVE  DriverKnows(r) /\ DriverKnows(r)'
  BY DEF DriverKnows, Lately, Opening, Taking

\* Nor does one that is not running.
LEMMA IdleKnows == DriverKnows(Idle)'
  BY IdleTyped, BetweenKnows

\* The identity of the gate there is.
LEMMA KnownIdentity ==
  ASSUME GateKnown, Exists(gate)
  PROVE  Identity(gate).id \in granted /\ Identity(gate).cycle \in 1..MaxCycles
  <1>1. gate.id \in granted /\ gate.cycle \in 1..MaxCycles BY DEF GateKnown
  <1>2. Identity(gate).id = gate.id /\ Identity(gate).cycle = gate.cycle BY DEF Identity
  <1>3. QED BY <1>1, <1>2

\* Files that are left alone stay as they were described.
LEMMA FilesLeft ==
  ASSUME DriversInv, UNCHANGED files
  PROVE  IInv' /\ LanesKnown' /\ GateKnown' /\ Grows
  <1>1. UNCHANGED <<gate, session, answers, outbox, ledger, granted>> BY DEF files
  <1>2. IInv' BY <1>1, LedgerUndisturbed DEF DriversInv
  <1>3. LanesKnown' /\ GateKnown' BY <1>1 DEF DriversInv, LanesKnown, GateKnown, Exists
  <1>4. Grows BY <1>1 DEF Grows
  <1>5. QED BY <1>2, <1>3, <1>4

\* A driver that only reads goes on with what it holds.
LEMMA ReaderGoes ==
  ASSUME DriversInv, UNCHANGED files, UNCHANGED <<head, commits, crashes>>, NEW d \in Driver,
         NEW r \in Holding, DriverKnows(r), drv' = [drv EXCEPT ![d] = r]
  PROVE  DriversInv'
  <1>1. IInv' /\ LanesKnown' /\ GateKnown' /\ Grows BY FilesLeft
  <1>2. Shared'
    <2>1. UNCHANGED <<gate, session, answers, outbox, ledger, granted>> BY DEF files
    <2>2. QED BY <2>1 DEF DriversInv, Shared
  <1>3. DriverKnows(r)' BY <1>1, KnowsOn
  <1>4. QED BY <1>1, <1>2, <1>3, DriverGoes

-----------------------------------------------------------------------------
(* The steps that only read.                                               *)

\* A driver that is between two points leaves, or begins again.
LEMMA BetweenGoes ==
  ASSUME DriversInv, UNCHANGED files, UNCHANGED <<head, commits, crashes>>, NEW d \in Driver,
         NEW r \in Holding, r.pc \in {"idle", "decide", "record"}, r.mine = {},
         drv' = [drv EXCEPT ![d] = r]
  PROVE  DriversInv'
  <1>1. DriverKnows(r) BY BetweenKnows
  <1>2. QED BY <1>1, ReaderGoes

\* An answered attempt of an older HEAD is taken first.
LEMMA ObserveGoes ==
  ASSUME DriversInv, NEW d \in Driver, Observe(d)
  PROVE  DriversInv'
  <1>1. UNCHANGED files /\ UNCHANGED <<head, commits, crashes>>
    BY DEF Observe, ReadOnly, KeepLedger, KeepWorld, KeepLanes, files
  <1>2. Typed /\ GateKnown /\ gate \in GateFile BY KnownOf
  <1>3. CASE Exists(gate) /\ gate.phase # "terminal" /\ gate.head # head
    <2>1. PICK r : r = [Idle EXCEPT !.pc = "pick", !.run = Identity(gate),
                                    !.ready = Collected(gate), !.draining = TRUE]
      OBVIOUS
    <2>2. drv' = [drv EXCEPT ![d] = r] BY <1>3, <2>1 DEF Observe, Hold
    <2>3. r \in Holding /\ r.pc = "pick" /\ r.run = Identity(gate) /\ r.mine = {}
      <3>1. "pick" \in Point BY DEF Point
      <3>2. QED BY <1>2, <2>1, <3>1, IdleTyped, IdentityTyped, CollectedTyped DEF Holding
    <2>4. r.run.id \in granted /\ r.run.cycle \in 1..MaxCycles
      BY <1>2, <1>3, <2>3, KnownIdentity
    <2>5. DriverKnows(r) BY <1>3, <2>3, <2>4 DEF DriverKnows, Lately, Opening, Taking
    <2>6. QED BY <1>1, <2>2, <2>3, <2>5, ReaderGoes
  <1>4. CASE ~(Exists(gate) /\ gate.phase # "terminal" /\ gate.head # head)
    <2>1. PICK r : r = [Idle EXCEPT !.pc = "decide"] OBVIOUS
    <2>2. drv' = [drv EXCEPT ![d] = r] BY <1>4, <2>1 DEF Observe, Hold
    <2>3. r \in Holding /\ r.pc = "decide" /\ r.mine = {} BY <2>1, IdleTyped DEF Holding, Point
    <2>4. QED BY <1>1, <2>2, <2>3, BetweenGoes
  <1>5. QED BY <1>3, <1>4

\* A driver goes on when no answer is left to take.
LEMMA PickedGoes ==
  ASSUME DriversInv, NEW d \in Driver, Picked(d)
  PROVE  DriversInv'
  <1>1. UNCHANGED files /\ UNCHANGED <<head, commits, crashes>>
    BY DEF Picked, ReadOnly, KeepLedger, KeepWorld, KeepLanes, files
  <1>2. PICK r : r = [drv[d] EXCEPT !.pc = "record"] OBVIOUS
  <1>3. drv' = [drv EXCEPT ![d] = r] /\ drv[d].pc = "pick" BY <1>2 DEF Picked, Hold
  <1>4. drv[d] \in Holding /\ DriverKnows(drv[d]) BY KnownOf
  <1>5. r \in Holding /\ r.pc = "record" /\ r.mine = {}
    BY <1>2, <1>3, <1>4 DEF Holding, Point, DriverKnows
  <1>6. QED BY <1>1, <1>3, <1>5, BetweenGoes

\* A driver leaves without having written.
LEMMA LeaverGoes ==
  ASSUME DriversInv, UNCHANGED files, UNCHANGED <<head, commits, crashes>>, NEW d \in Driver,
         drv' = [drv EXCEPT ![d] = Idle]
  PROVE  DriversInv'
  BY IdleTyped, BetweenGoes

\* A driver dies: the files stay as they are.
LEMMA CrashGoes ==
  ASSUME DriversInv, NEW d \in Driver, Crash(d)
  PROVE  DriversInv'
  <1>1. UNCHANGED files /\ UNCHANGED <<head, commits>> /\ crashes' = crashes + 1
        /\ drv' = [drv EXCEPT ![d] = Idle]
    BY DEF Crash, files, Leave, Hold
  <1>2. UNCHANGED <<gate, session, answers, outbox>> BY <1>1 DEF files
  <1>3. Shared' BY <1>1, <1>2 DEF DriversInv, Shared
  <1>4. QED BY <1>1, <1>3, FilesLeft, IdleTyped, IdleKnows, DriverGoes

\* HEAD moves: the files stay as they are.
LEMMA CommitGoes ==
  ASSUME DriversInv, Commit
  PROVE  DriversInv'
  <1>1. /\ UNCHANGED files /\ UNCHANGED <<drv, crashes>> /\ head' \in HeadSha
        /\ commits' = commits + 1
    BY DEF Commit, files
  <1>2. UNCHANGED <<gate, session, answers, outbox>> BY <1>1 DEF files
  <1>3. Shared' BY <1>1, <1>2 DEF DriversInv, Shared
  <1>4. QED BY <1>1, <1>3, FilesLeft, DriversStay

\* The driver reads gate and HEAD, and decides what to ask for.
LEMMA DecideGoes ==
  ASSUME DriversInv, NEW d \in Driver, Decide(d)
  PROVE  DriversInv'
  <1>1. UNCHANGED files /\ UNCHANGED <<head, commits, crashes>>
    BY DEF Decide, ReadOnly, KeepLedger, KeepWorld, KeepLanes, files
  <1>2. /\ drv[d] \in Holding /\ DriverKnows(drv[d]) /\ gate \in GateFile /\ GateKnown
        /\ head \in HeadSha /\ drv[d].pc = "decide"
    BY KnownOf DEF Shared, Decide
  <1>3. drv[d].mine = {} BY <1>2 DEF DriverKnows
  <1>4. {"reserve", "recover", "settle"} \subseteq Point BY DEF Point
  <1>5. CASE ~Exists(gate)
    <2>1. PICK q : q = [NoRequest(head) EXCEPT !.attempt = FirstId(head, 1)] OBVIOUS
    <2>2. PICK r : r = [[drv[d] EXCEPT !.head = head, !.seen = gate] EXCEPT
                          !.pc = "reserve", !.cycle = 1, !.q = q]
      OBVIOUS
    <2>3. drv' = [drv EXCEPT ![d] = r] BY <1>5, <2>1, <2>2 DEF Decide, Hold
    <2>4. q \in Asked /\ q \in Request
      <3>1. 1 \in 1..MaxCycles + 1 BY AxesAre
      <3>2. FirstId(head, 1) \in Attempt BY <1>2, <3>1, IdsAre
      <3>3. q \in Asked /\ q.attempt = FirstId(head, 1) /\ q.head = head
        BY <1>2, <2>1, <3>2, NoRequestTyped DEF Asked
      <3>4. QED BY <1>2, <3>2, <3>3, RequestTyped
    <2>5. r \in Holding /\ r.pc = "reserve" /\ r.q = q /\ r.mine = {}
      BY <1>2, <1>3, <1>4, <2>2, <2>4 DEF Holding
    <2>6. DriverKnows(r) BY <2>4, <2>5 DEF DriverKnows, Lately, Opening, Taking
    <2>7. QED BY <1>1, <2>3, <2>5, <2>6, ReaderGoes
  <1>6. CASE Exists(gate) /\ gate.phase # "terminal"
    <2>1. PICK q : q = Held(gate, head) OBVIOUS
    <2>2. PICK r : r = [[drv[d] EXCEPT !.head = head, !.seen = gate] EXCEPT
                          !.pc = "reserve", !.cycle = gate.cycle, !.q = q]
      OBVIOUS
    <2>3. drv' = [drv EXCEPT ![d] = r] BY <1>6, <2>1, <2>2 DEF Decide, Hold
    <2>4. q \in Asked /\ q \in Request
      <3>1. gate.id \in Attempt BY <1>2, <1>6 DEF Exists, GateFile
      <3>2. CleanupComplete(gate) \in BOOLEAN BY DEF CleanupComplete
      <3>3. q \in Asked /\ q.attempt = gate.id /\ q.head = head
        BY <1>2, <2>1, <3>1, <3>2, NoRequestTyped DEF Asked, Held
      <3>4. QED BY <1>2, <3>1, <3>3, RequestTyped
    <2>5. r \in Holding /\ r.pc = "reserve" /\ r.q = q /\ r.mine = {}
      BY <1>2, <1>3, <1>4, <2>2, <2>4 DEF Holding, GateFile
    <2>6. DriverKnows(r) BY <2>4, <2>5 DEF DriverKnows, Lately, Opening, Taking
    <2>7. QED BY <1>1, <2>3, <2>5, <2>6, ReaderGoes
  <1>7. CASE Exists(gate) /\ gate.phase = "terminal"
    <2>1. PICK r : r = [[drv[d] EXCEPT !.head = head, !.seen = gate] EXCEPT
                          !.pc = IF Interrupted(gate) THEN "recover" ELSE "settle"]
      OBVIOUS
    <2>2. drv' = [drv EXCEPT ![d] = r] BY <1>7, <2>1 DEF Decide, Hold
    <2>3. /\ r \in Holding /\ r.mine = {} /\ r.seen = gate /\ r.head = head
          /\ r.pc = IF Interrupted(gate) THEN "recover" ELSE "settle"
      BY <1>2, <1>3, <1>4, <2>1 DEF Holding
    <2>4. DriverKnows(r)
      BY <1>2, <1>7, <2>3 DEF DriverKnows, Lately, Opening, Taking, GateKnown
    <2>5. QED BY <1>1, <2>2, <2>3, <2>4, ReaderGoes
  <1>8. QED BY <1>5, <1>6, <1>7

\* With its reservation in hand a driver opens an attempt, takes the answers of
\* the gate's, or leaves.
LEMMA EnterGoes ==
  ASSUME DriversInv, NEW d \in Driver, Enter(d)
  PROVE  DriversInv'
  <1>1. UNCHANGED files /\ UNCHANGED <<head, commits, crashes>>
    BY DEF Enter, ReadOnly, KeepLedger, KeepWorld, KeepLanes, files
  <1>2. /\ drv[d] \in Holding /\ DriverKnows(drv[d]) /\ gate \in GateFile /\ GateKnown /\ Typed
        /\ NoAttempt \notin granted /\ drv[d].pc = "enter"
    BY KnownOf DEF Enter
  <1>3. drv[d].mine = {} /\ drv[d].q.attempt \in granted /\ drv[d].cycle \in 1..MaxCycles
    BY <1>2 DEF DriverKnows
  <1>4. CASE drv' = [drv EXCEPT ![d] = [drv[d] EXCEPT !.pc = "initialize"]]
    <2>1. PICK r : r = [drv[d] EXCEPT !.pc = "initialize"] OBVIOUS
    <2>2. /\ r \in Holding /\ r.pc = "initialize" /\ r.mine = {} /\ r.q = drv[d].q
          /\ r.cycle = drv[d].cycle
      BY <1>2, <1>3, <2>1 DEF Holding, Point
    <2>3. DriverKnows(r) BY <1>3, <2>2 DEF DriverKnows, Lately, Opening, Taking
    <2>4. QED BY <1>1, <1>4, <2>1, <2>2, <2>3, ReaderGoes
  <1>5. CASE /\ gate.id = drv[d].q.attempt
             /\ drv' = [drv EXCEPT ![d] = [drv[d] EXCEPT !.pc = "pick", !.run = Identity(gate),
                                                         !.ready = Collected(gate)]]
    <2>1. PICK r : r = [drv[d] EXCEPT !.pc = "pick", !.run = Identity(gate), !.ready = Collected(gate)]
      OBVIOUS
    <2>2. r \in Holding /\ r.pc = "pick" /\ r.run = Identity(gate) /\ r.mine = {}
      BY <1>2, <1>3, <2>1, IdentityTyped, CollectedTyped DEF Holding, Point
    <2>3. Exists(gate) BY <1>2, <1>3, <1>5 DEF Exists
    <2>4. r.run.id \in granted /\ r.run.cycle \in 1..MaxCycles
      BY <1>2, <2>2, <2>3, KnownIdentity
    <2>5. DriverKnows(r) BY <2>2, <2>3, <2>4 DEF DriverKnows, Lately, Opening, Taking
    <2>6. QED BY <1>1, <1>5, <2>1, <2>2, <2>5, ReaderGoes
  <1>6. CASE drv' = [drv EXCEPT ![d] = Idle] BY <1>1, <1>6, LeaverGoes
  <1>7. QED BY <1>4, <1>5, <1>6 DEF Enter, Leave, Hold

\* The gate's results are read with this answer put in.
LEMMA ReadResultsGoes ==
  ASSUME DriversInv, NEW d \in Driver, ReadResults(d)
  PROVE  DriversInv'
  <1>1. UNCHANGED files /\ UNCHANGED <<head, commits, crashes>>
    BY DEF ReadResults, ReadOnly, KeepLedger, KeepWorld, KeepLanes, files
  <1>2. /\ drv[d] \in Holding /\ DriverKnows(drv[d]) /\ gate \in GateFile /\ drv[d].pc = "merge"
    BY KnownOf DEF ReadResults
  <1>3. PICK a, v : a = drv[d].axis /\ v = drv[d].seen.finals[a] OBVIOUS
  <1>4. PICK g : g = [NoGate EXCEPT !.lanes = [gate.lanes EXCEPT ![a] = "done"],
                                    !.finals = [gate.finals EXCEPT ![a] = v]]
    OBVIOUS
  <1>5. PICK r : r = [drv[d] EXCEPT !.pc = "write", !.seen = g] OBVIOUS
  <1>6. drv' = [drv EXCEPT ![d] = r] BY <1>3, <1>4, <1>5 DEF ReadResults, Hold
  <1>7. g \in GateFile
    <2>1. a \in Axis /\ v \in Verdict \cup {""} BY <1>2, <1>3 DEF Holding, GateFile
    <2>2. gate.finals \in [Axis -> Verdict \cup {""}] /\ gate.lanes \in [Axis -> {"none", "open", "done"}]
      BY <1>2 DEF GateFile
    <2>3. /\ [gate.finals EXCEPT ![a] = v] \in [Axis -> Verdict \cup {""}]
          /\ [gate.lanes EXCEPT ![a] = "done"] \in [Axis -> {"none", "open", "done"}]
      BY <2>1, <2>2
    <2>4. QED BY <1>4, <2>3, NoGateTyped DEF GateFile
  <1>8. r \in Holding /\ r.pc = "write" /\ r.mine = drv[d].mine /\ r.run = drv[d].run
    BY <1>2, <1>5, <1>7 DEF Holding, Point
  <1>9. DriverKnows(r) BY <1>2, <1>8 DEF DriverKnows, Lately, Opening, Taking
  <1>10. QED BY <1>1, <1>6, <1>8, <1>9, ReaderGoes

-----------------------------------------------------------------------------
(* The steps that write the lanes.                                         *)

\* Lanes keep to authorized attempts, and so do the answers they take.
LEMMA LanesWritten ==
  ASSUME DriversInv, UNCHANGED <<gate, outbox, ledger, granted, head, commits, crashes>>,
         session' \in [Axis -> Lane],
         \A a \in Axis : /\ session'[a].op \in granted \cup {NoAttempt}
                         /\ session[a].op # NoAttempt => session'[a].op # NoAttempt
                         /\ session'[a].op = NoAttempt => session'[a].child = "none",
         \A x \in answers' : x \in answers \/ (x[1] \in granted /\ x \in Attempt \X Axis \X Verdict)
  PROVE  IInv' /\ Shared' /\ LanesKnown' /\ GateKnown' /\ Grows
  <1>1. IInv' BY LedgerUndisturbed DEF DriversInv
  <1>2. Shared' BY DEF DriversInv, Shared
  <1>3. LanesKnown' BY DEF DriversInv, LanesKnown
  <1>4. GateKnown' BY DEF DriversInv, GateKnown, Exists
  <1>5. Grows BY DEF Grows, DriversInv, Shared
  <1>6. QED BY <1>1, <1>2, <1>3, <1>4, <1>5

\* One lane goes on under its operation, or under that of an authorized attempt.
LEMMA LaneWritten ==
  ASSUME DriversInv, UNCHANGED <<gate, outbox, ledger, granted, head, commits, crashes>>,
         NEW a \in Axis, NEW s \in Lane, session' = [session EXCEPT ![a] = s],
         s.op = session[a].op \/ s.op \in granted,
         s.op = NoAttempt => s.child = session[a].child,
         \A x \in answers' : x \in answers \/ (x[1] \in granted /\ x \in Attempt \X Axis \X Verdict)
  PROVE  IInv' /\ Shared' /\ LanesKnown' /\ GateKnown' /\ Grows
  <1>1. session \in [Axis -> Lane] /\ LanesKnown /\ granted \subseteq Attempt BY DEF DriversInv, Shared, IInv
  <1>2. NoAttempt \notin granted BY <1>1, IdsAre
  <1>3. session' \in [Axis -> Lane] /\ session'[a] = s /\ \A b \in Axis : b # a => session'[b] = session[b]
    BY <1>1
  <1>4. ASSUME NEW b \in Axis
        PROVE  /\ session'[b].op \in granted \cup {NoAttempt}
               /\ session[b].op # NoAttempt => session'[b].op # NoAttempt
               /\ session'[b].op = NoAttempt => session'[b].child = "none"
    BY <1>1, <1>2, <1>3 DEF LanesKnown
  <1>5. QED BY <1>3, <1>4, LanesWritten

\* A lane whose parent alone is written is still of its operation.
LEMMA ParentOnly ==
  ASSUME DriversInv, NEW a \in Axis,
         NEW p \in {"live", "attention", "exiting", "complete", "failed"},
         session' = [session EXCEPT ![a].parent = p],
         UNCHANGED <<gate, answers, outbox, ledger, granted, head, commits, crashes>>
  PROVE  IInv' /\ Shared' /\ LanesKnown' /\ GateKnown' /\ Grows
  <1>1. session \in [Axis -> Lane] BY DEF DriversInv, Shared
  <1>2. PICK s : s = [session[a] EXCEPT !.parent = p] OBVIOUS
  <1>3. s \in Lane /\ s.op = session[a].op /\ s.child = session[a].child BY <1>1, <1>2 DEF Lane
  <1>4. session' = [session EXCEPT ![a] = s] BY <1>1, <1>2
  <1>5. QED BY <1>3, <1>4, LaneWritten

\* A reviewer publishes.
LEMMA AnswerGoes ==
  ASSUME DriversInv, NEW a \in Axis, NEW v \in Verdict, Answer(a, v)
  PROVE  DriversInv'
  <1>1. /\ session \in [Axis -> Lane] /\ outbox \in [Axis -> Post] /\ LanesKnown
        /\ IInv /\ Shared /\ GateKnown
    BY DEF DriversInv, Shared
  <1>2. PICK o : o = [op |-> session[a].op, answer |-> v] OBVIOUS
  <1>3. /\ outbox' = [outbox EXCEPT ![a] = o]
        /\ UNCHANGED <<session, answers, gate, ledger, granted, head, drv, commits, crashes>>
    BY <1>2 DEF Answer
  <1>4. o \in Post /\ o.answer \in Verdict
    <2>1. session[a].op \in Attempt \cup {NoAttempt} BY <1>1 DEF Lane
    <2>2. QED BY <1>2, <2>1 DEF Post
  <1>5. IInv' BY <1>1, <1>3, LedgerUndisturbed
  <1>6. outbox' \in [Axis -> Post] BY <1>1, <1>3, <1>4
  <1>7. Shared' BY <1>1, <1>3, <1>6 DEF Shared
  <1>8. \A b \in Axis : outbox'[b] = outbox[b] \/ outbox'[b] = o BY <1>1, <1>3
  <1>9. LanesKnown' BY <1>1, <1>3, <1>4, <1>8 DEF LanesKnown
  <1>10. GateKnown' /\ Grows BY <1>1, <1>3 DEF GateKnown, Grows, Exists
  <1>11. QED BY <1>3, <1>5, <1>7, <1>9, <1>10, DriversStay

\* A worker takes the answer of its round.
LEMMA WorkerAcceptsGoes ==
  ASSUME DriversInv, NEW a \in Axis, WorkerAccepts(a)
  PROVE  DriversInv'
  <1>1. /\ session \in [Axis -> Lane] /\ outbox \in [Axis -> Post] /\ LanesKnown
        /\ granted \subseteq Attempt /\ answers \subseteq Attempt \X Axis \X Verdict
    BY DEF DriversInv, Shared, IInv
  <1>2. /\ outbox[a].op = session[a].op /\ session[a].child = "awaiting"
        /\ session' = [session EXCEPT ![a].child = "accepted", ![a].answer = outbox[a].answer,
                                      ![a].parent = "live"]
        /\ answers' = answers \cup {<<session[a].op, a, outbox[a].answer>>}
        /\ UNCHANGED <<outbox, gate, ledger, granted, head, drv, commits, crashes>>
    BY DEF WorkerAccepts, Take
  <1>3. session[a].op \in granted /\ session[a].op # NoAttempt BY <1>1, <1>2 DEF LanesKnown
  <1>4. PICK v : v = outbox[a].answer OBVIOUS
  <1>5. v \in Verdict BY <1>1, <1>2, <1>3, <1>4 DEF LanesKnown
  <1>6. PICK s : s = [session[a] EXCEPT !.child = "accepted", !.answer = v, !.parent = "live"]
    OBVIOUS
  <1>7. s \in Lane /\ s.op = session[a].op BY <1>1, <1>5, <1>6 DEF Lane
  <1>8. session' = [session EXCEPT ![a] = s] BY <1>1, <1>2, <1>4, <1>6 DEF Lane
  <1>9. \A x \in answers' : x \in answers \/ (x[1] \in granted /\ x \in Attempt \X Axis \X Verdict)
    BY <1>1, <1>2, <1>3, <1>4, <1>5
  <1>10. IInv' /\ Shared' /\ LanesKnown' /\ GateKnown' /\ Grows
    BY <1>2, <1>3, <1>7, <1>8, <1>9, LaneWritten
  <1>11. QED BY <1>2, <1>10, DriversStay

\* A wait runs out, or an operator retires an uncertain start.
LEMMA ParentGoes ==
  ASSUME DriversInv, NEW a \in Axis, WaitRunsOut(a) \/ Retire(a)
  PROVE  DriversInv'
  <1>1. /\ UNCHANGED <<answers, outbox, gate, ledger, granted, head, drv, commits, crashes>>
        /\ \E p \in {"live", "attention", "exiting", "complete", "failed"} :
             session' = [session EXCEPT ![a].parent = p]
    BY DEF WaitRunsOut, Retire
  <1>2. QED BY <1>1, ParentOnly, DriversStay

\* The lane of an attempt that was given up is cleaned up at last.
LEMMA RecoverGoes ==
  ASSUME DriversInv, NEW d \in Driver, Recover(d)
  PROVE  DriversInv'
  <1>1. drv[d] \in Holding /\ DriverKnows(drv[d]) /\ drv[d].pc = "recover"
    BY KnownOf DEF Recover
  <1>2. PICK a : a = CHOOSE x \in Axes(drv[d].seen) : TRUE OBVIOUS
  <1>3. a \in Axis
    <2>1. drv[d].seen.cycle \in 1..MaxCycles BY <1>1 DEF DriverKnows, Lately
    <2>2. Axes(drv[d].seen) \subseteq Axis /\ Axes(drv[d].seen) # {} BY <2>1, AxesAre DEF Axes
    <2>3. QED BY <1>2, <2>2
  <1>4. PICK p \in CleanedUp(a) :
          /\ session' = [session EXCEPT ![a].parent = p]
          /\ drv' = [drv EXCEPT ![d] = [drv[d] EXCEPT
                       !.pc = IF p = "complete" THEN "reopen" ELSE "settle", !.axis = a]]
    BY <1>2 DEF Recover, Hold
  <1>5. UNCHANGED <<gate, outbox, answers, ledger, granted, head, commits, crashes>>
    BY DEF Recover, KeepLedger, KeepWorld
  <1>6. p \in {"live", "attention", "exiting", "complete", "failed"} BY DEF CleanedUp
  <1>7. IInv' /\ Shared' /\ LanesKnown' /\ GateKnown' /\ Grows BY <1>3, <1>4, <1>5, <1>6, ParentOnly
  <1>8. PICK r : r = [drv[d] EXCEPT !.pc = IF p = "complete" THEN "reopen" ELSE "settle", !.axis = a]
    OBVIOUS
  <1>9. /\ r \in Holding /\ r.pc \in {"reopen", "settle"} /\ r.mine = drv[d].mine
        /\ r.seen = drv[d].seen /\ r.head = drv[d].head
    BY <1>1, <1>3, <1>8 DEF Holding, Point
  <1>10. DriverKnows(r) BY <1>1, <1>9 DEF DriverKnows, Lately, Opening, Taking
  <1>11. DriverKnows(r)' BY <1>7, <1>9, <1>10, KnowsOn
  <1>12. QED BY <1>4, <1>7, <1>8, <1>9, <1>11, DriverGoes

\* The lane of an answer that was taken is cleaned up, or the attempt given up.
LEMMA CleanGoes ==
  ASSUME DriversInv, NEW d \in Driver, Clean(d)
  PROVE  DriversInv'
  <1>1. drv[d] \in Holding /\ DriverKnows(drv[d]) /\ drv[d].pc = "clean"
    BY KnownOf DEF Clean
  <1>2. PICK a : a = drv[d].axis OBVIOUS
  <1>3. a \in Axis BY <1>1, <1>2 DEF Holding
  <1>4. UNCHANGED <<gate, outbox, answers, ledger, granted, head, commits, crashes>>
    BY DEF Clean, KeepLedger, KeepWorld
  <1>5. PICK p : /\ \/ p \in CleanedUp(a) /\ session' = [session EXCEPT ![a].parent = p]
                    \/ UNCHANGED session
                 /\ drv' = [drv EXCEPT ![d] = [drv[d] EXCEPT
                              !.pc = IF p = "complete" THEN "merge" ELSE "attend"]]
    BY <1>2 DEF Clean, Hold
  <1>6. IInv' /\ Shared' /\ LanesKnown' /\ GateKnown' /\ Grows
    <2>1. CASE p \in CleanedUp(a) /\ session' = [session EXCEPT ![a].parent = p]
      <3>1. p \in {"live", "attention", "exiting", "complete", "failed"} BY <2>1 DEF CleanedUp
      <3>2. QED BY <1>3, <1>4, <2>1, <3>1, ParentOnly
    <2>2. CASE UNCHANGED session
      <3>1. UNCHANGED files BY <1>4, <2>2 DEF files
      <3>2. Shared' BY <1>4, <2>2 DEF DriversInv, Shared
      <3>3. QED BY <3>1, <3>2, FilesLeft
    <2>3. QED BY <1>5, <2>1, <2>2
  <1>7. PICK r : r = [drv[d] EXCEPT !.pc = IF p = "complete" THEN "merge" ELSE "attend"]
    OBVIOUS
  <1>8. r \in Holding /\ r.pc \in {"merge", "attend"} /\ r.mine = drv[d].mine /\ r.run = drv[d].run
    BY <1>1, <1>7 DEF Holding, Point
  <1>9. DriverKnows(r) BY <1>1, <1>8 DEF DriverKnows, Lately, Opening, Taking
  <1>10. DriverKnows(r)' BY <1>6, <1>8, <1>9, KnowsOn
  <1>11. QED BY <1>5, <1>6, <1>7, <1>8, <1>10, DriverGoes

\* The answer collected for a lane becomes its round's, or the driver stops.
LEMMA PickGoes ==
  ASSUME DriversInv, NEW d \in Driver, Pick(d)
  PROVE  DriversInv'
  <1>1. PICK q : q = drv[d] OBVIOUS
  <1>2. /\ q \in Holding /\ DriverKnows(q) /\ q.pc = "pick" /\ session \in [Axis -> Lane]
        /\ LanesKnown /\ granted \subseteq Attempt
    BY <1>1, KnownOf DEF Pick
  <1>3. UNCHANGED <<gate, outbox, ledger, granted, head, commits, crashes>>
    BY DEF Pick, KeepLedger, KeepWorld
  <1>4. PICK a \in Axis :
       LET r == [q EXCEPT !.ready[a] = "", !.axis = a]
           v == q.ready[a]
           s == session[a]
           takes == s.child = "awaiting" /\ s.parent = "live"
           agrees == s.child \in {"accepted", "complete"} /\ s.answer = v
       IN /\ v # ""
          /\ \/ Hold(d, r) /\ UNCHANGED <<session, answers>>
             \/ /\ takes \/ agrees
                /\ session' = [session EXCEPT ![a].child = "complete", ![a].answer = v,
                       ![a].parent = IF v = "blocked" /\ @ = "live" THEN "attention" ELSE @]
                /\ answers' = answers \cup {<<s.op, a, v>>}
                /\ Hold(d, [r EXCEPT !.pc = "clean", !.seen = [NoGate EXCEPT !.finals[a] = v]])
             \/ Leave(d) /\ UNCHANGED <<session, answers>>
    BY <1>1, Zenon DEF Pick
  <1>5. PICK v : v = q.ready[a] OBVIOUS
  <1>6. PICK r : r = [q EXCEPT !.ready[a] = "", !.axis = a] OBVIOUS
  <1>7. v \in Verdict
    <2>1. v \in Verdict \cup {""} /\ v # "" BY <1>2, <1>4, <1>5 DEF Holding
    <2>2. QED BY <2>1
  <1>8. r \in Holding /\ r.pc = "pick" /\ r.run = q.run /\ r.mine = q.mine
    BY <1>2, <1>6 DEF Holding
  <1> DEFINE took ==
       /\ \/ session[a].child = "awaiting" /\ session[a].parent = "live"
          \/ session[a].child \in {"accepted", "complete"} /\ session[a].answer = v
       /\ session' = [session EXCEPT ![a].child = "complete", ![a].answer = v,
               ![a].parent = IF v = "blocked" /\ @ = "live" THEN "attention" ELSE @]
       /\ answers' = answers \cup {<<session[a].op, a, v>>}
       /\ Hold(d, [r EXCEPT !.pc = "clean", !.seen = [NoGate EXCEPT !.finals[a] = v]])
  <1>9. \/ Leave(d) /\ UNCHANGED <<session, answers>>
        \/ Hold(d, r) /\ UNCHANGED <<session, answers>>
        \/ took
    BY <1>4, <1>5, <1>6, Zenon
  <1>10. CASE Leave(d) /\ UNCHANGED <<session, answers>>
    BY <1>3, <1>10, LeaverGoes DEF Leave, Hold, files
  <1>11. CASE Hold(d, r) /\ UNCHANGED <<session, answers>>
    <2>1. UNCHANGED files BY <1>3, <1>11 DEF files
    <2>2. DriverKnows(r) BY <1>2, <1>8 DEF DriverKnows, Lately, Opening, Taking
    <2>3. QED BY <1>3, <1>8, <1>11, <2>1, <2>2, ReaderGoes DEF Hold
  <1>12. CASE took
    <2>1. PICK s : s = [session[a] EXCEPT !.child = "complete", !.answer = v,
               !.parent = IF v = "blocked" /\ @ = "live" THEN "attention" ELSE @]
      OBVIOUS
    <2>2. s \in Lane /\ s.op = session[a].op BY <1>2, <1>7, <2>1 DEF Lane
    <2>3. session' = [session EXCEPT ![a] = s] BY <1>2, <1>12, <2>1 DEF Lane
    <2>4. session[a].op \in granted /\ session[a].op # NoAttempt BY <1>2, <1>12 DEF LanesKnown
    <2>5. answers' = answers \cup {<<session[a].op, a, v>>} BY <1>12
    <2>6. \A x \in answers' : x \in answers \/ (x[1] \in granted /\ x \in Attempt \X Axis \X Verdict)
      BY <1>2, <1>7, <2>4, <2>5
    <2>7. IInv' /\ Shared' /\ LanesKnown' /\ GateKnown' /\ Grows
      BY <1>3, <2>2, <2>3, <2>4, <2>6, LaneWritten
    <2>8. PICK f : f = [NoGate EXCEPT !.finals[a] = v] OBVIOUS
    <2>9. f \in GateFile BY <1>7, <2>8, NoGateTyped DEF GateFile
    <2>10. PICK x : x = [r EXCEPT !.pc = "clean", !.seen = f] OBVIOUS
    <2>11. x \in Holding /\ x.pc = "clean" /\ x.mine = q.mine /\ x.run = q.run
      BY <1>8, <2>9, <2>10 DEF Holding, Point
    <2>12. drv' = [drv EXCEPT ![d] = x] BY <1>12, <2>8, <2>10 DEF Hold
    <2>13. DriverKnows(x) BY <1>2, <2>11 DEF DriverKnows, Lately, Opening, Taking
    <2>14. DriverKnows(x)' BY <2>7, <2>11, <2>13, KnowsOn
    <2>15. QED BY <2>7, <2>11, <2>12, <2>14, DriverGoes
  <1>13. QED BY <1>9, <1>10, <1>11, <1>12

\* A lane is opened for the driver's attempt, or found open.
LEMMA LaunchGoes ==
  ASSUME DriversInv, NEW d \in Driver, Launch(d)
  PROVE  DriversInv'
  <1>1. PICK q : q = drv[d] OBVIOUS
  <1>2. /\ q \in Holding /\ DriverKnows(q) /\ q.pc = "launch" /\ session \in [Axis -> Lane]
        /\ granted \subseteq Attempt /\ NoAttempt \notin granted
    BY <1>1, KnownOf DEF Launch
  <1>3. q.run.id \in granted /\ q.run.cycle \in 1..MaxCycles
        /\ \A x \in q.mine : session[x].op # NoAttempt
    BY <1>2 DEF DriverKnows, Opening
  <1>4. ToLaunch(d) \subseteq Axis BY <1>1, <1>3, AxesAre DEF ToLaunch, Axes
  <1>5. PICK a \in ToLaunch(d) :
       /\ \/ session[a].op = q.run.id /\ UNCHANGED session
          \/ session' = [session EXCEPT ![a] =
               [op |-> q.run.id, child |-> "awaiting", answer |-> "", parent |-> "live"]]
       /\ drv' = [drv EXCEPT ![d] = [q EXCEPT !.mine = @ \cup {a}]]
    BY <1>1 DEF Launch, Hold
  <1>6. UNCHANGED <<gate, answers, outbox, ledger, granted, head, commits, crashes>>
    BY DEF Launch, KeepLedger, KeepWorld
  <1>7. a \in Axis BY <1>4
  <1>8. PICK i : i = q.run.id OBVIOUS
  <1>9. PICK s : s = [op |-> i, child |-> "awaiting", answer |-> "", parent |-> "live"] OBVIOUS
  <1>10. s \in Lane /\ s.op = i /\ i \in granted /\ i # NoAttempt
    BY <1>2, <1>3, <1>8, <1>9 DEF Lane
  <1>11. /\ IInv' /\ Shared' /\ LanesKnown' /\ GateKnown' /\ Grows
         /\ session'[a].op # NoAttempt
    <2>1. CASE session[a].op = i /\ UNCHANGED session
      <3>1. UNCHANGED files BY <1>6, <2>1 DEF files
      <3>2. Shared' BY <1>6, <2>1 DEF DriversInv, Shared
      <3>3. QED BY <1>10, <2>1, <3>1, <3>2, FilesLeft
    <2>2. CASE session' = [session EXCEPT ![a] = s]
      <3>1. session'[a] = s BY <1>2, <1>7, <2>2
      <3>2. QED BY <1>6, <1>7, <1>10, <2>2, <3>1, LaneWritten
    <2>3. QED BY <1>5, <1>8, <1>9, <2>1, <2>2
  <1>12. PICK r : r = [q EXCEPT !.mine = @ \cup {a}] OBVIOUS
  <1>13. r \in Holding /\ r.pc = "launch" /\ r.run = q.run /\ r.mine = q.mine \cup {a}
    BY <1>2, <1>7, <1>12 DEF Holding
  <1>14. DriverKnows(q)' BY <1>2, <1>11, KnowsOn
  <1>15. \A x \in r.mine : session'[x].op # NoAttempt
    <2>1. \A x \in q.mine : session'[x].op # NoAttempt BY <1>2, <1>14 DEF DriverKnows
    <2>2. QED BY <1>11, <1>13, <2>1
  <1>16. DriverKnows(r)' BY <1>3, <1>6, <1>13, <1>15 DEF DriverKnows, Lately, Opening, Taking
  <1>17. drv' = [drv EXCEPT ![d] = r] BY <1>5, <1>12
  <1>18. QED BY <1>11, <1>13, <1>16, <1>17, DriverGoes

\* One lane cannot be opened, and those before it are asked to exit.
LEMMA LaunchFailsGoes ==
  ASSUME DriversInv, NEW d \in Driver, LaunchFails(d)
  PROVE  DriversInv'
  <1>1. PICK q : q = drv[d] OBVIOUS
  <1>2. /\ q \in Holding /\ DriverKnows(q) /\ q.pc = "launch" /\ session \in [Axis -> Lane]
        /\ granted \subseteq Attempt /\ NoAttempt \notin granted /\ LanesKnown
    BY <1>1, KnownOf DEF LaunchFails
  <1>3. q.run.id \in granted /\ q.run.cycle \in 1..MaxCycles
        /\ \A x \in q.mine : session[x].op # NoAttempt
    BY <1>2 DEF DriverKnows, Opening
  <1>4. PICK a \in ToLaunch(d), own \in {"failed", "attention"}, rest \in {"exiting", "complete"} :
       /\ session[a].op # drv[d].run.id
       /\ session' = [x \in Axis |->
            IF x = a /\ outbox[a] = NoPost
            THEN [op |-> drv[d].run.id, child |-> "failed", answer |-> "", parent |-> own]
            ELSE IF x \in drv[d].mine
            THEN [session[x] EXCEPT !.child = IF @ = "complete" THEN @ ELSE "failed", !.parent = rest]
            ELSE session[x]]
       /\ Hold(d, [drv[d] EXCEPT !.pc = "fail"])
    BY Zenon DEF LaunchFails
  <1>5. PICK i : i = q.run.id OBVIOUS
  <1>6. PICK s : s = [op |-> i, child |-> "failed", answer |-> "", parent |-> own] OBVIOUS
  <1>7. s \in Lane /\ s.op = i /\ i \in granted /\ i # NoAttempt
    BY <1>2, <1>3, <1>5, <1>6 DEF Lane
  <1>8. UNCHANGED <<gate, answers, outbox, ledger, granted, head, commits, crashes>>
    BY DEF LaunchFails, KeepLedger, KeepWorld
  <1>9. ASSUME NEW b \in Axis
        PROVE  /\ session'[b] \in Lane
               /\ session'[b].op \in granted \cup {NoAttempt}
               /\ session[b].op # NoAttempt => session'[b].op # NoAttempt
               /\ session'[b].op = NoAttempt => session'[b].child = "none"
    <2>1. session[b] \in Lane /\ session[b].op \in granted \cup {NoAttempt}
          /\ (session[b].op = NoAttempt => session[b].child = "none")
      BY <1>2 DEF LanesKnown
    <2>2. \/ session'[b] = s
          \/ /\ b \in q.mine
             /\ session'[b] = [session[b] EXCEPT !.child = IF @ = "complete" THEN @ ELSE "failed",
                                                 !.parent = rest]
          \/ session'[b] = session[b]
      BY <1>1, <1>4, <1>5, <1>6
    <2>3. CASE session'[b] = s BY <1>7, <2>3
    <2>4. CASE /\ b \in q.mine
               /\ session'[b] = [session[b] EXCEPT !.child = IF @ = "complete" THEN @ ELSE "failed",
                                                   !.parent = rest]
      <3>1. session[b].op # NoAttempt BY <1>3, <2>4
      <3>2. session'[b] \in Lane /\ session'[b].op = session[b].op BY <2>1, <2>4 DEF Lane
      <3>3. QED BY <2>1, <3>1, <3>2
    <2>5. CASE session'[b] = session[b] BY <2>1, <2>5
    <2>6. QED BY <2>2, <2>3, <2>4, <2>5
  <1>10. session' \in [Axis -> Lane] BY <1>4, <1>9
  <1>11. IInv' /\ Shared' /\ LanesKnown' /\ GateKnown' /\ Grows
    BY <1>8, <1>9, <1>10, LanesWritten
  <1>12. PICK r : r = [q EXCEPT !.pc = "fail"] OBVIOUS
  <1>13. r \in Holding /\ r.pc = "fail" /\ r.run = q.run BY <1>2, <1>12 DEF Holding, Point
  <1>14. drv' = [drv EXCEPT ![d] = r] BY <1>1, <1>4, <1>12 DEF Hold
  <1>15. DriverKnows(r) BY <1>3, <1>13 DEF DriverKnows, Lately, Opening, Taking
  <1>16. DriverKnows(r)' BY <1>11, <1>13, <1>15, KnowsOn
  <1>17. QED BY <1>11, <1>13, <1>14, <1>16, DriverGoes

-----------------------------------------------------------------------------
(* The steps that write the gate file.                                     *)

\* The gate is written for an authorized attempt.
LEMMA GateWritten ==
  ASSUME DriversInv, UNCHANGED <<session, answers, outbox, ledger, granted, head, commits, crashes>>,
         gate' \in GateFile, gate'.id \in granted, gate'.cycle \in 1..MaxCycles,
         (gate'.phase = "terminal") = (gate'.result # "")
  PROVE  IInv' /\ Shared' /\ LanesKnown' /\ GateKnown' /\ Grows /\ Exists(gate')
  <1>1. IInv' BY LedgerUndisturbed DEF DriversInv
  <1>2. Shared' BY DEF DriversInv, Shared
  <1>3. LanesKnown' BY DEF DriversInv, LanesKnown
  <1>4. gate'.id # NoAttempt BY IdsAre DEF DriversInv, IInv
  <1>5. GateKnown' /\ Exists(gate') BY <1>4 DEF GateKnown, Exists
  <1>6. Grows BY <1>5 DEF Grows
  <1>7. QED BY <1>1, <1>2, <1>3, <1>5, <1>6

\* What _replace makes of the attempt of the gate.
LEMMA WithAttemptIs ==
  ASSUME NEW g \in GateFile, NEW i, i.id \in Attempt, i.cycle \in Nat,
         i.head \in HeadSha \cup {NoAttempt},
         NEW p \in {"pending", "running", "awaiting-callback", "terminal"}, NEW x \in Result,
         NEW b \in BOOLEAN
  PROVE  /\ WithAttempt(g, i, p, x, b) \in GateFile
         /\ WithAttempt(g, i, p, x, b).id = i.id /\ WithAttempt(g, i, p, x, b).cycle = i.cycle
         /\ WithAttempt(g, i, p, x, b).phase = p /\ WithAttempt(g, i, p, x, b).result = x
  BY DEF WithAttempt, GateFile

\* A driver writes its own attempt over whatever the gate holds, and goes on.
LEMMA AttemptWritten ==
  ASSUME DriversInv, NEW d \in Driver, drv[d].pc \in Opening \cup Taking,
         NEW g \in GateFile, g.id = drv[d].run.id, g.cycle = drv[d].run.cycle,
         (g.phase = "terminal") = (g.result # ""), gate' = g,
         UNCHANGED <<session, answers, outbox, ledger, granted, head, commits, crashes>>,
         NEW r \in Holding, DriverKnows(r), drv' = [drv EXCEPT ![d] = r]
  PROVE  DriversInv'
  <1>1. DriverKnows(drv[d]) BY KnownOf
  <1>2. g.id \in granted /\ g.cycle \in 1..MaxCycles BY <1>1 DEF DriverKnows
  <1>3. IInv' /\ Shared' /\ LanesKnown' /\ GateKnown' /\ Grows BY <1>2, GateWritten
  <1>4. DriverKnows(r)' BY <1>3, KnowsOn
  <1>5. QED BY <1>3, <1>4, DriverGoes

\* The attempt of a driver at these points.
LEMMA RunOf ==
  ASSUME DriversInv, NEW d \in Driver, drv[d].pc \in Opening \cup Taking
  PROVE  /\ drv[d] \in Holding /\ gate \in GateFile
         /\ drv[d].run.id \in granted /\ drv[d].run.id \in Attempt
         /\ drv[d].run.cycle \in 1..MaxCycles /\ drv[d].run.cycle \in Nat
         /\ drv[d].run.head \in HeadSha \cup {NoAttempt}
  <1>1. /\ drv[d] \in Holding /\ DriverKnows(drv[d]) /\ gate \in GateFile /\ granted \subseteq Attempt
    BY KnownOf
  <1>2. drv[d].run.id \in granted /\ drv[d].run.cycle \in 1..MaxCycles BY <1>1 DEF DriverKnows
  <1>3. drv[d].run.head \in HeadSha \cup {NoAttempt} /\ drv[d].run.cycle \in Nat BY <1>1 DEF Holding
  <1>4. QED BY <1>1, <1>2, <1>3

\* The attempt runs.
LEMMA RunGoes ==
  ASSUME DriversInv, NEW d \in Driver, Run(d)
  PROVE  DriversInv'
  <1>1. drv[d].pc = "run" /\ drv[d].pc \in Opening \cup Taking BY DEF Run, Opening
  <1>2. PICK i : i = drv[d].run OBVIOUS
  <1>3. /\ drv[d] \in Holding /\ gate \in GateFile /\ i.id \in granted /\ i.id \in Attempt
        /\ i.cycle \in 1..MaxCycles /\ i.cycle \in Nat /\ i.head \in HeadSha \cup {NoAttempt}
    BY <1>1, <1>2, RunOf
  <1>4. PICK w, p, v, no : w = WithAttempt(gate, i, p, v, no) /\ p = "running" /\ v = "" /\ no = FALSE
    OBVIOUS
  <1>5. w \in GateFile /\ w.id = i.id /\ w.cycle = i.cycle /\ w.phase = "running" /\ w.result = ""
    <2>1. v \in Result /\ no \in BOOLEAN BY <1>4 DEF Result
    <2>2. p \in {"pending", "running", "awaiting-callback", "terminal"} BY <1>4
    <2>3. w \in GateFile /\ w.id = i.id /\ w.cycle = i.cycle /\ w.phase = p /\ w.result = v
      <3>1. w = WithAttempt(gate, i, p, v, no) BY <1>4
      <3>2. QED BY <1>3, <2>1, <2>2, <3>1, WithAttemptIs
    <2>4. QED BY <1>4, <2>3
  <1>6. PICK g : g = [w EXCEPT !.status = "running"] OBVIOUS
  <1>7. /\ g \in GateFile /\ g.id = i.id /\ g.cycle = i.cycle /\ g.phase = "running" /\ g.result = ""
    BY <1>5, <1>6 DEF GateFile
  <1>8. PICK r : r = [drv[d] EXCEPT !.pc = "launch"] OBVIOUS
  <1>9. r \in Holding /\ r.pc = "launch" /\ r.run = i /\ r.mine = drv[d].mine
    BY <1>2, <1>3, <1>8 DEF Holding, Point
  <1>10. /\ gate' = g /\ drv' = [drv EXCEPT ![d] = r]
         /\ UNCHANGED <<session, answers, outbox, ledger, granted, head, commits, crashes>>
    BY <1>2, <1>4, <1>6, <1>8 DEF Run, Hold, KeepLedger, KeepWorld, KeepLanes
  <1>11. DriverKnows(r)
    <2>1. drv[d].mine = {} BY <1>1, KnownOf DEF DriverKnows
    <2>2. QED BY <1>3, <1>9, <2>1 DEF DriverKnows, Lately, Opening, Taking
  <1>12. g.id = drv[d].run.id /\ g.cycle = drv[d].run.cycle
         /\ (g.phase = "terminal") = (g.result # "")
    BY <1>2, <1>7
  <1>13. QED BY <1>1, <1>7, <1>9, <1>10, <1>11, <1>12, AttemptWritten

\* A driver gives its attempt up: before a lane was opened, or with a reviewer
\* it could not clean up.
LEMMA GiveUpGoes ==
  ASSUME DriversInv, NEW d \in Driver, Fail(d) \/ Attend(d)
  PROVE  DriversInv'
  <1>1. /\ drv[d].pc \in {"fail", "attend"} /\ drv[d].pc \in Opening \cup Taking
        /\ Attend(d) => drv[d].pc = "attend"
    BY DEF Fail, Attend, Opening, Taking
  <1>2. PICK i : i = drv[d].run OBVIOUS
  <1>3. /\ drv[d] \in Holding /\ gate \in GateFile /\ i.id \in granted /\ i.id \in Attempt
        /\ i.cycle \in 1..MaxCycles /\ i.cycle \in Nat /\ i.head \in HeadSha \cup {NoAttempt}
    BY <1>1, <1>2, RunOf
  <1>4. PICK w, p, v, no : /\ w = WithAttempt(gate, i, p, v, no)
                           /\ p = "terminal" /\ v = "attention-required" /\ no = FALSE
    OBVIOUS
  <1>5. /\ w \in GateFile /\ w.id = i.id /\ w.cycle = i.cycle /\ w.phase = "terminal"
        /\ w.result = "attention-required"
    <2>1. v \in Result /\ no \in BOOLEAN BY <1>4, ResultsAre DEF Result
    <2>2. p \in {"pending", "running", "awaiting-callback", "terminal"} BY <1>4
    <2>3. w \in GateFile /\ w.id = i.id /\ w.cycle = i.cycle /\ w.phase = p /\ w.result = v
      <3>1. w = WithAttempt(gate, i, p, v, no) BY <1>4
      <3>2. QED BY <1>3, <2>1, <2>2, <3>1, WithAttemptIs
    <2>4. QED BY <1>4, <2>3
  <1>6. PICK g : g = [w EXCEPT !.status = "attention-required"] OBVIOUS
  <1>7. /\ g \in GateFile /\ g.id = i.id /\ g.cycle = i.cycle /\ g.phase = "terminal"
        /\ g.result = "attention-required" /\ g.result # ""
    BY <1>5, <1>6, ResultsAre DEF GateFile
  <1>8. PICK r : /\ r \in Holding /\ r.pc \in {"idle", "decide", "record"} /\ r.mine = {}
                 /\ drv' = [drv EXCEPT ![d] = r]
    <2>1. CASE Fail(d) BY <2>1, IdleTyped DEF Fail, Leave, Hold
    <2>2. CASE Attend(d)
      <3>1. PICK r : r = [drv[d] EXCEPT !.pc = "record"] OBVIOUS
      <3>2. drv[d].mine = {} BY <1>1, <2>2, KnownOf DEF DriverKnows
      <3>3. r \in Holding /\ r.pc = "record" /\ r.mine = {} BY <1>3, <3>1, <3>2 DEF Holding, Point
      <3>4. QED BY <2>2, <3>1, <3>3 DEF Attend, Hold
    <2>3. QED BY <2>1, <2>2
  <1>9. DriverKnows(r) BY <1>8, BetweenKnows
  <1>10. /\ gate' = g
         /\ UNCHANGED <<session, answers, outbox, ledger, granted, head, commits, crashes>>
    BY <1>2, <1>4, <1>6 DEF Fail, Attend, KeepLedger, KeepWorld, KeepLanes
  <1>11. g.id = drv[d].run.id /\ g.cycle = drv[d].run.cycle
         /\ (g.phase = "terminal") = (g.result # "")
    BY <1>2, <1>7
  <1>12. QED BY <1>1, <1>7, <1>8, <1>9, <1>10, <1>11, AttemptWritten

\* Every lane is open: the attempt waits for its callbacks.
LEMMA AwaitGoes ==
  ASSUME DriversInv, NEW d \in Driver, Await(d)
  PROVE  DriversInv'
  <1>1. drv[d].pc = "launch" /\ drv[d].pc \in Opening \cup Taking BY DEF Await, Opening
  <1>2. PICK i : i = drv[d].run OBVIOUS
  <1>3. /\ drv[d] \in Holding /\ gate \in GateFile /\ i.id \in granted /\ i.id \in Attempt
        /\ i.cycle \in 1..MaxCycles /\ i.cycle \in Nat /\ i.head \in HeadSha \cup {NoAttempt}
    BY <1>1, <1>2, RunOf
  <1>4. PICK w, p, v, no : /\ w = WithAttempt(gate, i, p, v, no)
                           /\ p = "awaiting-callback" /\ v = "" /\ no = FALSE
    OBVIOUS
  <1>5. /\ w \in GateFile /\ w.id = i.id /\ w.cycle = i.cycle /\ w.phase = "awaiting-callback"
        /\ w.result = ""
    <2>1. v \in Result /\ no \in BOOLEAN BY <1>4 DEF Result
    <2>2. p \in {"pending", "running", "awaiting-callback", "terminal"} BY <1>4
    <2>3. w \in GateFile /\ w.id = i.id /\ w.cycle = i.cycle /\ w.phase = p /\ w.result = v
      <3>1. w = WithAttempt(gate, i, p, v, no) BY <1>4
      <3>2. QED BY <1>3, <2>1, <2>2, <3>1, WithAttemptIs
    <2>4. QED BY <1>4, <2>3
  <1>6. PICK k : k = [a \in Axis |-> IF a \in Axes(i) THEN "open" ELSE "none"] OBVIOUS
  <1>7. k \in [Axis -> {"none", "open", "done"}] BY <1>6
  <1>8. PICK g : g = [w EXCEPT !.status = "reviewing", !.op = i.id, !.lanes = k] OBVIOUS
  <1>9. /\ g \in GateFile /\ g.id = i.id /\ g.cycle = i.cycle /\ g.phase = "awaiting-callback"
        /\ g.result = ""
    BY <1>3, <1>5, <1>7, <1>8 DEF GateFile
  <1>10. /\ gate' = g /\ drv' = [drv EXCEPT ![d] = Idle]
         /\ UNCHANGED <<session, answers, outbox, ledger, granted, head, commits, crashes>>
    BY <1>2, <1>4, <1>6, <1>8 DEF Await, Leave, Hold, KeepLedger, KeepWorld, KeepLanes
  <1>11. Idle \in Holding /\ DriverKnows(Idle) BY IdleTyped, BetweenKnows
  <1>12. g.id = drv[d].run.id /\ g.cycle = drv[d].run.cycle
         /\ (g.phase = "terminal") = (g.result # "")
    BY <1>2, <1>9
  <1>13. QED BY <1>1, <1>9, <1>10, <1>11, <1>12, AttemptWritten

\* The attempt is graded when the last answer is in.
LEMMA FinishGoes ==
  ASSUME DriversInv, NEW d \in Driver, Finish(d)
  PROVE  DriversInv'
  <1>1. drv[d].pc = "finish" /\ drv[d].pc \in Opening \cup Taking BY DEF Finish, Taking
  <1>2. PICK i : i = drv[d].run OBVIOUS
  <1>3. /\ drv[d] \in Holding /\ gate \in GateFile /\ i.id \in granted /\ i.id \in Attempt
        /\ i.cycle \in 1..MaxCycles /\ i.cycle \in Nat /\ i.head \in HeadSha \cup {NoAttempt}
        /\ DriverKnows(drv[d])
    BY <1>1, <1>2, RunOf, KnownOf
  <1>4. drv[d].mine = {} BY <1>1, <1>3 DEF DriverKnows
  <1>5. UNCHANGED <<session, answers, outbox, ledger, granted, head, commits, crashes>>
    BY DEF Finish, KeepLedger, KeepWorld, KeepLanes
  <1>6. CASE \E a \in Axes(i) : gate.finals[a] = ""
    <2>1. PICK r : r = [drv[d] EXCEPT !.pc = "pick"] OBVIOUS
    <2>2. r \in Holding /\ r.pc = "pick" /\ r.mine = {} /\ r.run = i
      BY <1>2, <1>3, <1>4, <2>1 DEF Holding, Point
    <2>3. drv' = [drv EXCEPT ![d] = r] /\ UNCHANGED gate
      BY <1>2, <1>6, <2>1 DEF Finish, Hold
    <2>4. DriverKnows(r) BY <1>1, <1>2, <1>3, <2>2 DEF DriverKnows, Lately, Opening, Taking
    <2>5. UNCHANGED files BY <1>5, <2>3 DEF files
    <2>6. QED BY <1>5, <2>2, <2>3, <2>4, <2>5, ReaderGoes
  <1>7. CASE ~\E a \in Axes(i) : gate.finals[a] = ""
    <2>1. PICK w, p, v, yes : /\ w = WithAttempt(gate, i, p, v, yes)
                              /\ p = "terminal" /\ v = Outcome(gate.finals, Axes(i)) /\ yes = TRUE
      OBVIOUS
    <2>2. v \in Product \cup Mechanism BY <2>1, ResultsAre DEF Outcome
    <2>3. v # "" /\ v \in Result /\ yes \in BOOLEAN BY <2>1, <2>2, ResultsAre DEF Result
    <2>4. w \in GateFile /\ w.id = i.id /\ w.cycle = i.cycle /\ w.phase = "terminal" /\ w.result = v
      <3>1. p \in {"pending", "running", "awaiting-callback", "terminal"} BY <2>1
      <3>2. w \in GateFile /\ w.id = i.id /\ w.cycle = i.cycle /\ w.phase = p /\ w.result = v
        <4>1. w = WithAttempt(gate, i, p, v, yes) BY <2>1
        <4>2. v \in Result /\ yes \in BOOLEAN BY <2>3
        <4>3. gate \in GateFile /\ i.id \in Attempt /\ i.cycle \in Nat /\ i.head \in HeadSha \cup {NoAttempt}
          BY <1>3
        <4>4. QED BY <3>1, <4>1, <4>2, <4>3, WithAttemptIs
      <3>3. QED BY <2>1, <3>2
    <2>5. PICK g : g = [w EXCEPT !.status = v] OBVIOUS
    <2>6. g \in GateFile /\ g.id = i.id /\ g.cycle = i.cycle /\ g.phase = "terminal" /\ g.result = v
      BY <2>2, <2>4, <2>5 DEF GateFile
    <2>7. PICK r : r = [drv[d] EXCEPT !.pc = "record"] OBVIOUS
    <2>8. r \in Holding /\ r.pc = "record" /\ r.mine = {} BY <1>3, <1>4, <2>7 DEF Holding, Point
    <2>9. DriverKnows(r) BY <2>8, BetweenKnows
    <2>10. gate' = g /\ drv' = [drv EXCEPT ![d] = r]
      BY <1>2, <1>7, <2>1, <2>5, <2>7 DEF Finish, Hold
    <2>11. g.id = drv[d].run.id /\ g.cycle = drv[d].run.cycle
           /\ (g.phase = "terminal") = (g.result # "")
      BY <1>2, <2>3, <2>6
    <2>12. QED BY <1>1, <1>5, <2>6, <2>8, <2>9, <2>10, <2>11, AttemptWritten
  <1>8. QED BY <1>6, <1>7

\* Lanes and results are put back with the answer.
LEMMA WriteResultsGoes ==
  ASSUME DriversInv, NEW d \in Driver, WriteResults(d)
  PROVE  DriversInv'
  <1>1. drv[d].pc = "write" /\ drv[d].pc \in Taking BY DEF WriteResults, Taking
  <1>2. PICK q : q = drv[d] OBVIOUS
  <1>3. /\ q \in Holding /\ DriverKnows(q) /\ gate \in GateFile /\ GateKnown /\ q.seen \in GateFile
    BY <1>2, KnownOf DEF Holding
  <1>4. Exists(gate) /\ q.mine = {} BY <1>1, <1>2, <1>3 DEF DriverKnows
  <1>5. PICK g : g = [gate EXCEPT !.status = "reviewing", !.lanes = q.seen.lanes,
                                  !.finals = q.seen.finals]
    OBVIOUS
  <1>6. /\ g \in GateFile /\ g.id = gate.id /\ g.cycle = gate.cycle
        /\ g.phase = gate.phase /\ g.result = gate.result
    BY <1>3, <1>5 DEF GateFile
  <1>7. PICK r : r = [q EXCEPT !.pc = "finish", !.seen = NoGate] OBVIOUS
  <1>8. r \in Holding /\ r.pc = "finish" /\ r.mine = {} /\ r.run = q.run
    BY <1>3, <1>4, <1>7, NoGateTyped DEF Holding, Point
  <1>9. /\ gate' = g /\ drv' = [drv EXCEPT ![d] = r]
        /\ UNCHANGED <<session, answers, outbox, ledger, granted, head, commits, crashes>>
    BY <1>2, <1>5, <1>7 DEF WriteResults, Hold, KeepLedger, KeepWorld, KeepLanes
  <1>10. /\ g.id \in granted /\ g.cycle \in 1..MaxCycles /\ (g.phase = "terminal") = (g.result # "")
    BY <1>3, <1>4, <1>6 DEF GateKnown
  <1>11. IInv' /\ Shared' /\ LanesKnown' /\ GateKnown' /\ Grows BY <1>6, <1>9, <1>10, GateWritten
  <1>12. DriverKnows(r)
    BY <1>1, <1>2, <1>3, <1>4, <1>8 DEF DriverKnows, Lately, Opening, Taking
  <1>13. DriverKnows(r)' BY <1>8, <1>11, <1>12, KnowsOn
  <1>14. QED BY <1>8, <1>9, <1>11, <1>13, DriverGoes

\* The attempt of an answer is opened again, if nobody wrote the gate since.
LEMMA ReopenGoes ==
  ASSUME DriversInv, NEW d \in Driver, Reopen(d)
  PROVE  DriversInv'
  <1>1. PICK q : q = drv[d] OBVIOUS
  <1>2. /\ q \in Holding /\ DriverKnows(q) /\ gate \in GateFile /\ q.pc = "reopen"
        /\ granted \subseteq Attempt
    BY <1>1, KnownOf DEF Reopen
  <1>3. /\ q.head \in HeadSha /\ q.seen.id \in granted /\ q.seen.cycle \in 1..MaxCycles
        /\ q.mine = {} /\ q.axis \in Axis
    BY <1>2 DEF DriverKnows, Lately, Holding
  <1>4. UNCHANGED <<session, answers, outbox, ledger, granted, head, commits, crashes>>
    BY DEF Reopen, KeepLedger, KeepWorld, KeepLanes
  <1>5. CASE gate # q.seen
    <2>1. UNCHANGED gate /\ drv' = [drv EXCEPT ![d] = Idle]
      BY <1>1, <1>5 DEF Reopen, Leave, Hold
    <2>2. UNCHANGED files BY <1>4, <2>1 DEF files
    <2>3. QED BY <1>4, <2>1, <2>2, LeaverGoes
  <1>6. CASE gate = q.seen
    <2>1. PICK g : g = Reopened(gate, q.axis) OBVIOUS
    <2>2. PICK x : x = [NoRequest(q.head) EXCEPT !.attempt = g.id, !.recover = TRUE] OBVIOUS
    <2>3. PICK r : r = [q EXCEPT !.pc = "reserve", !.seen = g, !.cycle = g.cycle, !.q = x]
      OBVIOUS
    <2>4. gate' = g /\ drv' = [drv EXCEPT ![d] = r]
      BY <1>1, <1>6, <2>1, <2>2, <2>3 DEF Reopen, Hold
    <2>5. /\ g \in GateFile /\ g.id = gate.id /\ g.cycle = gate.cycle
          /\ g.phase = "awaiting-callback" /\ g.result = ""
      BY <1>2, <1>3, <2>1 DEF Reopened, GateFile, Result
    <2>6. IInv' /\ Shared' /\ LanesKnown' /\ GateKnown' /\ Grows
      BY <1>3, <1>4, <1>6, <2>4, <2>5, GateWritten
    <2>7. x \in Asked /\ x \in Request
      <3>1. g.id \in Attempt BY <1>2, <1>3, <1>6, <2>5
      <3>2. PICK n : n = NoRequest(q.head) OBVIOUS
      <3>3. n \in Asked /\ n.head = q.head BY <1>3, <3>2, NoRequestTyped
      <3>4. x = [n EXCEPT !.attempt = g.id, !.recover = TRUE] BY <2>2, <3>2
      <3>5. x \in Asked /\ x.attempt = g.id /\ x.head = q.head
        BY <3>1, <3>3, <3>4 DEF Asked
      <3>6. QED BY <1>3, <3>1, <3>5, RequestTyped
    <2>8. r \in Holding /\ r.pc = "reserve" /\ r.q = x /\ r.mine = {}
      <3>1. g.cycle \in Nat BY <2>5 DEF GateFile
      <3>2. QED BY <1>2, <1>3, <2>3, <2>5, <2>7, <3>1 DEF Holding, Point
    <2>9. DriverKnows(r) BY <2>7, <2>8 DEF DriverKnows, Lately, Opening, Taking
    <2>10. DriverKnows(r)' BY <2>6, <2>8, <2>9, KnowsOn
    <2>11. QED BY <2>4, <2>6, <2>8, <2>10, DriverGoes
  <1>7. QED BY <1>5, <1>6

\* A reserved attempt becomes the gate's, or was already, or the driver leaves.
LEMMA InitializeGoes ==
  ASSUME DriversInv, NEW d \in Driver, Initialize(d)
  PROVE  DriversInv'
  <1>1. PICK q : q = drv[d] OBVIOUS
  <1>2. /\ q \in Holding /\ DriverKnows(q) /\ q.pc = "initialize" /\ granted \subseteq Attempt
    BY <1>1, KnownOf DEF Initialize
  <1>3. q.q.attempt \in granted /\ q.q.attempt \in Attempt /\ q.cycle \in 1..MaxCycles
        /\ q.cycle \in Nat /\ q.mine = {} /\ q.head \in HeadSha \cup {NoAttempt}
    BY <1>2 DEF DriverKnows, Holding
  <1>4. UNCHANGED <<session, answers, outbox, ledger, granted, head, commits, crashes>>
    BY DEF Initialize, KeepLedger, KeepWorld, KeepLanes
  <1>5. PICK g : g = FreshGate(q.q.attempt, q.cycle, q.head) OBVIOUS
  <1>6. /\ g \in GateFile /\ g.id = q.q.attempt /\ g.cycle = q.cycle
        /\ g.phase = "pending" /\ g.result = ""
    BY <1>3, <1>5, EmptyTyped DEF FreshGate, GateFile, Result
  <1>7. Identity(g).id = q.q.attempt /\ Identity(g).cycle = q.cycle
    BY <1>6 DEF Identity
  <1>8. PICK i : i = Identity(g) OBVIOUS
  <1>9. i \in [id : Attempt \cup {NoAttempt}, cycle : Nat, head : HeadSha \cup {NoAttempt}]
    BY <1>6, <1>8, IdentityTyped
  <1>10. PICK r : r = [q EXCEPT !.pc = "run", !.run = i] OBVIOUS
  <1>11. r \in Holding /\ r.pc = "run" /\ r.mine = {} /\ r.run = i
    BY <1>2, <1>3, <1>9, <1>10 DEF Holding, Point
  <1>12. DriverKnows(r)
    BY <1>3, <1>7, <1>8, <1>11 DEF DriverKnows, Lately, Opening, Taking
  <1>13. \/ gate' = g /\ drv' = [drv EXCEPT ![d] = r]
         \/ UNCHANGED gate /\ drv' = [drv EXCEPT ![d] = r]
         \/ UNCHANGED gate /\ drv' = [drv EXCEPT ![d] = Idle]
    BY <1>1, <1>5, <1>8, <1>10 DEF Initialize, Leave, Hold
  <1>14. CASE gate' = g /\ drv' = [drv EXCEPT ![d] = r]
    <2>1. IInv' /\ Shared' /\ LanesKnown' /\ GateKnown' /\ Grows
      BY <1>3, <1>4, <1>6, <1>14, GateWritten
    <2>2. DriverKnows(r)' BY <1>11, <1>12, <2>1, KnowsOn
    <2>3. QED BY <1>11, <1>14, <2>1, <2>2, DriverGoes
  <1>15. CASE UNCHANGED gate
    <2>1. UNCHANGED files BY <1>4, <1>15 DEF files
    <2>2. CASE drv' = [drv EXCEPT ![d] = r] BY <1>4, <1>11, <1>12, <2>1, <2>2, ReaderGoes
    <2>3. CASE drv' = [drv EXCEPT ![d] = Idle] BY <1>4, <2>1, <2>3, LeaverGoes
    <2>4. QED BY <1>13, <1>14, <2>2, <2>3
  <1>16. QED BY <1>13, <1>14, <1>15

-----------------------------------------------------------------------------
(* The steps that call the ledger.                                         *)

\* A call authorizes, and takes no authorization back.
LEMMA CallGrows ==
  ASSUME [AnyCall]_ledgerVars
  PROVE  granted \subseteq granted'
  <1>1. CASE \E q \in Request : Reserve(q) \/ RecoverAttention(q)
    BY <1>1 DEF Reserve, RecoverAttention
  <1>2. CASE ~\E q \in Request : Reserve(q) \/ RecoverAttention(q)
    BY <1>2 DEF AnyCall, RecordMechanism, RecordProduct, ledgerVars
  <1>3. QED BY <1>1, <1>2

\* A call, with or without making room for callback files, leaves what is known.
LEMMA Called ==
  ASSUME DriversInv, [AnyCall]_ledgerVars,
         UNCHANGED <<gate, session, answers, head, commits, crashes>>,
         NEW g, outbox' \in {outbox, Vacated(g)}
  PROVE  IInv' /\ Shared' /\ LanesKnown' /\ GateKnown' /\ Grows
  <1>1. IInv /\ Shared /\ LanesKnown /\ GateKnown BY DEF DriversInv
  <1>2. IInv' BY <1>1, StepKeeps
  <1>3. granted \subseteq granted' BY CallGrows
  <1>4. /\ outbox' \in [Axis -> Post]
        /\ \A a \in Axis : outbox'[a].op # NoAttempt => outbox'[a].answer \in Verdict
    <2>1. /\ outbox \in [Axis -> Post]
          /\ \A a \in Axis : outbox[a].op # NoAttempt => outbox[a].answer \in Verdict
      BY <1>1 DEF Shared, LanesKnown
    <2>2. NoPost \in Post /\ NoPost.op = NoAttempt BY DEF NoPost, Post
    <2>3. QED BY <2>1, <2>2 DEF Vacated
  <1>5. Shared' BY <1>1, <1>4 DEF Shared
  <1>6. LanesKnown' BY <1>1, <1>3, <1>4 DEF LanesKnown
  <1>7. GateKnown' BY <1>1, <1>3 DEF GateKnown, Exists
  <1>8. Grows BY <1>3 DEF Grows, Exists
  <1>9. QED BY <1>2, <1>5, <1>6, <1>7, <1>8

\* A driver that calls goes on with what it knows.
LEMMA CallerGoes ==
  ASSUME DriversInv, [AnyCall]_ledgerVars,
         UNCHANGED <<gate, session, answers, head, commits, crashes>>,
         NEW g \in GateFile, outbox' \in {outbox, Vacated(g)},
         NEW d \in Driver, NEW r \in Holding, DriverKnows(r), drv' = [drv EXCEPT ![d] = r]
  PROVE  DriversInv'
  <1>1. IInv' /\ Shared' /\ LanesKnown' /\ GateKnown' /\ Grows BY Called
  <1>2. DriverKnows(r)' BY <1>1, KnowsOn
  <1>3. QED BY <1>1, <1>2, DriverGoes

\* Recording a result of an attempt is a call.
LEMMA RecordingCalls ==
  ASSUME NEW id \in Attempt, NEW result, RecordTerminal(id, result)
  PROVE  AnyCall
  BY DEF RecordTerminal, AnyCall

\* A step that keeps the ledger makes no call.
LEMMA NoCall ==
  ASSUME KeepLedger
  PROVE  [AnyCall]_ledgerVars
  BY DEF KeepLedger, ledgerVars

\* An authorized attempt has a number within the budget.
LEMMA NumberOf ==
  ASSUME IInv, NEW id \in granted
  PROVE  CycleOf(id) \in 1..MaxCycles
  <1>1. Good(ledger) /\ ledger \in Ledger /\ granted = Identities(ledger)
    BY DEF IInv, Good, AccountedFor
  <1>2. /\ DOMAIN ledger.cycles = 1..Len(ledger.cycles) /\ Len(ledger.cycles) \in Nat
        /\ DOMAIN ledger.attempts = 1..Len(ledger.attempts)
        /\ Len(ledger.cycles) <= MaxCycles /\ MaxCycles \in Nat
    BY <1>1, LedgerParts, AxesAre DEF Good, Well
  <1>3. CASE \E i \in DOMAIN ledger.cycles : ledger.cycles[i].attempt = id
    <2>1. PICK i \in 1..Len(ledger.cycles) : ledger.cycles[i].attempt = id BY <1>2, <1>3
    <2>2. Place(ledger, id, i) BY <2>1 DEF Place
    <2>3. CycleOf(id) = i BY <2>2, CycleOfIs
    <2>4. QED BY <1>2, <2>1, <2>3
  <1>4. CASE \E j \in DOMAIN ledger.attempts : ledger.attempts[j].attempt = id
    <2>1. PICK j \in 1..Len(ledger.attempts) : ledger.attempts[j].attempt = id BY <1>2, <1>4
    <2>2. PICK c : c = ledger.attempts[j].cycle OBVIOUS
    <2>3. Place(ledger, id, c) BY <2>1, <2>2 DEF Place
    <2>4. CycleOf(id) = c BY <2>3, CycleOfIs
    <2>5. ledger.attempts[j] \in Receipt BY <1>1, <1>2, <2>1, LedgerParts DEF Ledger
    <2>6. c \in 1..MaxCycles BY <2>2, <2>5 DEF Receipt
    <2>7. QED BY <2>4, <2>6
  <1>5. QED BY <1>1, <1>3, <1>4 DEF Identities

\* The attempt a driver has seen ended is settled with the ledger.
LEMMA SettleGoes ==
  ASSUME DriversInv, NEW d \in Driver, Settle(d)
  PROVE  DriversInv' /\ [AnyCall]_ledgerVars
  <1>1. PICK q : q = drv[d] OBVIOUS
  <1>2. /\ q \in Holding /\ DriverKnows(q) /\ q.pc = "settle" /\ granted \subseteq Attempt
    BY <1>1, KnownOf DEF Settle
  <1>3. /\ q.head \in HeadSha /\ q.seen.id \in granted /\ q.seen.cycle \in 1..MaxCycles
        /\ q.mine = {} /\ q.seen.id \in Attempt
    BY <1>2 DEF DriverKnows, Lately
  <1>4. PICK r : r = [q EXCEPT !.pc = "succeed"] OBVIOUS
  <1>5. /\ r \in Holding /\ r.pc = "succeed" /\ r.mine = {} /\ r.head = q.head /\ r.seen = q.seen
    BY <1>2, <1>3, <1>4 DEF Holding, Point
  <1>6. DriverKnows(r) BY <1>3, <1>5 DEF DriverKnows, Lately, Opening, Taking
  <1>0. PICK g \in GateFile : g = q.seen BY <1>2 DEF Holding
  <1>7. /\ UNCHANGED <<gate, session, answers, head, commits, crashes>>
        /\ outbox' \in {outbox, Vacated(g)}
        /\ drv' = [drv EXCEPT ![d] = Idle] \/ drv' = [drv EXCEPT ![d] = r]
        /\ KeepLedger \/ RecordTerminal(g.id, g.result)
    BY <1>1, <1>4, <1>0 DEF Settle, Leave, Hold, KeepWorld
  <1>8. [AnyCall]_ledgerVars BY <1>3, <1>0, <1>7, RecordingCalls, NoCall
  <1>9. Idle \in Holding /\ DriverKnows(Idle) BY IdleTyped, BetweenKnows
  <1>10. CASE drv' = [drv EXCEPT ![d] = Idle] BY <1>7, <1>8, <1>9, <1>10, CallerGoes
  <1>11. CASE drv' = [drv EXCEPT ![d] = r] BY <1>5, <1>6, <1>7, <1>8, <1>11, CallerGoes
  <1>12. QED BY <1>7, <1>8, <1>10, <1>11

\* The result of whatever attempt the gate holds is recorded.
LEMMA RecordGoes ==
  ASSUME DriversInv, NEW d \in Driver, Record(d)
  PROVE  DriversInv' /\ [AnyCall]_ledgerVars
  <1>1. GateKnown /\ granted \subseteq Attempt BY KnownOf
  <1>2. PICK r : r = [Idle EXCEPT !.pc = "decide"] OBVIOUS
  <1>3. r \in Holding /\ r.pc = "decide" /\ r.mine = {} BY <1>2, IdleTyped DEF Holding, Point
  <1>4. Idle \in Holding /\ DriverKnows(Idle) /\ DriverKnows(r)
    BY <1>3, IdleTyped, BetweenKnows
  <1>5. /\ UNCHANGED <<gate, session, answers, head, commits, crashes>> /\ UNCHANGED outbox
        /\ drv' = [drv EXCEPT ![d] = r] \/ drv' = [drv EXCEPT ![d] = Idle]
        /\ \/ KeepLedger
           \/ gate.phase = "terminal" /\ RecordTerminal(gate.id, gate.result)
    BY <1>2 DEF Record, Leave, Hold, KeepWorld, KeepLanes
  <1>6. gate.phase = "terminal" => gate.id \in Attempt
    <2>1. gate.phase = "terminal" => Exists(gate) BY <1>1, NoGateTyped DEF GateKnown
    <2>2. QED BY <1>1, <2>1 DEF GateKnown
  <1>7. [AnyCall]_ledgerVars BY <1>5, <1>6, RecordingCalls, NoCall
  <1>8. outbox' \in {outbox, Vacated(gate)} /\ gate \in GateFile BY <1>5, KnownOf
  <1>9. CASE drv' = [drv EXCEPT ![d] = r] BY <1>3, <1>4, <1>5, <1>7, <1>8, <1>9, CallerGoes
  <1>10. CASE drv' = [drv EXCEPT ![d] = Idle] BY <1>4, <1>5, <1>7, <1>8, <1>10, CallerGoes
  <1>11. QED BY <1>5, <1>7, <1>9, <1>10

\* A successor is asked for with a number the ledger has given.
LEMMA SucceedGoes ==
  ASSUME DriversInv, NEW d \in Driver, Succeed(d)
  PROVE  DriversInv'
  <1>1. PICK q : q = drv[d] OBVIOUS
  <1>2. /\ q \in Holding /\ DriverKnows(q) /\ q.pc = "succeed" /\ granted \subseteq Attempt /\ IInv
    BY <1>1, KnownOf DEF Succeed
  <1>3. /\ q.head \in HeadSha /\ q.seen.id \in granted /\ q.mine = {} /\ q.seen.id \in Attempt
    BY <1>2 DEF DriverKnows, Lately
  <1>4. PICK n : n = CycleOf(q.seen.id) OBVIOUS
  <1>5. n \in 1..MaxCycles BY <1>2, <1>3, <1>4, NumberOf
  <1>6. PICK s : s = Successor(q.seen, q.head) OBVIOUS
  <1>7. s.q \in Asked /\ s.q \in Request /\ s.cycle \in Nat
    BY <1>3, <1>4, <1>5, <1>6, SuccessorIs
  <1>8. PICK r : r = [q EXCEPT !.pc = "reserve", !.cycle = s.cycle, !.q = s.q] OBVIOUS
  <1>9. r \in Holding /\ r.pc = "reserve" /\ r.mine = {} /\ r.q = s.q
    BY <1>2, <1>3, <1>7, <1>8 DEF Holding, Point
  <1>10. DriverKnows(r) BY <1>7, <1>9 DEF DriverKnows, Lately, Opening, Taking
  <1>0. PICK g \in GateFile : g = q.seen BY <1>2 DEF Holding
  <1>11. /\ UNCHANGED <<gate, session, answers, head, commits, crashes>> /\ KeepLedger
         /\ outbox' \in {outbox, Vacated(g)}
         /\ drv' = [drv EXCEPT ![d] = Idle] \/ drv' = [drv EXCEPT ![d] = r]
    BY <1>1, <1>6, <1>8, <1>0 DEF Succeed, Leave, Hold, KeepWorld
  <1>12. [AnyCall]_ledgerVars BY <1>11, NoCall
  <1>13. Idle \in Holding /\ DriverKnows(Idle) BY IdleTyped, BetweenKnows
  <1>14. CASE drv' = [drv EXCEPT ![d] = Idle] BY <1>11, <1>12, <1>13, <1>14, CallerGoes
  <1>15. CASE drv' = [drv EXCEPT ![d] = r] BY <1>9, <1>10, <1>11, <1>12, <1>15, CallerGoes
  <1>16. QED BY <1>11, <1>14, <1>15

\* An attempt the ledger has a cycle for, or has a receipt of, is authorized.
LEMMA PlacedIsGranted ==
  ASSUME IInv, NEW id, InCycles(ledger, id) \/ IsLastReceipt(ledger, id)
  PROVE  id \in granted
  <1>1. ledger \in Ledger /\ granted = Identities(ledger) BY DEF IInv, Good, AccountedFor
  <1>2. Len(ledger.attempts) \in Nat BY <1>1, LedgerParts
  <1>3. IsLastReceipt(ledger, id) => InReceipts(ledger, id) BY <1>1, <1>2, Conditions
  <1>4. QED BY <1>1, <1>3, Conditions

\* A driver reserves, and goes on only with an attempt the ledger has authorized
\* and with the number it has given it.
LEMMA ReserveCycleGoes ==
  ASSUME DriversInv, NEW d \in Driver, ReserveCycle(d)
  PROVE  DriversInv' /\ [AnyCall]_ledgerVars
  <1>1. PICK x : x = drv[d] OBVIOUS
  <1>2. /\ x \in Holding /\ DriverKnows(x) /\ x.pc = "reserve" /\ IInv /\ gate \in GateFile
    BY <1>1, KnownOf DEF ReserveCycle
  <1>3. x.q \in Request /\ x.mine = {} BY <1>2 DEF DriverKnows
  <1>4. PICK q \in Request : q = x.q BY <1>3
  <1>5. PICK r : r = [x EXCEPT !.pc = "enter"] OBVIOUS
  <1>6. r \in Holding /\ r.pc = "enter" /\ r.mine = {} /\ r.q = q /\ r.cycle = x.cycle
    BY <1>2, <1>3, <1>4, <1>5 DEF Holding, Point
  <1>7. UNCHANGED <<gate, session, answers, head, commits, crashes>> /\ UNCHANGED outbox
    BY DEF ReserveCycle, KeepWorld, KeepLanes
  <1>8. \/ /\ Reserve(q) \/ RecoverAttention(q)
           /\ \/ NextNumber(ledger) = r.cycle /\ drv' = [drv EXCEPT ![d] = r]
              \/ drv' = [drv EXCEPT ![d] = Idle]
        \/ /\ Known(ledger, q) /\ CycleOf(q.attempt) = r.cycle /\ KeepLedger
           /\ drv' = [drv EXCEPT ![d] = r]
        \/ drv' = [drv EXCEPT ![d] = Idle] /\ KeepLedger
    BY <1>1, <1>4, <1>5, <1>6 DEF ReserveCycle, Leave, Hold
  <1>9. [AnyCall]_ledgerVars
    <2>1. CASE Reserve(q) \/ RecoverAttention(q) BY <2>1 DEF AnyCall
    <2>2. CASE KeepLedger BY <2>2, NoCall
    <2>3. QED BY <1>8, <2>1, <2>2
  <1>10. outbox' \in {outbox, Vacated(gate)} BY <1>7
  <1>11. IInv' /\ Shared' /\ LanesKnown' /\ GateKnown' /\ Grows BY <1>2, <1>7, <1>9, <1>10, Called
  <1>12. CASE drv' = [drv EXCEPT ![d] = Idle]
    <2>1. Idle \in Holding /\ DriverKnows(Idle) BY IdleTyped, BetweenKnows
    <2>2. QED BY <1>2, <1>7, <1>9, <1>10, <1>12, <2>1, CallerGoes
  <1>13. q.attempt \in granted' /\ r.cycle \in 1..MaxCycles => DriverKnows(r)'
    BY <1>6 DEF DriverKnows, Lately, Opening, Taking
  <1>14. Len(ledger.cycles) \in Nat /\ MaxCycles \in Nat
    BY <1>2, LedgerParts, AxesAre DEF IInv, Good
  <1>15. CASE /\ Reserve(q) /\ NextNumber(ledger) = r.cycle
              /\ drv' = [drv EXCEPT ![d] = r]
    <2>1. Len(ledger.cycles) < MaxCycles BY <1>2, <1>15, ReserveStep
    <2>2. q.attempt \in granted' BY <1>15 DEF Reserve
    <2>3. r.cycle \in 1..MaxCycles BY <1>14, <1>15, <2>1 DEF NextNumber
    <2>4. DriverKnows(r)' BY <1>13, <2>2, <2>3
    <2>5. drv' = [drv EXCEPT ![d] = r] BY <1>15
    <2>6. QED BY <1>6, <1>9, <1>11, <2>4, <2>5, DriverGoes
  <1>16. CASE /\ RecoverAttention(q) /\ NextNumber(ledger) = r.cycle
              /\ drv' = [drv EXCEPT ![d] = r]
    <2>1. Len(ledger.cycles) < MaxCycles /\ IsLastReceipt(ledger, q.attempt)
      BY <1>2, <1>16, RecoverStep
    <2>2. q.attempt \in granted BY <1>2, <2>1, PlacedIsGranted
    <2>3. q.attempt \in granted' BY <1>16, <2>2 DEF RecoverAttention
    <2>4. r.cycle \in 1..MaxCycles BY <1>14, <1>16, <2>1 DEF NextNumber
    <2>5. DriverKnows(r)' BY <1>13, <2>3, <2>4
    <2>6. drv' = [drv EXCEPT ![d] = r] BY <1>16
    <2>7. QED BY <1>6, <1>9, <1>11, <2>5, <2>6, DriverGoes
  <1>17. CASE /\ Known(ledger, q) /\ CycleOf(q.attempt) = r.cycle /\ KeepLedger
              /\ drv' = [drv EXCEPT ![d] = r]
    <2>1. InCycles(ledger, q.attempt) BY <1>17 DEF Known, InCycles
    <2>2. q.attempt \in granted BY <1>2, <2>1, PlacedIsGranted
    <2>3. r.cycle \in 1..MaxCycles BY <1>2, <1>17, <2>2, NumberOf
    <2>4. q.attempt \in granted' BY <1>17, <2>2 DEF KeepLedger
    <2>5. DriverKnows(r)' BY <1>13, <2>3, <2>4
    <2>6. drv' = [drv EXCEPT ![d] = r] BY <1>17
    <2>7. QED BY <1>6, <1>9, <1>11, <2>5, <2>6, DriverGoes
  <1>18. QED BY <1>8, <1>9, <1>12, <1>15, <1>16, <1>17

-----------------------------------------------------------------------------
(* The invariant holds for any number of drivers.                          *)

\* No driver runs, and there is nothing to know.
LEMMA InitialDrivers == Init => DriversInv
  <1> SUFFICES ASSUME Init PROVE DriversInv OBVIOUS
  <1>1. /\ LedgerInit /\ head \in HeadSha /\ gate = NoGate /\ session = [a \in Axis |-> NoSession]
        /\ answers = {} /\ outbox = [a \in Axis |-> NoPost] /\ drv = [d \in Driver |-> Idle]
        /\ commits = 0 /\ crashes = 0
    BY DEF Init
  <1>2. IInv BY <1>1, InitGood
  <1>3. NoSession \in Lane /\ NoPost \in Post BY DEF NoSession, NoPost, Lane, Post
  <1>4. Shared BY <1>1, <1>3, NoGateTyped DEF Shared
  <1>5. LanesKnown BY <1>1 DEF LanesKnown, NoSession, NoPost
  <1>6. GateKnown BY <1>1, NoGateTyped DEF GateKnown, Exists
  <1>7. \A d \in Driver : drv[d] = Idle /\ drv[d] \in Holding BY <1>1, IdleTyped
  <1>8. DriverKnows(Idle) BY IdleTyped, BetweenKnows
  <1>9. \A d \in Driver : DriverKnows(drv[d]) BY <1>7, <1>8
  <1>10. drv \in [Driver -> Holding] BY <1>1, IdleTyped
  <1>11. QED BY <1>2, <1>4, <1>5, <1>6, <1>9, <1>10 DEF DriversInv

\* Every step keeps the invariant, whoever else runs, and asks of the ledger only
\* what its callers may ask.
LEMMA DriversSteps ==
  ASSUME DriversInv, [Next]_gateVars
  PROVE  DriversInv' /\ [AnyCall]_ledgerVars
  <1>1. CASE UNCHANGED gateVars
    <2>1. UNCHANGED files /\ UNCHANGED <<head, drv, commits, crashes>>
      BY <1>1 DEF gateVars, files
    <2>2. UNCHANGED <<gate, session, answers, outbox, ledger, granted>> BY <2>1 DEF files
    <2>3. Shared' BY <2>1, <2>2 DEF DriversInv, Shared
    <2>4. DriversInv' BY <2>1, <2>3, FilesLeft, DriversStay
    <2>5. [AnyCall]_ledgerVars BY <2>2 DEF ledgerVars
    <2>6. QED BY <2>4, <2>5
  <1>2. CASE Environment
    <2>1. DriversInv'
      BY <1>2, CommitGoes, AnswerGoes, WorkerAcceptsGoes, ParentGoes DEF Environment
    <2>2. UNCHANGED ledgerVars
      BY <1>2 DEF Environment, Commit, Answer, WorkerAccepts, WaitRunsOut, Retire, ledgerVars
    <2>3. QED BY <2>1, <2>2
  <1>3. ASSUME NEW d \in Driver, DriverStep(d) \/ Crash(d) PROVE DriversInv' /\ [AnyCall]_ledgerVars
    <2>1. CASE Settle(d) \/ ReserveCycle(d) \/ Record(d)
      BY <2>1, SettleGoes, ReserveCycleGoes, RecordGoes
    <2>2. CASE Observe(d) \/ Decide(d) \/ Enter(d) \/ Picked(d) \/ ReadResults(d) \/ Crash(d)
      <3>1. DriversInv'
        BY <2>2, ObserveGoes, DecideGoes, EnterGoes, PickedGoes, ReadResultsGoes, CrashGoes
      <3>2. KeepLedger
        BY <2>2 DEF Observe, Decide, Enter, Picked, ReadResults, Crash, ReadOnly, KeepLedger
      <3>3. QED BY <3>1, <3>2, NoCall
    <2>3. CASE Succeed(d) \/ Reopen(d) \/ Initialize(d) \/ Run(d) \/ Fail(d) \/ Await(d)
      <3>1. DriversInv'
        BY <2>3, SucceedGoes, ReopenGoes, InitializeGoes, RunGoes, GiveUpGoes, AwaitGoes
      <3>2. KeepLedger BY <2>3 DEF Succeed, Reopen, Initialize, Run, Fail, Await
      <3>3. QED BY <3>1, <3>2, NoCall
    <2>4. CASE Attend(d) \/ WriteResults(d) \/ Finish(d)
      <3>1. DriversInv' BY <2>4, GiveUpGoes, WriteResultsGoes, FinishGoes
      <3>2. KeepLedger BY <2>4 DEF Attend, WriteResults, Finish
      <3>3. QED BY <3>1, <3>2, NoCall
    <2>5. CASE Recover(d) \/ Launch(d) \/ LaunchFails(d) \/ Pick(d) \/ Clean(d)
      <3>1. DriversInv' BY <2>5, RecoverGoes, LaunchGoes, LaunchFailsGoes, PickGoes, CleanGoes
      <3>2. KeepLedger BY <2>5 DEF Recover, Launch, LaunchFails, Pick, Clean
      <3>3. QED BY <3>1, <3>2, NoCall
    <2>6. QED BY Zenon, <1>3, <2>1, <2>2, <2>3, <2>4, <2>5 DEF DriverStep
  <1>4. QED BY <1>1, <1>2, <1>3 DEF Next

\* Whatever any number of drivers does, and whenever they crash, the invariant holds
\* in every state.
THEOREM DriversInvariance == Spec => []DriversInv
  BY InitialDrivers, DriversSteps, PTL DEF Spec

\* However many drivers run review at once, the ledger behind the gate is only ever
\* called as a ledger may be: every request they make names an attempt and a HEAD the
\* ledger's own theorems are about, and no result is recorded for anything else.
THEOREM GateOnlyCalls == Spec => AnyCalls
  <1>1. Init => LedgerInit BY DEF Init
  <1>2. DriversInv /\ [Next]_gateVars => [AnyCall]_ledgerVars BY DriversSteps
  <1>3. QED BY <1>1, <1>2, DriversInvariance, PTL DEF Spec, AnyCalls

-----------------------------------------------------------------------------
(* What follows, for any number of drivers.                                *)

\* Gate, lanes and ledger have the stated types, whoever writes them.
THEOREM GateTyped == Spec => []GateTypeOK
  <1>1. DriversInv => GateTypeOK
    <2> SUFFICES ASSUME DriversInv PROVE GateTypeOK OBVIOUS
    <2>1. LedgerTypeOK BY InvariantParts DEF DriversInv
    <2>2. gate \in GateFile /\ session \in [Axis -> Lane] /\ head \in HeadSha BY DEF DriversInv, Shared
    <2>3. (gate.phase = "terminal") = (gate.result # "") BY DEF DriversInv, GateKnown
    <2>4. QED BY <2>1, <2>2, <2>3 DEF GateTypeOK, GateFile, Lane, Result
  <1>2. QED BY <1>1, DriversInvariance, PTL

\* No reviewer is started for an attempt the ledger did not authorize, even by a
\* driver whose gate another one has replaced in between.
THEOREM LanesAuthorized == Spec => []ReservedBeforeEffect
  <1>1. DriversInv => ReservedBeforeEffect BY DEF DriversInv, LanesKnown, ReservedBeforeEffect
  <1>2. QED BY <1>1, DriversInvariance, PTL

\* The ledger behind the gate stays readable, accounts for every attempt it has
\* authorized, and says so when its budget is spent.
THEOREM GateKeepsLedger ==
  Spec => [](Readable /\ AccountedFor /\ SpentHasDisposition /\ ApprovalReopenedByAttempt
             /\ RetriesFormChain)
  <1>1. DriversInv => /\ Readable /\ AccountedFor /\ SpentHasDisposition
                      /\ ApprovalReopenedByAttempt /\ RetriesFormChain
    BY InvariantParts DEF DriversInv
  <1>2. QED BY <1>1, DriversInvariance, PTL

\* Drivers that race for a cycle are never authorized twice, and none of them takes
\* a verdict back or writes over it.
THEOREM GateAuthorizesOnce == Spec => AuthorizedOnce /\ VerdictsStand
  BY GateOnlyCalls, CallsKeepTo

\* The whole gate spends one budget: its verdicts and reservations are those of the
\* bounded budget of cycles.
THEOREM GateSpendsBudget == Spec => ImplementsBudget
  BY GateOnlyCalls, CallsBudget

-----------------------------------------------------------------------------
(* Which HEAD a cycle is charged at.  Nothing ties the HEAD of a request to  *)
(* the one its attempt was derived from when an attempt is asked for again;  *)
(* the recovery of an interrupted attempt may so charge its cycle at another *)
(* HEAD.  It is the only call that does.                                     *)

\* An identity names the HEAD it was derived from.
HeadsDerived ==
  /\ \A h \in HeadSha, c \in 1..MaxCycles + 1 : HeadOf(FirstId(h, c)) = h
  /\ \A p \in Attempt, h \in HeadSha, c \in 1..MaxCycles : HeadOf(BoundId(p, h, c)) = h

\* A driver asks for an attempt at its own HEAD, or for one that is authorized already.
AsksAtItsHead(r) ==
  r.pc = "reserve" => r.q.attempt \in granted \/ r.q.head = HeadOf(r.q.attempt)

\* What the drivers that are about to reserve ask for.
AllAskAtTheirHead == \A d \in Driver : AsksAtItsHead(drv[d])

\* An attempt is charged, when it is authorized, at the HEAD it was derived from.
ChargedAtItsHead ==
  [][granted' # granted =>
       LastOf(ledger'.cycles).head = HeadOf(LastOf(ledger'.cycles).attempt)]_gateVars

\* The other drivers' requests stay what they are.
LEMMA AskersStay ==
  ASSUME DriversInv, AllAskAtTheirHead, granted \subseteq granted',
         NEW d \in Driver, NEW r, drv' = [drv EXCEPT ![d] = r],
         r.pc = "reserve" => r.q.attempt \in granted' \/ r.q.head = HeadOf(r.q.attempt)
  PROVE  AllAskAtTheirHead'
  <1>1. drv \in [Driver -> Holding] BY DEF DriversInv
  <1>2. ASSUME NEW e \in Driver PROVE AsksAtItsHead(drv[e])'
    <2>1. CASE e = d
      <3>1. drv'[e] = r BY <1>1, <2>1
      <3>2. QED BY <3>1 DEF AsksAtItsHead
    <2>2. CASE e # d
      <3>1. drv'[e] = drv[e] /\ AsksAtItsHead(drv[e]) BY <1>1, <2>2 DEF AllAskAtTheirHead
      <3>2. QED BY <3>1 DEF AsksAtItsHead
    <2>3. QED BY <2>1, <2>2
  <1>3. QED BY <1>2 DEF AllAskAtTheirHead

\* A driver that goes on elsewhere than to its reservation.
LEMMA GoesElsewhere ==
  ASSUME DriversInv, NEW d \in Driver, NEW r, drv' = [drv EXCEPT ![d] = r], r.pc # "reserve"
  PROVE  drv'[d].pc # "reserve" /\ drv' = [drv EXCEPT ![d] = drv'[d]]
  <1>1. drv \in [Driver -> Holding] BY DEF DriversInv
  <1>2. QED BY <1>1

\* Requests are made by three steps; after every other one the driver is elsewhere.
LEMMA OthersDoNotAsk ==
  ASSUME DriversInv, NEW d \in Driver, DriverStep(d) \/ Crash(d),
         ~(Decide(d) \/ Reopen(d) \/ Succeed(d))
  PROVE  drv'[d].pc # "reserve" /\ drv' = [drv EXCEPT ![d] = drv'[d]]
  <1>1. PICK x : x = drv[d] OBVIOUS
  <1>2. x \in Holding BY <1>1 DEF DriversInv
  <1>3. Idle.pc = "idle" /\ [Idle EXCEPT !.pc = "decide"].pc = "decide" BY DEF Idle
  <1>4. \A p \in Point : [x EXCEPT !.pc = p].pc = p BY <1>2 DEF Holding
  <1>5. CASE drv' = [drv EXCEPT ![d] = Idle] BY <1>3, <1>5, GoesElsewhere
  <1>6. CASE \E p \in Point \ {"reserve"} : drv' = [drv EXCEPT ![d] = [x EXCEPT !.pc = p]]
    BY <1>4, <1>6, GoesElsewhere
  <1>7. {"succeed", "enter", "launch", "fail", "record", "pick"} \subseteq Point \ {"reserve"}
    BY DEF Point
  <1>8. {"merge", "attend"} \subseteq Point \ {"reserve"} BY DEF Point
  <1>9. CASE Observe(d)
    <2>1. PICK r : r = [Idle EXCEPT !.pc = "pick", !.run = Identity(gate),
                                    !.ready = Collected(gate), !.draining = TRUE]
      OBVIOUS
    <2>2. r.pc = "pick" BY <2>1 DEF Idle
    <2>3. drv' = [drv EXCEPT ![d] = r] \/ drv' = [drv EXCEPT ![d] = [Idle EXCEPT !.pc = "decide"]]
      BY <1>9, <2>1 DEF Observe, Hold
    <2>4. QED BY <1>3, <2>2, <2>3, GoesElsewhere
  <1>10. CASE Settle(d) BY <1>1, <1>5, <1>6, <1>7, <1>10 DEF Settle, Hold, Leave
  <1>11. CASE ReserveCycle(d) BY <1>1, <1>5, <1>6, <1>7, <1>11 DEF ReserveCycle, Hold, Leave
  <1>12. CASE Picked(d) \/ Fail(d) \/ Await(d) \/ Attend(d) \/ Crash(d)
    BY <1>1, <1>5, <1>6, <1>7, <1>12 DEF Picked, Fail, Await, Attend, Crash, Hold, Leave
  <1>13. CASE LaunchFails(d) BY <1>1, <1>6, <1>7, <1>13 DEF LaunchFails, Hold
  <1>14. CASE Clean(d) BY <1>1, <1>6, <1>8, <1>14 DEF Clean, Hold
  <1>15. CASE Finish(d) BY <1>1, <1>6, <1>7, <1>15 DEF Finish, Hold
  <1>16. CASE Record(d)
    <2>1. \/ drv' = [drv EXCEPT ![d] = Idle]
          \/ drv' = [drv EXCEPT ![d] = [Idle EXCEPT !.pc = "decide"]]
      BY <1>16 DEF Record, Hold, Leave
    <2>2. QED BY <1>3, <2>1, GoesElsewhere
  <1>17. CASE Enter(d)
    <2>1. PICK r : r = [x EXCEPT !.pc = "pick", !.run = Identity(gate), !.ready = Collected(gate)]
      OBVIOUS
    <2>2. r.pc = "pick" BY <1>2, <2>1 DEF Holding
    <2>3. \/ drv' = [drv EXCEPT ![d] = Idle] \/ drv' = [drv EXCEPT ![d] = r]
          \/ drv' = [drv EXCEPT ![d] = [x EXCEPT !.pc = "initialize"]]
      BY <1>1, <1>17, <2>1 DEF Enter, Hold, Leave
    <2>4. "initialize" \in Point \ {"reserve"} BY DEF Point
    <2>5. QED BY <1>5, <1>6, <2>2, <2>3, <2>4, GoesElsewhere
  <1>18. CASE Initialize(d)
    <2>1. PICK r : r = [x EXCEPT !.pc = "run", !.run =
                          Identity(FreshGate(x.q.attempt, x.cycle, x.head))]
      OBVIOUS
    <2>2. r.pc = "run" BY <1>2, <2>1 DEF Holding
    <2>3. drv' = [drv EXCEPT ![d] = Idle] \/ drv' = [drv EXCEPT ![d] = r]
      BY <1>1, <1>18, <2>1 DEF Initialize, Hold, Leave
    <2>4. QED BY <1>5, <2>2, <2>3, GoesElsewhere
  <1>19. CASE Recover(d)
    <2>1. PICK a : a = CHOOSE y \in Axes(x.seen) : TRUE OBVIOUS
    <2>2. PICK p \in {"reopen", "settle"} :
            drv' = [drv EXCEPT ![d] = [x EXCEPT !.pc = p, !.axis = a]]
      BY <1>1, <1>19, <2>1 DEF Recover, Hold
    <2>3. PICK r : r = [x EXCEPT !.pc = p, !.axis = a] OBVIOUS
    <2>4. r.pc = p BY <1>2, <2>3 DEF Holding
    <2>5. QED BY <2>2, <2>3, <2>4, GoesElsewhere
  <1>20. CASE Run(d) BY <1>1, <1>6, <1>7, <1>20 DEF Run, Hold
  <1>21. CASE Launch(d)
    <2>1. PICK a : drv' = [drv EXCEPT ![d] = [x EXCEPT !.mine = @ \cup {a}]]
      BY <1>1, <1>21 DEF Launch, Hold
    <2>2. PICK r : r = [x EXCEPT !.mine = @ \cup {a}] OBVIOUS
    <2>3. r.pc = x.pc /\ x.pc = "launch" BY <1>1, <1>2, <1>21, <2>2 DEF Launch, Holding
    <2>4. QED BY <2>1, <2>2, <2>3, GoesElsewhere
  <1>22. CASE Pick(d)
    <2>1. PICK a \in Axis :
            \/ drv' = [drv EXCEPT ![d] = Idle]
            \/ drv' = [drv EXCEPT ![d] = [x EXCEPT !.ready[a] = "", !.axis = a]]
            \/ drv' = [drv EXCEPT ![d] =
                          [[x EXCEPT !.ready[a] = "", !.axis = a] EXCEPT !.pc = "clean",
                             !.seen = [NoGate EXCEPT !.finals[a] = x.ready[a]]]]
      BY <1>1, <1>22 DEF Pick, Hold, Leave
    <2>2. PICK r : r = [x EXCEPT !.ready[a] = "", !.axis = a] OBVIOUS
    <2>3. PICK s : s = [r EXCEPT !.pc = "clean", !.seen = [NoGate EXCEPT !.finals[a] = x.ready[a]]]
      OBVIOUS
    <2>4. r.pc = x.pc /\ x.pc = "pick" BY <1>1, <1>2, <1>22, <2>2 DEF Pick, Holding
    <2>5. s.pc = "clean" BY <1>2, <2>2, <2>3 DEF Holding
    <2>6. QED BY <1>5, <2>1, <2>2, <2>3, <2>4, <2>5, GoesElsewhere
  <1>23. CASE ReadResults(d) \/ WriteResults(d)
    <2>1. PICK g : g = [NoGate EXCEPT
                          !.lanes = [gate.lanes EXCEPT ![x.axis] = "done"],
                          !.finals = [gate.finals EXCEPT ![x.axis] = x.seen.finals[x.axis]]]
      OBVIOUS
    <2>2. PICK r : r = [x EXCEPT !.pc = "write", !.seen = g] OBVIOUS
    <2>3. PICK s : s = [x EXCEPT !.pc = "finish", !.seen = NoGate] OBVIOUS
    <2>4. r.pc = "write" /\ s.pc = "finish" BY <1>2, <2>2, <2>3 DEF Holding
    <2>5. ReadResults(d) => drv' = [drv EXCEPT ![d] = r] BY <1>1, <2>1, <2>2 DEF ReadResults, Hold
    <2>6. WriteResults(d) => drv' = [drv EXCEPT ![d] = s] BY <1>1, <2>3 DEF WriteResults, Hold
    <2>7. QED BY <1>23, <2>4, <2>5, <2>6, GoesElsewhere
  <1>24. QED BY Zenon, <1>9, <1>10, <1>11, <1>12, <1>13, <1>14, <1>15, <1>16, <1>17, <1>18,
                <1>19, <1>20, <1>21, <1>22, <1>23 DEF DriverStep

\* The first attempt is asked for at the HEAD just read, the gate's own by its identity.
LEMMA DecideAsks ==
  ASSUME HeadsDerived, DriversInv, AllAskAtTheirHead, NEW d \in Driver, Decide(d)
  PROVE  AllAskAtTheirHead'
  <1>1. PICK x : x = drv[d] OBVIOUS
  <1>2. x \in Holding /\ head \in HeadSha /\ GateKnown BY <1>1, KnownOf DEF Shared
  <1>3. UNCHANGED granted BY DEF Decide, ReadOnly, KeepLedger
  <1>4. CASE ~Exists(gate)
    <2>1. PICK q : q = [NoRequest(head) EXCEPT !.attempt = FirstId(head, 1)] OBVIOUS
    <2>2. PICK r : r = [[x EXCEPT !.head = head, !.seen = gate] EXCEPT
                          !.pc = "reserve", !.cycle = 1, !.q = q]
      OBVIOUS
    <2>3. drv' = [drv EXCEPT ![d] = r] BY <1>1, <1>4, <2>1, <2>2 DEF Decide, Hold
    <2>4. r.q = q BY <1>2, <2>2 DEF Holding
    <2>5. q.attempt = FirstId(head, 1) /\ q.head = head BY <2>1 DEF NoRequest
    <2>6. 1 \in 1..MaxCycles + 1 BY AxesAre
    <2>7. HeadOf(FirstId(head, 1)) = head BY <1>2, <2>6 DEF HeadsDerived
    <2>8. QED BY <1>3, <2>3, <2>4, <2>5, <2>7, AskersStay
  <1>5. CASE Exists(gate) /\ gate.phase # "terminal"
    <2>1. PICK q : q = Held(gate, head) OBVIOUS
    <2>2. PICK r : r = [[x EXCEPT !.head = head, !.seen = gate] EXCEPT
                          !.pc = "reserve", !.cycle = gate.cycle, !.q = q]
      OBVIOUS
    <2>3. drv' = [drv EXCEPT ![d] = r] BY <1>1, <1>5, <2>1, <2>2 DEF Decide, Hold
    <2>4. r.q = q BY <1>2, <2>2 DEF Holding
    <2>5. q.attempt = gate.id BY <2>1 DEF Held, NoRequest
    <2>6. gate.id \in granted BY <1>2, <1>5 DEF GateKnown
    <2>7. QED BY <1>3, <2>3, <2>4, <2>5, <2>6, AskersStay
  <1>6. CASE Exists(gate) /\ gate.phase = "terminal"
    <2>1. PICK p : p = IF Interrupted(gate) THEN "recover" ELSE "settle" OBVIOUS
    <2>2. PICK r : r = [[x EXCEPT !.head = head, !.seen = gate] EXCEPT !.pc = p] OBVIOUS
    <2>3. drv' = [drv EXCEPT ![d] = r] BY <1>1, <1>6, <2>1, <2>2 DEF Decide, Hold
    <2>4. r.pc = p /\ p # "reserve" BY <1>2, <2>1, <2>2 DEF Holding
    <2>5. QED BY <1>3, <2>3, <2>4, AskersStay
  <1>7. QED BY <1>4, <1>5, <1>6

\* An attempt that is opened again is authorized already.
LEMMA ReopenAsks ==
  ASSUME DriversInv, AllAskAtTheirHead, NEW d \in Driver, Reopen(d)
  PROVE  AllAskAtTheirHead'
  <1>1. PICK x : x = drv[d] OBVIOUS
  <1>2. x \in Holding /\ DriverKnows(x) /\ x.pc = "reopen" /\ gate \in GateFile
    BY <1>1, KnownOf DEF Reopen
  <1>3. x.seen.id \in granted BY <1>2 DEF DriverKnows, Lately
  <1>4. UNCHANGED granted BY DEF Reopen, KeepLedger
  <1>5. CASE gate # x.seen
    <2>1. drv' = [drv EXCEPT ![d] = Idle] BY <1>1, <1>5 DEF Reopen, Leave, Hold
    <2>2. Idle.pc = "idle" BY DEF Idle
    <2>3. QED BY <1>4, <2>1, <2>2, AskersStay
  <1>6. CASE gate = x.seen
    <2>1. PICK g : g = Reopened(gate, x.axis) OBVIOUS
    <2>2. g.id = x.seen.id BY <1>2, <1>6, <2>1 DEF Reopened, GateFile
    <2>3. PICK q : q = [NoRequest(x.head) EXCEPT !.attempt = g.id, !.recover = TRUE] OBVIOUS
    <2>4. PICK r : r = [x EXCEPT !.pc = "reserve", !.seen = g, !.cycle = g.cycle, !.q = q]
      OBVIOUS
    <2>5. drv' = [drv EXCEPT ![d] = r]
      BY <1>1, <1>6, <2>1, <2>3, <2>4 DEF Reopen, Hold
    <2>6. r.q = q /\ q.attempt = g.id BY <1>2, <2>3, <2>4 DEF Holding, NoRequest
    <2>7. QED BY <1>3, <1>4, <2>2, <2>5, <2>6, AskersStay
  <1>7. QED BY <1>5, <1>6

\* A successor is derived from the HEAD it is asked for.
LEMMA SucceedAsks ==
  ASSUME HeadsDerived, DriversInv, AllAskAtTheirHead, NEW d \in Driver, Succeed(d)
  PROVE  AllAskAtTheirHead'
  <1>1. PICK x : x = drv[d] OBVIOUS
  <1>2. /\ x \in Holding /\ DriverKnows(x) /\ x.pc = "succeed" /\ granted \subseteq Attempt /\ IInv
    BY <1>1, KnownOf DEF Succeed
  <1>3. x.head \in HeadSha /\ x.seen.id \in granted /\ x.seen.id \in Attempt
    BY <1>2 DEF DriverKnows, Lately
  <1>4. PICK n : n = CycleOf(x.seen.id) OBVIOUS
  <1>5. n \in 1..MaxCycles /\ n + 1 \in 1..MaxCycles + 1 BY <1>2, <1>3, <1>4, NumberOf, AxesAre
  <1>6. PICK s, q : s = Successor(x.seen, x.head) /\ q = s.q OBVIOUS
  <1>7. q.head = HeadOf(q.attempt)
    <2>1. CASE x.seen.result \in Mechanism
      <3>1. q = [NoRequest(x.head) EXCEPT !.attempt = BoundId(x.seen.id, x.head, n),
                                          !.predecessor = x.seen.id]
        BY <1>4, <1>6, <2>1 DEF Successor
      <3>2. q.head = x.head /\ q.attempt = BoundId(x.seen.id, x.head, n)
        BY <3>1 DEF NoRequest
      <3>3. HeadOf(BoundId(x.seen.id, x.head, n)) = x.head BY <1>3, <1>5 DEF HeadsDerived
      <3>4. QED BY <3>2, <3>3
    <2>2. CASE x.seen.result \notin Mechanism
      <3>1. q = [NoRequest(x.head) EXCEPT !.attempt = FirstId(x.head, n + 1)]
        BY <1>4, <1>6, <2>2 DEF Successor
      <3>2. q.head = x.head /\ q.attempt = FirstId(x.head, n + 1) BY <3>1 DEF NoRequest
      <3>3. HeadOf(FirstId(x.head, n + 1)) = x.head BY <1>3, <1>5 DEF HeadsDerived
      <3>4. QED BY <3>2, <3>3
    <2>3. QED BY <2>1, <2>2
  <1>8. UNCHANGED granted BY DEF Succeed, KeepLedger
  <1>9. PICK r : r = [x EXCEPT !.pc = "reserve", !.cycle = s.cycle, !.q = q] OBVIOUS
  <1>10. drv' = [drv EXCEPT ![d] = Idle] \/ drv' = [drv EXCEPT ![d] = r]
    BY <1>1, <1>6, <1>9 DEF Succeed, Hold, Leave
  <1>11. r.q = q BY <1>2, <1>9 DEF Holding
  <1>12. Idle.pc = "idle" BY DEF Idle
  <1>13. QED BY <1>7, <1>8, <1>10, <1>11, <1>12, AskersStay

\* An attempt is authorized by a reservation only, of the request its driver makes.
LEMMA AuthorizedByReserve ==
  ASSUME DriversInv, NEW d \in Driver, DriverStep(d) \/ Crash(d), granted' # granted
  PROVE  drv[d].pc = "reserve" /\ Reserve(drv[d].q)
  <1>1. ReserveCycle(d)
    <2>1. ~KeepLedger BY DEF KeepLedger
    <2>2. ~(Settle(d) \/ Record(d))
      BY DEF Settle, Record, RecordTerminal, RecordProduct, RecordMechanism, KeepLedger
    <2>3. ~(Observe(d) \/ Decide(d) \/ Enter(d) \/ Picked(d) \/ ReadResults(d) \/ Crash(d))
      BY <2>1 DEF Observe, Decide, Enter, Picked, ReadResults, Crash, ReadOnly, KeepLedger
    <2>4. ~(Succeed(d) \/ Reopen(d) \/ Initialize(d) \/ Run(d) \/ Fail(d) \/ Await(d))
      BY <2>1 DEF Succeed, Reopen, Initialize, Run, Fail, Await
    <2>5. ~(Attend(d) \/ WriteResults(d) \/ Finish(d) \/ Recover(d) \/ Launch(d))
      BY <2>1 DEF Attend, WriteResults, Finish, Recover, Launch
    <2>6. ~(LaunchFails(d) \/ Pick(d) \/ Clean(d)) BY <2>1 DEF LaunchFails, Pick, Clean
    <2>7. QED BY Zenon, <2>2, <2>3, <2>4, <2>5, <2>6 DEF DriverStep
  <1>2. QED BY <1>1 DEF ReserveCycle, RecoverAttention, KeepLedger

\* A step of the drivers keeps every request at its HEAD, and charges what it
\* authorizes at the HEAD of the request.
LEMMA HeadSteps ==
  ASSUME HeadsDerived, DriversInv, AllAskAtTheirHead, [Next]_gateVars
  PROVE  /\ AllAskAtTheirHead'
         /\ granted' # granted =>
              LastOf(ledger'.cycles).head = HeadOf(LastOf(ledger'.cycles).attempt)
  <1>1. DriversInv' /\ granted \subseteq granted' BY DriversSteps, CallGrows
  <1>2. CASE UNCHANGED <<drv, granted>>
    BY <1>2 DEF AllAskAtTheirHead, AsksAtItsHead
  <1>3. ASSUME NEW d \in Driver, DriverStep(d) \/ Crash(d)
        PROVE  /\ AllAskAtTheirHead'
               /\ granted' # granted =>
                    LastOf(ledger'.cycles).head = HeadOf(LastOf(ledger'.cycles).attempt)
    <2>1. AllAskAtTheirHead'
      <3>1. CASE Decide(d) BY <1>1, <3>1, DecideAsks
      <3>2. CASE Reopen(d) BY <1>1, <3>2, ReopenAsks
      <3>3. CASE Succeed(d) BY <1>1, <3>3, SucceedAsks
      <3>4. CASE ~(Decide(d) \/ Reopen(d) \/ Succeed(d))
        <4>1. PICK r : r = drv'[d] OBVIOUS
        <4>2. r.pc # "reserve" /\ drv' = [drv EXCEPT ![d] = r]
          BY <1>3, <3>4, <4>1, OthersDoNotAsk
        <4>3. QED BY <1>1, <4>2, AskersStay
      <3>5. QED BY <3>1, <3>2, <3>3, <3>4
    <2>2. ASSUME granted' # granted
          PROVE  LastOf(ledger'.cycles).head = HeadOf(LastOf(ledger'.cycles).attempt)
      <3>1. PICK x : x = drv[d] OBVIOUS
      <3>2. x.pc = "reserve" /\ Reserve(x.q) BY <1>3, <2>2, <3>1, AuthorizedByReserve
      <3>3. AsksAtItsHead(x) BY <3>1 DEF AllAskAtTheirHead
      <3>4. x.q.attempt \notin granted BY <2>2, <3>2 DEF Reserve
      <3>5. x.q.head = HeadOf(x.q.attempt) BY <3>2, <3>3, <3>4 DEF AsksAtItsHead
      <3>6. ledger \in Ledger BY DEF DriversInv, IInv, Good
      <3>7. PICK c : c = [attempt |-> x.q.attempt, head |-> x.q.head, result |-> Unset] OBVIOUS
      <3>8. ledger'.cycles = Append(ledger.cycles, c)
        BY <3>2, <3>6, <3>7 DEF Reserve, Opened, Ledger
      <3>9. PICK s : s = ledger.cycles /\ Len(s) \in Nat /\ s \in Seq(Cycle)
        BY <3>6, LedgerParts DEF Ledger
      <3>10. LastOf(ledger'.cycles) = c BY <3>8, <3>9 DEF LastOf
      <3>11. QED BY <3>5, <3>7, <3>10
    <2>3. QED BY <2>1, <2>2
  <1>4. CASE Environment
    BY <1>2, <1>4 DEF Environment, Commit, Answer, WorkerAccepts, WaitRunsOut, Retire
  <1>5. CASE UNCHANGED gateVars BY <1>2, <1>5 DEF gateVars
  <1>6. QED BY <1>3, <1>4, <1>5 DEF Next

\* Drivers that read HEAD at different times still charge every attempt, when they
\* authorize it, at the HEAD its identity names: only an attempt that takes its cycle
\* back (reason "attention-recovered") can be charged at another one, and does when
\* HEAD moved meanwhile.
THEOREM ChargedWhereDerived ==
  ASSUME HeadsDerived
  PROVE  Spec => ChargedAtItsHead
  <1>1. Init => AllAskAtTheirHead
    BY DEF Init, AllAskAtTheirHead, AsksAtItsHead, Idle
  <1>2. DriversInv /\ AllAskAtTheirHead /\ [Next]_gateVars => AllAskAtTheirHead' BY HeadSteps
  <1>3. Spec => []AllAskAtTheirHead BY <1>1, <1>2, DriversInvariance, PTL DEF Spec
  <1>4. DriversInv /\ AllAskAtTheirHead /\ [Next]_gateVars =>
          [granted' # granted =>
             LastOf(ledger'.cycles).head = HeadOf(LastOf(ledger'.cycles).attempt)]_gateVars
    BY HeadSteps
  <1>5. QED BY <1>3, <1>4, DriversInvariance, PTL DEF Spec, ChargedAtItsHead
=============================================================================
