--------------------------- MODULE ReviewGateProofs ---------------------------
(***************************************************************************)
(* Theorems about ReviewGate, for any lanes, budgets, HEADs and bounds.    *)
(* The gate's driver works on copies: the invariant says what they are     *)
(* worth at each point of a run, which for one driver at a time is that    *)
(* nobody else writes the gate or the ledger.                              *)
(***************************************************************************)
EXTENDS ReviewGate, FinalizationLedgerProofs

-----------------------------------------------------------------------------
(* The inductive invariant.                                                *)

\* The types of what the gate's module adds to the ledger.
Result == Product \cup Mechanism \cup {""}
\* The gate's file.
GateFile ==
  [id : Attempt \cup {NoAttempt}, cycle : Nat, head : HeadSha \cup {NoAttempt},
   phase : {"pending", "running", "awaiting-callback", "terminal"}, result : Result,
   graded : BOOLEAN, op : Attempt \cup {NoAttempt},
   status : {"pending", "running", "reviewing"} \cup Product \cup Mechanism,
   lanes : [Axis -> {"none", "open", "done"}], finals : [Axis -> Verdict \cup {""}]]
\* A lane: its operation, the child that waits for the answer and the parent.
Lane ==
  [op : Attempt \cup {NoAttempt},
   child : {"none", "awaiting", "accepted", "complete", "failed"},
   answer : Verdict \cup {""},
   parent : {"none", "live", "attention", "exiting", "complete", "failed"}]
\* The result file of a lane.
Post == [op : Attempt \cup {NoAttempt}, answer : Verdict \cup {""}]
\* A request to the ledger, or none yet.
Asked ==
  [attempt : Attempt \cup {NoAttempt}, head : HeadSha \cup {NoAttempt},
   predecessor : Attempt \cup {NoAttempt}, supersedes : {NoAttempt}, recover : BOOLEAN]
\* Where a driver may be.
Point == {"idle", "decide", "recover", "reopen", "settle", "succeed", "reserve", "enter",
          "initialize", "run", "launch", "fail", "pick", "clean", "attend", "merge",
          "write", "finish", "record"}
\* What a driver holds.
Holding ==
  [pc : Point, head : HeadSha \cup {NoAttempt}, seen : GateFile,
   run : [id : Attempt \cup {NoAttempt}, cycle : Nat, head : HeadSha \cup {NoAttempt}],
   ready : [Axis -> Verdict \cup {""}], axis : Axis, q : Asked, cycle : Nat,
   mine : SUBSET Axis, draining : BOOLEAN]

\* The type invariant, with the ledger's part in IInv.
Typed ==
  /\ head \in HeadSha
  /\ gate \in GateFile
  /\ session \in [Axis -> Lane]
  /\ answers \subseteq Attempt \X Axis \X Verdict
  /\ outbox \in [Axis -> Post]
  /\ drv \in [Driver -> Holding]
  /\ commits \in Nat /\ crashes \in Nat

\* Attempt id has, or gave up, the cycle of number c.
Place(l, id, c) ==
  \/ c \in 1..Len(l.cycles) /\ l.cycles[c].attempt = id
  \/ \E j \in 1..Len(l.attempts) : l.attempts[j].attempt = id /\ l.attempts[j].cycle = c

\* The points before the driver opens an attempt, while it opens one, and while it
\* takes the answers.
Lasts == {"recover", "reopen", "settle", "succeed", "reserve", "enter", "initialize"}
Opening == {"run", "launch", "fail"}
Taking == {"pick", "clean", "attend", "merge", "write", "finish"}

\* What a lane's records and the answers ever accepted say of one another.
LanesOK ==
  /\ \A x \in answers : x[1] \in granted
  /\ \A a \in Axis :
       LET s == session[a] IN
       /\ s.op \in granted \cup {NoAttempt}
       /\ s.op = NoAttempt => s.child = "none"
       /\ s.parent = "none" => s.op = NoAttempt
       /\ s.child \in {"accepted", "complete"} => s.answer \in Verdict /\ <<s.op, a, s.answer>> \in answers
       /\ \A v \in Verdict : <<s.op, a, v>> \in answers => s.child # "awaiting" /\ v = s.answer
       /\ s.op \notin {NoAttempt, gate.id} => Terminated(s)
       /\ s.op = gate.id /\ Exists(gate) => a \in Axes(gate)
       /\ outbox[a].op # NoAttempt => outbox[a].answer \in Verdict

\* The gate and the ledger.
GateOK ==
  /\ IF Exists(gate) THEN gate.cycle \in 1..MaxCycles /\ Place(ledger, gate.id, gate.cycle)
     ELSE gate = NoGate
  /\ (gate.phase = "terminal") = (gate.result # "")
  /\ \A i \in 1..Len(ledger.cycles) : ledger.cycles[i].result # Unset =>
       i <= gate.cycle /\ (i = gate.cycle => ledger.cycles[i].attempt = gate.id)
  /\ Active(ledger) /\ Holder(ledger) # gate.id =>
       /\ \A a \in Axis : session[a].op # Holder(ledger)
       /\ \A x \in answers : x[1] # Holder(ledger)
  /\ Exists(gate) /\ gate.phase = "awaiting-callback" => \A a \in Axes(gate) : session[a].op = gate.id
  /\ gate.phase \in {"pending", "running"} => gate.finals = NoFinal
  /\ \A a \in Axis : gate.finals[a] # "" =>
       Exists(gate) /\ <<gate.id, a, gate.finals[a]>> \in answers /\ Terminated(session[a])
  /\ gate.phase = "terminal" /\ gate.graded =>
       /\ \A a \in Axes(gate) : gate.finals[a] # ""
       /\ gate.result = Outcome(gate.finals, Axes(gate))
  /\ gate.phase = "terminal" /\ ~gate.graded => gate.result \in Mechanism

\* The gate is terminal.
Terminal == Exists(gate) /\ gate.phase = "terminal"

\* What a driver relies on at the point it has reached: the gate it has read,
Reads(r) ==
  /\ r.pc \notin {"launch", "fail"} => r.mine = {}
  /\ r.pc \in Lasts => r.seen = gate /\ r.head \in HeadSha
  /\ r.pc \in {"recover", "reopen", "settle", "succeed"} => Terminal

\* the answer an attempt that was given up has left,
Rescues(r) ==
  /\ r.pc \in {"recover", "reopen"} =>
       /\ gate.result = "attention-required"
       /\ \E a \in Axis : /\ Axes(gate) = {a} /\ session[a].op = gate.id
                          /\ session[a].child \in {"accepted", "complete"}
  /\ r.pc = "reopen" => r.axis \in Axes(gate)

\* the attempt it asks for, which is the gate's or the one after it,
Asks(r) ==
  /\ r.pc = "succeed" => Recorded(gate.id, gate.result)
  /\ r.pc = "reserve" => r.q \in Request
  /\ r.pc = "reserve" /\ ~Exists(gate) => r.cycle = 1 /\ ~r.q.recover
  /\ r.pc = "reserve" /\ Exists(gate) /\ ~Terminal => r.q.attempt = gate.id /\ r.cycle = gate.cycle
  /\ r.pc = "reserve" /\ Terminal =>
       /\ ~r.q.recover /\ Recorded(gate.id, gate.result)
       /\ r.cycle = IF gate.result \in Mechanism THEN gate.cycle ELSE gate.cycle + 1

\* its reservation, which no lane has seen yet,
Reserved(r) ==
  /\ r.pc \in {"enter", "initialize"} => r.q.attempt \in granted
  /\ r.pc = "initialize" => Terminal \/ ~Exists(gate)
  /\ r.pc \in {"enter", "initialize"} /\ (Terminal \/ ~Exists(gate)) =>
       /\ Active(ledger) /\ Holder(ledger) = r.q.attempt /\ r.q.attempt # gate.id
       /\ r.cycle = Len(ledger.cycles)
       /\ Terminal => r.cycle = IF gate.result \in Mechanism THEN gate.cycle ELSE gate.cycle + 1

\* the lanes it has opened,
Opens(r) ==
  /\ r.pc \in Opening =>
       /\ Exists(gate) /\ Identity(gate) = r.run /\ gate.phase \in {"pending", "running"}
  /\ r.pc \in {"run", "launch"} =>
       /\ \A a \in Axis : session[a].op = gate.id <=> a \in r.mine
       /\ r.mine \subseteq Axes(gate)
       /\ \A x \in answers : x[1] = gate.id => x[2] \in r.mine

\* and the answers it has taken.
Takes(r) ==
  /\ r.pc \in Taking => Exists(gate) /\ Identity(gate) = r.run /\ gate.phase = "awaiting-callback"
  /\ r.pc \in Taking => \A a \in Axis : r.ready[a] # "" => a \in Axes(gate)
  /\ r.pc \in {"clean", "merge"} =>
       /\ <<gate.id, r.axis, r.seen.finals[r.axis]>> \in answers
       /\ r.axis \in Axes(gate) /\ session[r.axis].child = "complete"
  /\ r.pc = "merge" => session[r.axis].parent = "complete"
  /\ r.pc = "write" =>
       \A a \in Axis : r.seen.finals[a] # "" =>
         <<gate.id, a, r.seen.finals[a]>> \in answers /\ Terminated(session[a])

\* All of it.
DriverOK(r) == Reads(r) /\ Rescues(r) /\ Asks(r) /\ Reserved(r) /\ Opens(r) /\ Takes(r)

\* The inductive invariant.
GateInv ==
  /\ IInv
  /\ Typed /\ LanesOK /\ GateOK
  /\ \A d \in Driver : DriverOK(drv[d])
  /\ VerdictIsAnswered

-----------------------------------------------------------------------------
(* Constants, and what they are made of.                                   *)

\* Every cycle of the budget has lanes.
LEMMA AxesAre ==
  /\ MaxCycles \in Nat \ {0}
  /\ \A c \in 1..MaxCycles : LaneAxes[c] \subseteq Axis /\ LaneAxes[c] # {}
  /\ \E a \in Axis : TRUE
  <1>1. MaxCycles \in Nat \ {0} BY Zenon, LedgerAssumption
  <1>2. LaneAxes \in [1..MaxCycles -> (SUBSET Axis) \ {{}}] BY Zenon, GateAssumption
  <1>3. \A c \in 1..MaxCycles : LaneAxes[c] \subseteq Axis /\ LaneAxes[c] # {} BY <1>2
  <1>4. 1 \in 1..MaxCycles BY <1>1
  <1>5. QED BY <1>1, <1>3, <1>4

\* The identities a driver derives are attempts, and the omitted one is none.
LEMMA IdsAre ==
  /\ NoAttempt \notin Attempt
  /\ \A h \in HeadSha, c \in 1..MaxCycles + 1 : FirstId(h, c) \in Attempt
  /\ \A p \in Attempt, h \in HeadSha, c \in 1..MaxCycles : BoundId(p, h, c) \in Attempt
  /\ MaxCommits \in Nat /\ MaxCrashes \in Nat
  BY Zenon, LedgerAssumption, GateAssumption

\* No result is the empty string.
LEMMA ResultsAre ==
  /\ "" \notin Product /\ "" \notin Mechanism /\ "" \notin Verdict
  /\ "approved" \in Product /\ "changes-requested" \in Product
  /\ "blocked" \in Mechanism /\ "attention-required" \in Mechanism
  /\ \A r \in Product : r \notin Mechanism
  /\ Unset = ""
  BY DEF Product, Mechanism, Verdict, Unset

\* The empty maps of a new gate.
LEMMA EmptyTyped ==
  /\ NoLane \in [Axis -> {"none", "open", "done"}]
  /\ NoFinal \in [Axis -> Verdict \cup {""}]
  /\ \A a \in Axis : NoFinal[a] = "" /\ NoLane[a] = "none"
  BY DEF NoLane, NoFinal

\* What stands for a gate that does not exist.
LEMMA NoGateTyped ==
  /\ NoGate \in GateFile /\ NoGate.id = NoAttempt /\ NoGate.cycle = 0
  /\ NoGate.phase = "pending" /\ NoGate.result = "" /\ NoGate.finals = NoFinal
  BY EmptyTyped DEF NoGate, FreshGate, GateFile, Result

\* What an idle driver holds is typed.
LEMMA IdleTyped == Idle \in Holding /\ Idle.pc = "idle" /\ Idle.mine = {}
  <1>1. (CHOOSE a \in Axis : TRUE) \in Axis BY AxesAre
  <1>2. Identity(NoGate) \in [id : Attempt \cup {NoAttempt}, cycle : Nat, head : HeadSha \cup {NoAttempt}]
    BY NoGateTyped DEF Identity, GateFile
  <1>3. NoRequest(NoAttempt) \in Asked BY DEF NoRequest, Asked
  <1>4. "idle" \in Point BY DEF Point
  <1>5. QED BY <1>1, <1>2, <1>3, <1>4, NoGateTyped, EmptyTyped DEF Idle, Holding

\* A driver that is not running relies on nothing.
LEMMA IdleOK == DriverOK(Idle) /\ DriverOK(Idle)'
  BY IdleTyped DEF DriverOK, Reads, Rescues, Asks, Reserved, Opens, Takes, Lasts, Opening, Taking

-----------------------------------------------------------------------------
(* Steps that leave the shared files alone.                                *)

files == <<gate, session, answers, outbox, ledger, granted>>

\* What is said of the files, and of what a driver holds, still holds.
LEMMA LedgerUndisturbed ==
  ASSUME UNCHANGED <<ledger, granted>>
  PROVE  IInv => IInv'
  BY DEF IInv, Good, Well, AccountedFor, Identities

\* A step that leaves the files alone preserves what is said of them.
LEMMA Undisturbed ==
  ASSUME UNCHANGED files
  PROVE  /\ IInv => IInv'
         /\ LanesOK => LanesOK'
         /\ GateOK => GateOK'
         /\ VerdictIsAnswered => VerdictIsAnswered'
         /\ \A r : DriverOK(r) => DriverOK(r)'
  <1>1. UNCHANGED <<gate, session, answers, outbox, ledger, granted>> BY DEF files
  <1>2. IInv => IInv' BY <1>1, LedgerUndisturbed
  <1>3. LanesOK => LanesOK' BY <1>1 DEF LanesOK, Terminated, Exists, Axes
  <1>4. GateOK => GateOK'
    BY <1>1 DEF GateOK, Terminated, Exists, Axes, Place, Active, Holder, LastOf
  <1>5. VerdictIsAnswered => VerdictIsAnswered' BY <1>1 DEF VerdictIsAnswered
  <1>6. ASSUME NEW r, DriverOK(r) PROVE DriverOK(r)'
    <2>1. Reads(r)' BY <1>1, <1>6 DEF DriverOK, Reads, Terminal, Exists
    <2>2. Rescues(r)' BY <1>1, <1>6 DEF DriverOK, Rescues, Axes
    <2>3. Asks(r)' BY <1>1, <1>6 DEF DriverOK, Asks, Terminal, Exists, Recorded
    <2>4. Reserved(r)' BY <1>1, <1>6 DEF DriverOK, Reserved, Terminal, Exists, Active, Holder, LastOf
    <2>5. Opens(r)' BY <1>1, <1>6 DEF DriverOK, Opens, Exists, Identity, Axes
    <2>6. Takes(r)' BY <1>1, <1>6 DEF DriverOK, Takes, Exists, Identity, Axes, Terminated
    <2>7. QED BY <2>1, <2>2, <2>3, <2>4, <2>5, <2>6 DEF DriverOK
  <1>7. QED BY <1>2, <1>3, <1>4, <1>5, <1>6

\* A record a driver holds in the next state, by another name.
LEMMA HoldsNext ==
  ASSUME NEW e, NEW x, x = drv'[e], DriverOK(x)'
  PROVE  DriverOK(drv[e])'
  <1>1. Reads(drv[e])' BY DEF DriverOK, Reads
  <1>2. Rescues(drv[e])' BY DEF DriverOK, Rescues
  <1>3. Asks(drv[e])' BY DEF DriverOK, Asks
  <1>4. Reserved(drv[e])' BY DEF DriverOK, Reserved
  <1>5. Opens(drv[e])' BY DEF DriverOK, Opens
  <1>6. Takes(drv[e])' BY DEF DriverOK, Takes
  <1>7. QED BY <1>1, <1>2, <1>3, <1>4, <1>5, <1>6 DEF DriverOK

\* A driver that only reads goes on with what it holds.
LEMMA DriverMoves ==
  ASSUME GateInv, UNCHANGED files, NEW d \in Driver, NEW r \in Holding, DriverOK(r),
         drv' = [drv EXCEPT ![d] = r], head' \in HeadSha, commits' \in Nat, crashes' \in Nat
  PROVE  GateInv'
  <1>1. UNCHANGED <<gate, session, answers, outbox, ledger, granted>> BY DEF files
  <1>2. /\ IInv' /\ LanesOK' /\ GateOK' /\ VerdictIsAnswered'
        /\ \A x : DriverOK(x) => DriverOK(x)'
    BY Undisturbed DEF GateInv
  <1>3. Typed' BY <1>1 DEF GateInv, Typed
  <1>4. ASSUME NEW e \in Driver PROVE DriverOK(drv[e])'
    <2>1. drv' \in [Driver -> Holding] /\ drv \in [Driver -> Holding] BY <1>3 DEF GateInv, Typed
    <2>2. drv'[e] = drv[e] \/ drv'[e] = r BY <2>1
    <2>3. DriverOK(drv[e]) BY DEF GateInv
    <2>4. QED BY <1>2, <2>2, <2>3, HoldsNext
  <1>5. QED BY <1>2, <1>3, <1>4 DEF GateInv

\* The gate's directory has one driver.
OneDriver == \A d, e \in Driver : d = e

\* A driver between two of the points relies on nothing.
LEMMA BetweenOK ==
  ASSUME NEW r, r.pc \in {"idle", "decide", "record"}, r.mine = {}
  PROVE  DriverOK(r) /\ DriverOK(r)'
  BY DEF DriverOK, Reads, Rescues, Asks, Reserved, Opens, Takes, Lasts, Opening, Taking

\* What the only driver holds is what every driver holds.
LEMMA OnlyDriver ==
  ASSUME OneDriver, Typed, NEW d \in Driver, NEW r \in Holding, DriverOK(r)',
         drv' = [drv EXCEPT ![d] = r]
  PROVE  drv' \in [Driver -> Holding] /\ \A e \in Driver : DriverOK(drv[e])'
  <1>1. drv \in [Driver -> Holding] BY DEF Typed
  <1>2. \A e \in Driver : e = d BY DEF OneDriver
  <1>3. drv' \in [Driver -> Holding] /\ \A e \in Driver : drv'[e] = r BY <1>1, <1>2
  <1>4. QED BY <1>3, HoldsNext

\* What a driver holds.
LEMMA HoldingOf ==
  ASSUME GateInv, NEW d \in Driver
  PROVE  drv[d] \in Holding /\ DriverOK(drv[d]) /\ Typed /\ gate \in GateFile
  BY DEF GateInv, Typed

-----------------------------------------------------------------------------
(* The steps that only read.                                               *)

\* The identity of a gate is typed.
LEMMA IdentityTyped ==
  ASSUME NEW g \in GateFile
  PROVE  Identity(g) \in [id : Attempt \cup {NoAttempt}, cycle : Nat, head : HeadSha \cup {NoAttempt}]
  BY DEF Identity, GateFile

\* The answers a driver collects are typed, and are those of its lanes.
LEMMA CollectedTyped ==
  ASSUME Typed, NEW g
  PROVE  /\ Collected(g) \in [Axis -> Verdict \cup {""}]
         /\ \A a \in Axis : Collected(g)[a] # "" => a \in Axes(g)
  BY DEF Typed, Post, Collected

\* A driver that finds the gate open, or not at HEAD, collects or leaves.
LEMMA ObserveKeeps ==
  ASSUME GateInv, NEW d \in Driver, Observe(d)
  PROVE  GateInv'
  <1>1. UNCHANGED files /\ UNCHANGED <<head, commits, crashes>>
    BY DEF Observe, ReadOnly, KeepLedger, KeepWorld, KeepLanes, files
  <1>2. head' \in HeadSha /\ commits' \in Nat /\ crashes' \in Nat BY <1>1 DEF GateInv, Typed
  <1>3. CASE Exists(gate) /\ gate.phase # "terminal" /\ gate.head # head
    <2> DEFINE r == [Idle EXCEPT !.pc = "pick", !.run = Identity(gate),
                                 !.ready = Collected(gate), !.draining = TRUE]
    <2>1. drv' = [drv EXCEPT ![d] = r] /\ gate.phase = "awaiting-callback"
      BY <1>3 DEF Observe, Hold, Rehydrates
    <2>2. /\ r \in Holding /\ r.pc = "pick" /\ r.run = Identity(gate) /\ r.ready = Collected(gate)
          /\ r.mine = {}
      <3>1. Typed /\ gate \in GateFile BY DEF GateInv, Typed
      <3>2. "pick" \in Point BY DEF Point
      <3>3. QED BY <3>1, <3>2, IdleTyped, IdentityTyped, CollectedTyped DEF Holding
    <2>3. DriverOK(r)
      <3>1. \A a \in Axis : r.ready[a] # "" => a \in Axes(gate)
        BY <2>2, CollectedTyped DEF GateInv
      <3> HIDE DEF r
      <3>2. QED BY <1>3, <2>1, <2>2, <3>1
              DEF DriverOK, Reads, Rescues, Asks, Reserved, Opens, Takes, Lasts, Opening, Taking
    <2> HIDE DEF r
    <2>4. QED BY <1>1, <1>2, <2>1, <2>2, <2>3, DriverMoves
  <1>4. CASE ~(Exists(gate) /\ gate.phase # "terminal" /\ gate.head # head)
    <2> DEFINE r == [Idle EXCEPT !.pc = "decide"]
    <2>1. drv' = [drv EXCEPT ![d] = r] BY <1>4 DEF Observe, Hold
    <2>2. r \in Holding /\ r.pc = "decide" /\ r.mine = {}
      BY IdleTyped DEF Holding, Point
    <2> HIDE DEF r
    <2>3. DriverOK(r) BY <2>2, BetweenOK
    <2>4. QED BY <1>1, <1>2, <2>1, <2>2, <2>3, DriverMoves
  <1>5. QED BY <1>3, <1>4

\* A driver goes on when no answer is left to take.
LEMMA PickedKeeps ==
  ASSUME GateInv, NEW d \in Driver, Picked(d)
  PROVE  GateInv'
  <1>1. UNCHANGED files /\ UNCHANGED <<head, commits, crashes>>
    BY DEF Picked, ReadOnly, KeepLedger, KeepWorld, KeepLanes, files
  <1>2. head' \in HeadSha /\ commits' \in Nat /\ crashes' \in Nat BY <1>1 DEF GateInv, Typed
  <1> DEFINE r == [drv[d] EXCEPT !.pc = "record"]
  <1>3. drv' = [drv EXCEPT ![d] = r] BY DEF Picked, Hold
  <1>4. drv[d] \in Holding /\ DriverOK(drv[d]) BY HoldingOf
  <1>5. drv[d].pc = "pick" BY DEF Picked
  <1>6. r \in Holding /\ r.pc = "record" /\ r.mine = {}
    BY <1>4, <1>5 DEF Holding, Point, DriverOK, Reads
  <1> HIDE DEF r
  <1>7. DriverOK(r) BY <1>6, BetweenOK
  <1>8. QED BY <1>1, <1>2, <1>3, <1>6, <1>7, DriverMoves

\* A driver dies: the files stay as they are.
LEMMA CrashKeeps ==
  ASSUME GateInv, NEW d \in Driver, Crash(d)
  PROVE  GateInv'
  <1>1. UNCHANGED files /\ UNCHANGED <<head, commits>> /\ crashes' = crashes + 1
        /\ drv' = [drv EXCEPT ![d] = Idle]
    BY DEF Crash, files, Leave, Hold
  <1>2. head' \in HeadSha /\ commits' \in Nat /\ crashes' \in Nat BY <1>1 DEF GateInv, Typed
  <1>3. QED BY <1>1, <1>2, IdleTyped, IdleOK, DriverMoves

\* HEAD moves: the files stay as they are.
LEMMA CommitKeeps ==
  ASSUME GateInv, Commit
  PROVE  GateInv'
  <1>1. /\ UNCHANGED files /\ UNCHANGED <<drv, crashes>> /\ head' \in HeadSha
        /\ commits' = commits + 1
    BY DEF Commit, files
  <1>2. UNCHANGED <<gate, session, answers, outbox, ledger, granted>> BY <1>1 DEF files
  <1>3. Typed' BY <1>1, <1>2 DEF GateInv, Typed
  <1>4. /\ IInv' /\ LanesOK' /\ GateOK' /\ VerdictIsAnswered' /\ \A x : DriverOK(x) => DriverOK(x)'
    BY <1>1, Undisturbed DEF GateInv
  <1>5. ASSUME NEW e \in Driver PROVE DriverOK(drv[e])'
    <2>1. drv'[e] = drv[e] /\ DriverOK(drv[e]) BY <1>1 DEF GateInv
    <2>2. QED BY <1>4, <2>1, HoldsNext
  <1>6. QED BY <1>3, <1>4, <1>5 DEF GateInv

\* A request for an attempt is one the ledger takes.
LEMMA RequestTyped ==
  ASSUME NEW q \in Asked, q.attempt \in Attempt, q.head \in HeadSha
  PROVE  q \in Request
  BY DEF Request, Asked

\* The request of a driver that asks nothing yet.
LEMMA NoRequestTyped ==
  ASSUME NEW h \in HeadSha
  PROVE  NoRequest(h) \in Asked /\ NoRequest(h).head = h /\ NoRequest(h).recover = FALSE
  BY DEF NoRequest, Asked

\* The driver reads gate and HEAD, and decides what to ask for.
LEMMA DecideKeeps ==
  ASSUME GateInv, NEW d \in Driver, Decide(d)
  PROVE  GateInv'
  <1>1. UNCHANGED files /\ UNCHANGED <<head, commits, crashes>>
    BY DEF Decide, ReadOnly, KeepLedger, KeepWorld, KeepLanes, files
  <1>2. head' \in HeadSha /\ commits' \in Nat /\ crashes' \in Nat /\ head \in HeadSha
    BY <1>1 DEF GateInv, Typed
  <1>3. drv[d] \in Holding /\ DriverOK(drv[d]) /\ drv[d].pc = "decide" /\ gate \in GateFile
    BY HoldingOf DEF Decide
  <1>4. drv[d].mine = {} BY <1>3 DEF DriverOK, Reads
  <1>5. {"reserve", "recover", "settle"} \subseteq Point BY DEF Point
  <1>6. CASE ~Exists(gate)
    <2> DEFINE q == [NoRequest(head) EXCEPT !.attempt = FirstId(head, 1)]
               r == [[drv[d] EXCEPT !.head = head, !.seen = gate] EXCEPT
                       !.pc = "reserve", !.cycle = 1, !.q = q]
    <2>1. drv' = [drv EXCEPT ![d] = r] BY <1>6 DEF Decide, Hold
    <2>2. q \in Request /\ q \in Asked /\ ~q.recover
      <3>1. 1 \in 1..MaxCycles + 1 BY AxesAre
      <3>2. FirstId(head, 1) \in Attempt BY <1>2, <3>1, IdsAre
      <3>3. /\ q \in Asked /\ q.attempt = FirstId(head, 1) /\ q.head = head
            /\ q.recover = FALSE
        BY <1>2, <3>2, NoRequestTyped DEF Asked
      <3>4. QED BY <1>2, <3>2, <3>3, RequestTyped
    <2> HIDE DEF q
    <2>3. /\ r \in Holding /\ r.pc = "reserve" /\ r.cycle = 1 /\ r.q = q /\ r.mine = {}
          /\ r.seen = gate /\ r.head = head
      BY <1>2, <1>3, <1>4, <1>5, <2>2 DEF Holding
    <2> HIDE DEF r
    <2>4. DriverOK(r)
      BY <1>2, <1>6, <2>2, <2>3
      DEF DriverOK, Reads, Rescues, Asks, Reserved, Opens, Takes, Lasts, Opening, Taking, Terminal
    <2>5. QED BY <1>1, <1>2, <2>1, <2>3, <2>4, DriverMoves
  <1>7. CASE Exists(gate) /\ gate.phase # "terminal"
    <2> DEFINE q == Held(gate, head)
               r == [[drv[d] EXCEPT !.head = head, !.seen = gate] EXCEPT
                       !.pc = "reserve", !.cycle = gate.cycle, !.q = q]
    <2>1. drv' = [drv EXCEPT ![d] = r] BY <1>7 DEF Decide, Hold
    <2>2. q \in Request /\ q \in Asked /\ q.attempt = gate.id
      <3>1. gate.id \in Attempt BY <1>3, <1>7 DEF Exists, GateFile
      <3>2. CleanupComplete(gate) \in BOOLEAN BY DEF CleanupComplete
      <3>3. \A b \in BOOLEAN :
              LET x == [NoRequest(head) EXCEPT !.attempt = gate.id, !.recover = b]
              IN x \in Asked /\ x.attempt = gate.id /\ x.head = head
        BY <1>2, <3>1, NoRequestTyped DEF Asked
      <3>4. q \in Asked /\ q.attempt = gate.id /\ q.head = head BY <3>2, <3>3 DEF Held
      <3>5. QED BY <1>2, <3>1, <3>4, RequestTyped
    <2> HIDE DEF q
    <2>3. /\ r \in Holding /\ r.pc = "reserve" /\ r.cycle = gate.cycle /\ r.q = q /\ r.mine = {}
          /\ r.seen = gate /\ r.head = head
      BY <1>2, <1>3, <1>4, <1>5, <2>2 DEF Holding, GateFile
    <2> HIDE DEF r
    <2>4. DriverOK(r)
      BY <1>2, <1>7, <2>2, <2>3
      DEF DriverOK, Reads, Rescues, Asks, Reserved, Opens, Takes, Lasts, Opening, Taking, Terminal
    <2>5. QED BY <1>1, <1>2, <2>1, <2>3, <2>4, DriverMoves
  <1>8. CASE Exists(gate) /\ gate.phase = "terminal"
    <2> DEFINE r == [[drv[d] EXCEPT !.head = head, !.seen = gate] EXCEPT
                       !.pc = IF Interrupted(gate) THEN "recover" ELSE "settle"]
    <2>1. drv' = [drv EXCEPT ![d] = r] BY <1>8 DEF Decide, Hold
    <2>3. /\ r \in Holding /\ r.mine = {} /\ r.seen = gate /\ r.head = head
          /\ r.pc = IF Interrupted(gate) THEN "recover" ELSE "settle"
      BY <1>2, <1>3, <1>4, <1>5 DEF Holding
    <2> HIDE DEF r
    <2>4. DriverOK(r)
      BY <1>2, <1>8, <2>3
      DEF DriverOK, Reads, Rescues, Asks, Reserved, Opens, Takes, Lasts, Opening, Taking, Terminal,
          Interrupted
    <2>5. QED BY <1>1, <1>2, <2>1, <2>3, <2>4, DriverMoves
  <1>9. QED BY <1>6, <1>7, <1>8

\* With a reservation for a fresh attempt it opens it, with one for the
\* gate's attempt it goes to the answers.
LEMMA EnterKeeps ==
  ASSUME GateInv, NEW d \in Driver, Enter(d)
  PROVE  GateInv'
  <1>1. UNCHANGED files /\ UNCHANGED <<head, commits, crashes>>
    BY DEF Enter, ReadOnly, KeepLedger, KeepWorld, KeepLanes, files
  <1>2. head' \in HeadSha /\ commits' \in Nat /\ crashes' \in Nat
    BY <1>1 DEF GateInv, Typed
  <1>3. /\ drv[d] \in Holding /\ DriverOK(drv[d]) /\ drv[d].pc = "enter" /\ gate \in GateFile
        /\ Typed
    BY HoldingOf DEF Enter
  <1>4. drv[d].mine = {} /\ drv[d].seen = gate /\ drv[d].head \in HeadSha
    BY <1>3 DEF DriverOK, Reads, Lasts
  <1>5. CASE ~Exists(drv[d].seen) \/ gate.phase = "terminal"
    <2> DEFINE r == [drv[d] EXCEPT !.pc = "initialize"]
    <2>1. drv' = [drv EXCEPT ![d] = r] BY <1>5 DEF Enter, Hold
    <2>2. /\ r \in Holding /\ r.pc = "initialize" /\ r.mine = {} /\ r.seen = gate
          /\ r.head \in HeadSha /\ r.q = drv[d].q /\ r.cycle = drv[d].cycle
      BY <1>3, <1>4 DEF Holding, Point
    <2> HIDE DEF r
    <2>3. Terminal \/ ~Exists(gate) BY <1>4, <1>5 DEF Terminal
    <2>4. Reserved(r) BY <1>3, <2>2, <2>3 DEF DriverOK, Reserved
    <2>5. DriverOK(r)
      BY <2>2, <2>3, <2>4 DEF DriverOK, Reads, Rescues, Asks, Opens, Takes, Lasts, Opening, Taking
    <2>6. QED BY <1>1, <1>2, <2>1, <2>2, <2>5, DriverMoves
  <1>6. CASE ~(~Exists(drv[d].seen) \/ gate.phase = "terminal") /\ Rehydrates(gate)
             /\ drv' # [drv EXCEPT ![d] = Idle]
    <2> DEFINE r == [drv[d] EXCEPT !.pc = "pick", !.run = Identity(gate), !.ready = Collected(gate)]
    <2>1. drv' = [drv EXCEPT ![d] = r] /\ gate.phase = "awaiting-callback"
      BY <1>6 DEF Enter, Hold, Leave, Rehydrates
    <2>2. /\ r \in Holding /\ r.pc = "pick" /\ r.run = Identity(gate) /\ r.ready = Collected(gate)
          /\ r.mine = {}
      BY <1>3, <1>4, IdentityTyped, CollectedTyped DEF Holding, Point
    <2>3. \A a \in Axis : r.ready[a] # "" => a \in Axes(gate) BY <1>3, <2>2, CollectedTyped
    <2> HIDE DEF r
    <2>4. Exists(gate) BY <1>4, <1>6
    <2>5. DriverOK(r)
      BY <2>1, <2>2, <2>3, <2>4
      DEF DriverOK, Reads, Rescues, Asks, Reserved, Opens, Takes, Lasts, Opening, Taking
    <2>6. QED BY <1>1, <1>2, <2>1, <2>2, <2>5, DriverMoves
  <1>7. CASE drv' = [drv EXCEPT ![d] = Idle]
    BY <1>1, <1>2, <1>7, IdleTyped, IdleOK, DriverMoves
  <1>8. QED BY <1>5, <1>6, <1>7 DEF Enter, Leave, Hold

\* The gate's results are read with this answer put in.
LEMMA ReadResultsKeeps ==
  ASSUME GateInv, NEW d \in Driver, ReadResults(d)
  PROVE  GateInv'
  <1>1. UNCHANGED files /\ UNCHANGED <<head, commits, crashes>>
    BY DEF ReadResults, ReadOnly, KeepLedger, KeepWorld, KeepLanes, files
  <1>2. head' \in HeadSha /\ commits' \in Nat /\ crashes' \in Nat
    BY <1>1 DEF GateInv, Typed
  <1>3. /\ drv[d] \in Holding /\ DriverOK(drv[d]) /\ drv[d].pc = "merge" /\ gate \in GateFile
        /\ Typed /\ GateOK
    BY HoldingOf DEF ReadResults, GateInv
  <1> DEFINE a == drv[d].axis
             v == drv[d].seen.finals[a]
             f == [gate.finals EXCEPT ![a] = v]
             l == [gate.lanes EXCEPT ![a] = "done"]
             g == [NoGate EXCEPT !.lanes = l, !.finals = f]
             r == [drv[d] EXCEPT !.pc = "write", !.seen = g]
  <1>4. drv' = [drv EXCEPT ![d] = r] BY DEF ReadResults, Hold
  <1>5. a \in Axis /\ v \in Verdict \cup {""} BY <1>3 DEF Holding, GateFile
  <1>6. /\ <<gate.id, a, v>> \in answers /\ session[a].child = "complete"
        /\ session[a].parent = "complete" /\ drv[d].mine = {}
        /\ Exists(gate) /\ Identity(gate) = drv[d].run /\ gate.phase = "awaiting-callback"
        /\ \A b \in Axis : drv[d].ready[b] # "" => b \in Axes(gate)
    BY <1>3 DEF DriverOK, Reads, Takes, Taking
  <1>7. Terminated(session[a]) BY <1>6 DEF Terminated
  <1>8. gate.finals \in [Axis -> Verdict \cup {""}] /\ gate.lanes \in [Axis -> {"none", "open", "done"}]
    BY <1>3 DEF GateFile
  <1>9. f \in [Axis -> Verdict \cup {""}] /\ l \in [Axis -> {"none", "open", "done"}]
    BY <1>5, <1>8
  <1>10. \A b \in Axis : f[b] # "" => <<gate.id, b, f[b]>> \in answers /\ Terminated(session[b])
    <2>1. \A b \in Axis : gate.finals[b] # "" =>
            <<gate.id, b, gate.finals[b]>> \in answers /\ Terminated(session[b])
      BY <1>3 DEF GateOK
    <2>2. \A b \in Axis : b # a => f[b] = gate.finals[b] BY <1>8
    <2>3. f[a] = v BY <1>5, <1>8
    <2>4. QED BY <1>6, <1>7, <2>1, <2>2, <2>3
  <1> HIDE DEF f, l, v, a
  <1>11. g \in GateFile /\ g.finals = f BY <1>9, NoGateTyped DEF GateFile
  <1> HIDE DEF g
  <1>12. /\ r \in Holding /\ r.pc = "write" /\ r.seen = g /\ r.mine = {} /\ r.run = drv[d].run
         /\ r.ready = drv[d].ready
    BY <1>3, <1>6, <1>11 DEF Holding, Point
  <1> HIDE DEF r
  <1>13. DriverOK(r)
    <2>1. Takes(r) BY <1>6, <1>10, <1>11, <1>12 DEF Takes, Taking
    <2>2. QED BY <1>12, <2>1 DEF DriverOK, Reads, Rescues, Asks, Reserved, Opens, Lasts, Opening
  <1>14. QED BY <1>1, <1>2, <1>4, <1>12, <1>13, DriverMoves

-----------------------------------------------------------------------------
(* Steps of the lanes: operations stay, answers come once, what has ended  *)
(* stays ended.                                                            *)

\* Lane a goes on: it keeps its operation and its answer, and what has ended stays ended.
Continues(a) ==
  LET s == session[a]
      t == session'[a]
  IN /\ t.op = s.op
     /\ \/ t.child = s.child /\ t.answer = s.answer
        \/ s.child = "accepted" /\ t.child = "complete" /\ t.answer = s.answer
        \/ /\ s.child = "awaiting" /\ t.child \in {"accepted", "complete"} /\ t.answer \in Verdict
           /\ <<s.op, a, t.answer>> \in answers'
     /\ Terminated(s) => Terminated(t)
     /\ s.parent = "complete" => t.parent = "complete"
     /\ t.parent = "none" => s.parent = "none"

\* Every lane goes on, and every new answer is one a waiting child has taken.
LanesKeep ==
  /\ session' \in [Axis -> Lane]
  /\ answers \subseteq answers'
  /\ \A x \in answers' : x \in answers \/
       \E a \in Axis : /\ session[a].child = "awaiting" /\ session'[a].child \in {"accepted", "complete"}
                       /\ x = <<session[a].op, a, session'[a].answer>> /\ session'[a].answer \in Verdict
  /\ \A a \in Axis : Continues(a)

\* Lanes that go on keep their invariant.
LEMMA LanesStay ==
  ASSUME Typed, LanesOK, LanesKeep, UNCHANGED <<gate, outbox, ledger, granted>>
  PROVE  LanesOK' /\ answers' \subseteq Attempt \X Axis \X Verdict
  <1>1. session \in [Axis -> Lane] /\ session' \in [Axis -> Lane]
        /\ answers \subseteq Attempt \X Axis \X Verdict
    BY DEF Typed, LanesKeep
  <1>2. ASSUME NEW x \in answers', x \notin answers
        PROVE  x[1] \in granted /\ x \in Attempt \X Axis \X Verdict
    <2>1. PICK a \in Axis : /\ session[a].child = "awaiting"
                            /\ x = <<session[a].op, a, session'[a].answer>> /\ session'[a].answer \in Verdict
      BY <1>2 DEF LanesKeep
    <2>2. session[a].op \in granted \cup {NoAttempt} /\ session[a].op # NoAttempt
      BY <2>1 DEF LanesOK
    <2>3. session[a].op \in Attempt BY <1>1, <2>2 DEF Lane
    <2>4. QED BY <2>1, <2>2, <2>3
  <1>3. \A x \in answers' : x[1] \in granted' BY <1>2 DEF LanesOK
  <1>4. ASSUME NEW a \in Axis
        PROVE  LET s == session'[a] IN
               /\ s.op \in granted \cup {NoAttempt}
               /\ s.op = NoAttempt => s.child = "none"
               /\ s.parent = "none" => s.op = NoAttempt
               /\ s.child \in {"accepted", "complete"} =>
                    s.answer \in Verdict /\ <<s.op, a, s.answer>> \in answers'
               /\ s.op \notin {NoAttempt, gate.id} => Terminated(s)
               /\ s.op = gate.id /\ Exists(gate) => a \in Axes(gate)
               /\ outbox[a].op # NoAttempt => outbox[a].answer \in Verdict
    <2>1. Continues(a) /\ answers \subseteq answers' BY DEF LanesKeep
    <2>2. QED BY <2>1 DEF Continues, LanesOK
  <1>5. ASSUME NEW a \in Axis, NEW v \in Verdict, <<session'[a].op, a, v>> \in answers'
        PROVE  session'[a].child # "awaiting" /\ v = session'[a].answer
    <2>1. Continues(a) BY DEF LanesKeep
    <2>2. CASE <<session[a].op, a, v>> \in answers
      <3>1. session[a].child # "awaiting" /\ v = session[a].answer BY <2>2 DEF LanesOK
      <3>2. QED BY <2>1, <3>1 DEF Continues
    <2>3. CASE <<session[a].op, a, v>> \notin answers
      <3>1. <<session[a].op, a, v>> \in answers' BY <1>5, <2>1 DEF Continues
      <3>2. PICK b \in Axis : /\ session'[b].child \in {"accepted", "complete"}
                              /\ <<session[a].op, a, v>> = <<session[b].op, b, session'[b].answer>>
        BY <2>3, <3>1 DEF LanesKeep
      <3>3. b = a /\ v = session'[b].answer BY <3>2
      <3>4. QED BY <3>2, <3>3
    <2>4. QED BY <2>2, <2>3
  <1>6. LanesOK'
    BY <1>3, <1>4, <1>5 DEF LanesOK, Exists, Axes, Terminated
  <1>7. QED BY <1>1, <1>2, <1>6

\* Lanes that go on keep what the gate relies on.
LEMMA GateStays ==
  ASSUME GateOK, LanesOK, LanesKeep, UNCHANGED <<gate, ledger, granted>>, IInv
  PROVE  GateOK'
  <1>1. \A a \in Axis : session'[a].op = session[a].op /\ (Terminated(session[a]) => Terminated(session'[a]))
    BY DEF LanesKeep, Continues
  <1>2. ASSUME Active(ledger), Holder(ledger) # gate.id
        PROVE  /\ \A a \in Axis : session'[a].op # Holder(ledger)
               /\ \A x \in answers' : x[1] # Holder(ledger)
    <2>1. /\ \A a \in Axis : session[a].op # Holder(ledger)
          /\ \A x \in answers : x[1] # Holder(ledger)
      BY <1>2 DEF GateOK
    <2>2. ASSUME NEW x \in answers', x \notin answers PROVE \E a \in Axis : x[1] = session[a].op
      BY <2>2 DEF LanesKeep
    <2>3. QED BY <1>1, <2>1, <2>2
  <1>3. answers \subseteq answers' BY DEF LanesKeep
  <1>4. Place(ledger, gate.id, gate.cycle)' = Place(ledger, gate.id, gate.cycle) BY DEF Place
  <1>5. Active(ledger)' = Active(ledger) /\ Holder(ledger)' = Holder(ledger)
        /\ Exists(gate)' = Exists(gate) /\ Axes(gate)' = Axes(gate)
        /\ NoGate' = NoGate
        /\ Outcome(gate.finals, Axes(gate))' = Outcome(gate.finals, Axes(gate))
    BY DEF Active, Holder, LastOf, Exists, Axes
  <1>6. IF Exists(gate) THEN gate.cycle \in 1..MaxCycles /\ Place(ledger, gate.id, gate.cycle)
        ELSE gate = NoGate
    BY DEF GateOK
  <1>7. /\ (gate.phase = "terminal") = (gate.result # "")
        /\ \A i \in 1..Len(ledger.cycles) : ledger.cycles[i].result # Unset =>
             i <= gate.cycle /\ (i = gate.cycle => ledger.cycles[i].attempt = gate.id)
        /\ gate.phase \in {"pending", "running"} => gate.finals = NoFinal
        /\ gate.phase = "terminal" /\ gate.graded =>
             /\ \A a \in Axes(gate) : gate.finals[a] # ""
             /\ gate.result = Outcome(gate.finals, Axes(gate))
        /\ gate.phase = "terminal" /\ ~gate.graded => gate.result \in Mechanism
    BY DEF GateOK
  <1>8. Exists(gate) /\ gate.phase = "awaiting-callback" => \A a \in Axes(gate) : session'[a].op = gate.id
    <2>1. Exists(gate) => Axes(gate) \subseteq Axis BY <1>6, AxesAre DEF Axes
    <2>2. QED BY <1>1, <2>1 DEF GateOK
  <1>9. \A a \in Axis : gate.finals[a] # "" =>
          Exists(gate) /\ <<gate.id, a, gate.finals[a]>> \in answers' /\ Terminated(session'[a])
    BY <1>1, <1>3 DEF GateOK
  <1>a. \A a : Terminated(session[a])' = Terminated(session'[a]) BY DEF Terminated
  <1>10. QED BY <1>2, <1>4, <1>5, <1>6, <1>7, <1>8, <1>9, <1>a DEF GateOK

\* Lanes that go on keep what a driver relies on.
LEMMA DriverStays ==
  ASSUME LanesOK, LanesKeep, UNCHANGED <<gate, ledger, granted>>, NEW r \in Holding, DriverOK(r)
  PROVE  DriverOK(r)'
  <1>0. ASSUME NEW a \in Axis
        PROVE  /\ session'[a].op = session[a].op
               /\ session[a].child \in {"accepted", "complete"} => session'[a].child \in {"accepted", "complete"}
               /\ session[a].child = "complete" => session'[a].child = "complete"
               /\ session[a].parent = "complete" => session'[a].parent = "complete"
               /\ Terminated(session[a]) => Terminated(session'[a])
    <2>1. Continues(a) BY DEF LanesKeep
    <2>2. QED BY <2>1 DEF Continues
  <1>1. Reads(r)' BY DEF DriverOK, Reads, Terminal, Exists
  <1>2. Rescues(r)' BY <1>0 DEF DriverOK, Rescues, Axes
  <1>3. Asks(r)' BY DEF DriverOK, Asks, Terminal, Exists, Recorded
  <1>4. Reserved(r)' BY DEF DriverOK, Reserved, Terminal, Exists, Active, Holder, LastOf
  <1>5. Opens(r)'
    <2>1. ASSUME r.pc \in {"run", "launch"}, NEW x \in answers', x[1] = gate.id PROVE x[2] \in r.mine
      <3>1. CASE x \in answers BY <2>1, <3>1 DEF DriverOK, Opens
      <3>2. CASE x \notin answers
        <4>1. PICK a \in Axis : x = <<session[a].op, a, session'[a].answer>>
          BY <2>1, <3>2 DEF LanesKeep
        <4>2. session[a].op = gate.id /\ x[2] = a BY <2>1, <4>1
        <4>3. QED BY <2>1, <4>2 DEF DriverOK, Opens
      <3>3. QED BY <3>1, <3>2
    <2>2. QED BY <1>0, <2>1 DEF DriverOK, Opens, Exists, Identity, Axes
  <1>6. Takes(r)'
    <2>1. answers \subseteq answers' /\ r.axis \in Axis BY DEF LanesKeep, Holding
    <2>2. QED BY <1>0, <2>1 DEF DriverOK, Takes, Exists, Identity, Axes, Terminated
  <1>7. QED BY <1>1, <1>2, <1>3, <1>4, <1>5, <1>6 DEF DriverOK

\* More answers back the ledger's verdicts as well.
LEMMA VerdictsStay ==
  ASSUME VerdictIsAnswered, answers \subseteq answers', UNCHANGED ledger
  PROVE  VerdictIsAnswered'
  BY DEF VerdictIsAnswered

\* A step of the reviewers and their workers.
LEMMA EnvironmentLanes ==
  ASSUME GateInv, LanesKeep, outbox' \in [Axis -> Post],
         \A a \in Axis : outbox'[a].op # NoAttempt => outbox'[a].answer \in Verdict,
         UNCHANGED <<gate, ledger, granted, head, drv, commits, crashes>>,
         UNCHANGED outbox \/ UNCHANGED <<session, answers>>
  PROVE  GateInv'
  <1>1. IInv /\ Typed /\ LanesOK /\ GateOK /\ VerdictIsAnswered /\ answers \subseteq answers'
        /\ drv \in [Driver -> Holding] /\ \A d \in Driver : DriverOK(drv[d])
    BY DEF GateInv, LanesKeep, Typed
  <1>2. IInv' BY <1>1, LedgerUndisturbed
  <1>3. LanesOK' /\ answers' \subseteq Attempt \X Axis \X Verdict
    <2>1. CASE UNCHANGED outbox BY <1>1, <2>1, LanesStay
    <2>2. CASE UNCHANGED <<session, answers>>
      BY <1>1, <2>2 DEF LanesOK, Typed, Terminated, Exists, Axes
    <2>3. QED BY <2>1, <2>2
  <1>4. GateOK' BY <1>1, GateStays
  <1>5. VerdictIsAnswered' BY <1>1, VerdictsStay
  <1>6. Typed' BY <1>1, <1>3 DEF Typed, LanesKeep
  <1>7. ASSUME NEW e \in Driver PROVE DriverOK(drv[e])'
    <2>1. drv[e] \in Holding /\ DriverOK(drv[e]) /\ drv'[e] = drv[e] BY <1>1
    <2>2. DriverOK(drv[e])' BY <1>1, <2>1, DriverStays, HoldsNext
    <2>3. QED BY <2>2
  <1>8. QED BY <1>2, <1>3, <1>4, <1>5, <1>6, <1>7 DEF GateInv

\* A step of a driver on the lanes.
LEMMA DriverLanes ==
  ASSUME GateInv, LanesKeep, UNCHANGED <<gate, outbox, ledger, granted, head, commits, crashes>>,
         NEW d \in Driver, NEW r \in Holding, drv' = [drv EXCEPT ![d] = r], DriverOK(r)'
  PROVE  GateInv'
  <1>1. IInv /\ Typed /\ LanesOK /\ GateOK /\ VerdictIsAnswered /\ answers \subseteq answers'
        /\ drv \in [Driver -> Holding] /\ \A e \in Driver : DriverOK(drv[e])
    BY DEF GateInv, LanesKeep, Typed
  <1>2. IInv' BY <1>1, LedgerUndisturbed
  <1>3. LanesOK' /\ answers' \subseteq Attempt \X Axis \X Verdict BY <1>1, LanesStay
  <1>4. GateOK' BY <1>1, GateStays
  <1>5. VerdictIsAnswered' BY <1>1, VerdictsStay
  <1>6. Typed' BY <1>1, <1>3 DEF Typed, LanesKeep
  <1>7. ASSUME NEW e \in Driver PROVE DriverOK(drv[e])'
    <2>1. CASE e = d
      <3>1. drv'[e] = r BY <1>1, <2>1
      <3>2. QED BY <3>1, HoldsNext
    <2>2. CASE e # d
      <3>1. drv[e] \in Holding /\ DriverOK(drv[e]) /\ drv'[e] = drv[e] BY <1>1, <2>2
      <3>2. QED BY <1>1, <3>1, DriverStays, HoldsNext
    <2>3. QED BY <2>1, <2>2
  <1>8. QED BY <1>2, <1>3, <1>4, <1>5, <1>6, <1>7 DEF GateInv

\* One lane is written.
LEMMA OneLaneWritten ==
  ASSUME Typed, NEW a \in Axis, NEW s \in Lane, session' = [session EXCEPT ![a] = s],
         answers' = answers \/ (/\ answers' = answers \cup {<<session[a].op, a, s.answer>>}
                               /\ \/ <<session[a].op, a, s.answer>> \in answers
                                  \/ session[a].child = "awaiting" /\ s.child \in {"accepted", "complete"}),
         s.op = session[a].op,
         \/ s.child = session[a].child /\ s.answer = session[a].answer
         \/ session[a].child = "accepted" /\ s.child = "complete" /\ s.answer = session[a].answer
         \/ /\ session[a].child = "awaiting" /\ s.child \in {"accepted", "complete"} /\ s.answer \in Verdict
            /\ <<session[a].op, a, s.answer>> \in answers',
         Terminated(session[a]) => Terminated(s),
         session[a].parent = "complete" => s.parent = "complete",
         s.parent = "none" => session[a].parent = "none"
  PROVE  LanesKeep
  <1>1. session \in [Axis -> Lane] /\ session' \in [Axis -> Lane] BY DEF Typed
  <1>2. session'[a] = s /\ \A b \in Axis : b # a => session'[b] = session[b] BY <1>1
  <1>3. Continues(a) BY <1>2 DEF Continues
  <1>4. \A b \in Axis : b # a => Continues(b) BY <1>2 DEF Continues
  <1>5. \A x \in answers' : x \in answers \/
          (/\ session[a].child = "awaiting" /\ session'[a].child \in {"accepted", "complete"}
           /\ x = <<session[a].op, a, session'[a].answer>> /\ session'[a].answer \in Verdict)
    BY <1>2
  <1>6. QED BY <1>1, <1>3, <1>4, <1>5 DEF LanesKeep

\* A reviewer publishes.
LEMMA AnswerKeeps ==
  ASSUME GateInv, NEW a \in Axis, NEW v \in Verdict, Answer(a, v)
  PROVE  GateInv'
  <1>1. Typed /\ LanesOK BY DEF GateInv
  <1>2. session \in [Axis -> Lane] /\ outbox \in [Axis -> Post] BY <1>1 DEF Typed
  <1>3. outbox' = [outbox EXCEPT ![a] = [op |-> session[a].op, answer |-> v]] BY DEF Answer
  <1>4. outbox' \in [Axis -> Post] BY <1>2, <1>3 DEF Post, Lane
  <1>5. \A b \in Axis : outbox'[b].op # NoAttempt => outbox'[b].answer \in Verdict
    BY <1>1, <1>2, <1>3 DEF LanesOK
  <1>6. UNCHANGED <<session, answers, gate, ledger, granted, head, drv, commits, crashes>>
    BY DEF Answer
  <1>7. LanesKeep BY <1>2, <1>6 DEF LanesKeep, Continues, Terminated
  <1>8. QED BY <1>4, <1>5, <1>6, <1>7, EnvironmentLanes

\* A worker takes the answer of its round.
LEMMA WorkerAcceptsKeeps ==
  ASSUME GateInv, NEW a \in Axis, WorkerAccepts(a)
  PROVE  GateInv'
  <1>1. Typed /\ LanesOK BY DEF GateInv
  <1>2. session \in [Axis -> Lane] /\ outbox \in [Axis -> Post] BY <1>1 DEF Typed
  <1>3. /\ outbox[a].op = session[a].op /\ session[a].child = "awaiting"
        /\ session' = [session EXCEPT ![a].child = "accepted", ![a].answer = outbox[a].answer,
                                      ![a].parent = "live"]
        /\ answers' = answers \cup {<<session[a].op, a, outbox[a].answer>>}
        /\ UNCHANGED <<outbox, gate, ledger, granted, head, drv, commits, crashes>>
        /\ session[a].parent \in {"live", "attention"}
    BY DEF WorkerAccepts, Take
  <1>4. outbox[a].answer \in Verdict
    <2>1. session[a].op # NoAttempt BY <1>1, <1>3 DEF LanesOK
    <2>2. QED BY <1>1, <1>3, <2>1 DEF LanesOK
  <1> DEFINE s == [session[a] EXCEPT !.child = "accepted", !.answer = outbox[a].answer, !.parent = "live"]
  <1>5. /\ s \in Lane /\ s.op = session[a].op /\ s.child = "accepted" /\ s.answer = outbox[a].answer
        /\ s.parent = "live"
    BY <1>2, <1>4 DEF Lane
  <1>9. session' = [session EXCEPT ![a] = s] BY <1>2, <1>3 DEF Lane
  <1> HIDE DEF s
  <1>6. LanesKeep BY <1>1, <1>3, <1>4, <1>5, <1>9, OneLaneWritten DEF Terminated
  <1>7. \A b \in Axis : outbox'[b].op # NoAttempt => outbox'[b].answer \in Verdict
    BY <1>1, <1>3 DEF LanesOK
  <1>8. QED BY <1>2, <1>3, <1>6, <1>7, EnvironmentLanes

\* A wait runs out, or an operator retires an uncertain start.
LEMMA ParentKeeps ==
  ASSUME GateInv, NEW a \in Axis, WaitRunsOut(a) \/ Retire(a)
  PROVE  GateInv'
  <1>1. Typed /\ LanesOK BY DEF GateInv
  <1>2. session \in [Axis -> Lane] /\ outbox \in [Axis -> Post] BY <1>1 DEF Typed
  <1>3. /\ \/ session[a].parent = "live" /\ session' = [session EXCEPT ![a].parent = "attention"]
           \/ session[a].parent = "attention" /\ session' = [session EXCEPT ![a].parent = "failed"]
        /\ UNCHANGED <<answers, outbox, gate, ledger, granted, head, drv, commits, crashes>>
    BY DEF WaitRunsOut, Retire
  <1>4. PICK p \in {"attention", "failed"} :
          /\ session' = [session EXCEPT ![a].parent = p]
          /\ session[a].parent \in {"live", "attention"}
    BY <1>3
  <1> DEFINE s == [session[a] EXCEPT !.parent = p]
  <1>8. /\ s \in Lane /\ s.op = session[a].op /\ s.child = session[a].child
        /\ s.answer = session[a].answer /\ s.parent = p
    BY <1>2, <1>4 DEF Lane
  <1>9. session' = [session EXCEPT ![a] = s] BY <1>2, <1>4
  <1> HIDE DEF s
  <1>5. LanesKeep BY <1>1, <1>3, <1>4, <1>8, <1>9, OneLaneWritten DEF Terminated
  <1>6. \A b \in Axis : outbox'[b].op # NoAttempt => outbox'[b].answer \in Verdict
    BY <1>1, <1>3 DEF LanesOK
  <1>7. QED BY <1>2, <1>3, <1>5, <1>6, EnvironmentLanes

\* The exit and cleanup of a lane, whatever it comes to.
LEMMA CleanedUpIs ==
  ASSUME Typed, NEW a \in Axis, NEW p \in CleanedUp(a), session[a].parent # "none"
  PROVE  /\ p \in {"live", "exiting", "complete", "failed"}
         /\ session[a].parent \in {"complete", "failed"} => p = session[a].parent
         /\ [session EXCEPT ![a].parent = p] \in [Axis -> Lane]
  <1>1. session \in [Axis -> Lane] BY DEF Typed
  <1>2. p \in {"live", "exiting", "complete", "failed"} BY DEF CleanedUp
  <1>3. session[a].parent \in {"complete", "failed"} => p = session[a].parent BY DEF CleanedUp
  <1>4. QED BY <1>1, <1>2, <1>3 DEF Lane

\* A lane whose parent is cleaned up goes on.
LEMMA ParentContinues ==
  ASSUME Typed, NEW a \in Axis, NEW p \in CleanedUp(a), session[a].parent # "none",
         session' = [session EXCEPT ![a].parent = p], UNCHANGED answers
  PROVE  LanesKeep
  <1>1. session \in [Axis -> Lane] BY DEF Typed
  <1>2. QED BY <1>1, CleanedUpIs DEF LanesKeep, Continues, Terminated

\* The lane of an attempt that was given up is cleaned up at last.
LEMMA RecoverKeeps ==
  ASSUME GateInv, NEW d \in Driver, Recover(d)
  PROVE  GateInv'
  <1>1. drv[d] \in Holding /\ DriverOK(drv[d]) /\ Typed /\ gate \in GateFile /\ LanesOK
        /\ drv[d].pc = "recover"
    BY HoldingOf DEF GateInv, Recover
  <1>2. /\ drv[d].seen = gate /\ Terminal /\ drv[d].mine = {} /\ drv[d].head \in HeadSha
        /\ gate.result = "attention-required"
    BY <1>1 DEF DriverOK, Reads, Rescues, Lasts
  <1>3. PICK a \in Axis : /\ Axes(gate) = {a} /\ session[a].op = gate.id
                          /\ session[a].child \in {"accepted", "complete"}
    BY <1>1 DEF DriverOK, Rescues
  <1>4. (CHOOSE x \in Axes(drv[d].seen) : TRUE) = a BY <1>2, <1>3
  <1>5. PICK p \in CleanedUp(a) :
          /\ session' = [session EXCEPT ![a].parent = p]
          /\ drv' = [drv EXCEPT ![d] = [drv[d] EXCEPT
                       !.pc = IF p = "complete" THEN "reopen" ELSE "settle", !.axis = a]]
    BY <1>4 DEF Recover, Hold
  <1>6. UNCHANGED <<gate, outbox, answers, ledger, granted, head, commits, crashes>>
    BY DEF Recover, KeepLedger, KeepWorld
  <1>7. session[a].parent # "none"
    <2>1. gate.id # NoAttempt BY <1>2 DEF Terminal, Exists
    <2>2. QED BY <1>1, <1>3, <2>1 DEF LanesOK
  <1>8. LanesKeep BY <1>1, <1>5, <1>6, <1>7, ParentContinues
  <1>20. PICK r : r = [drv[d] EXCEPT !.pc = IF p = "complete" THEN "reopen" ELSE "settle", !.axis = a]
    OBVIOUS
  <1>9. /\ r \in Holding /\ r.pc = (IF p = "complete" THEN "reopen" ELSE "settle") /\ r.axis = a
        /\ r.mine = {} /\ r.seen = gate /\ r.head \in HeadSha
    BY <1>1, <1>2, <1>20 DEF Holding, Point
  <1>10. drv' = [drv EXCEPT ![d] = r] BY <1>5, <1>20
  <1>11. DriverOK(r)
    BY <1>2, <1>3, <1>9 DEF DriverOK, Reads, Rescues, Asks, Reserved, Opens, Takes, Lasts, Opening,
                            Taking
  <1>12. DriverOK(r)'
    <2>1. UNCHANGED <<gate, ledger, granted>> /\ r \in Holding BY <1>6, <1>9
    <2>2. QED BY <1>1, <1>8, <1>11, <2>1, DriverStays
  <1>13. QED
    <2>1. UNCHANGED <<gate, outbox, ledger, granted, head, commits, crashes>> BY <1>6
    <2>2. r \in Holding BY <1>9
    <2>3. QED BY <1>8, <1>10, <1>12, <2>1, <2>2, DriverLanes

\* The lane of an answer that was taken is cleaned up, or the attempt given up.
LEMMA CleanKeeps ==
  ASSUME GateInv, NEW d \in Driver, Clean(d)
  PROVE  GateInv'
  <1>1. drv[d] \in Holding /\ DriverOK(drv[d]) /\ Typed /\ gate \in GateFile /\ LanesOK /\ GateOK
        /\ drv[d].pc = "clean"
    BY HoldingOf DEF GateInv, Clean
  <1>2. PICK q : q = drv[d] OBVIOUS
  <1> DEFINE a == q.axis
  <1>3. /\ q \in Holding /\ DriverOK(q) /\ q.pc = "clean" /\ a \in Axis
    BY <1>1, <1>2 DEF Holding
  <1>4. /\ Exists(gate) /\ Identity(gate) = q.run /\ gate.phase = "awaiting-callback"
        /\ a \in Axes(gate) /\ session[a].child = "complete" /\ q.mine = {}
        /\ <<gate.id, a, q.seen.finals[a]>> \in answers
    BY <1>3 DEF DriverOK, Takes, Taking, Reads
  <1>5. session[a].op = gate.id /\ gate.id = q.run.id /\ gate.id # NoAttempt
    <2>1. \A x \in Axes(gate) : session[x].op = gate.id BY <1>1, <1>4 DEF GateOK
    <2>2. gate.id = q.run.id BY <1>4 DEF Identity
    <2>3. QED BY <1>4, <2>1, <2>2 DEF Exists
  <1>6. PICK p \in CleanedUp(a) :
          /\ session' = [session EXCEPT ![a].parent = p]
          /\ drv' = [drv EXCEPT ![d] = [drv[d] EXCEPT !.pc = IF p = "complete" THEN "merge" ELSE "attend"]]
    BY <1>2, <1>5 DEF Clean, Hold
  <1>7. UNCHANGED <<gate, outbox, answers, ledger, granted, head, commits, crashes>>
    BY DEF Clean, KeepLedger, KeepWorld
  <1>8. session[a].parent # "none" BY <1>1, <1>3, <1>5 DEF LanesOK
  <1>9. LanesKeep BY <1>1, <1>3, <1>6, <1>7, <1>8, ParentContinues
  <1>10. DriverOK(q)'
    <2>1. UNCHANGED <<gate, ledger, granted>> BY <1>7
    <2>2. QED BY <1>1, <1>3, <1>9, <2>1, DriverStays
  <1>11. PICK r : r = [q EXCEPT !.pc = IF p = "complete" THEN "merge" ELSE "attend"]
    OBVIOUS
  <1>12. /\ r \in Holding /\ r.pc = (IF p = "complete" THEN "merge" ELSE "attend") /\ r.axis = a
         /\ r.mine = {} /\ r.seen = q.seen /\ r.run = q.run /\ r.ready = q.ready
    BY <1>3, <1>4, <1>11 DEF Holding, Point
  <1>13. session'[a].parent = p
    <2>1. session \in [Axis -> Lane] BY <1>1 DEF Typed
    <2>2. session' = [session EXCEPT ![a].parent = p] /\ a \in Axis BY <1>3, <1>6
    <2>3. session'[a] = [session[a] EXCEPT !.parent = p] /\ session[a] \in Lane BY <2>1, <2>2
    <2>4. QED BY <2>3 DEF Lane
  <1>14. Takes(r)'
    <2>1. q.pc \in {"clean", "merge"} /\ q.pc \in Taking BY <1>3 DEF Taking
    <2>2. Takes(q)' BY <1>10 DEF DriverOK
    <2>3. /\ Exists(gate)' /\ (Identity(gate) = q.run)' /\ (gate.phase = "awaiting-callback")'
          /\ (<<gate.id, q.axis, q.seen.finals[q.axis]>> \in answers)'
          /\ (q.axis \in Axes(gate))' /\ (session[q.axis].child = "complete")'
          /\ (\A x \in Axis : q.ready[x] # "" => x \in Axes(gate))'
      BY <2>1, <2>2 DEF Takes
    <2>4. QED BY <1>12, <1>13, <2>3 DEF Takes
  <1>15. DriverOK(r)'
    BY <1>12, <1>14 DEF DriverOK, Reads, Rescues, Asks, Reserved, Opens, Lasts, Opening
  <1>16. QED
    <2>1. UNCHANGED <<gate, outbox, ledger, granted, head, commits, crashes>> BY <1>7
    <2>2. r \in Holding /\ drv' = [drv EXCEPT ![d] = r] BY <1>2, <1>6, <1>11, <1>12
    <2>3. QED BY <1>9, <1>15, <2>1, <2>2, DriverLanes

\* The answer collected for a lane becomes its round's, or the driver stops.
LEMMA PickKeeps ==
  ASSUME GateInv, NEW d \in Driver, Pick(d)
  PROVE  GateInv'
  <1>1. drv[d] \in Holding /\ DriverOK(drv[d]) /\ Typed /\ gate \in GateFile /\ LanesOK /\ GateOK
        /\ drv[d].pc = "pick"
    BY HoldingOf DEF GateInv, Pick
  <1>2. PICK q : q = drv[d] OBVIOUS
  <1>3. q \in Holding /\ DriverOK(q) /\ q.pc = "pick" BY <1>1, <1>2
  <1>4. /\ Exists(gate) /\ Identity(gate) = q.run /\ gate.phase = "awaiting-callback" /\ q.mine = {}
        /\ \A x \in Axis : q.ready[x] # "" => x \in Axes(gate)
    BY <1>3 DEF DriverOK, Takes, Taking, Reads
  <1>5. UNCHANGED <<gate, outbox, ledger, granted, head, commits, crashes>>
    BY DEF Pick, KeepLedger, KeepWorld
  <1>6. PICK a \in Axis :
       LET r == [q EXCEPT !.ready[a] = "", !.axis = a]
           v == q.ready[a]
           s == session[a]
           takes == s.child = "awaiting" /\ s.parent = "live"
           agrees == s.child \in {"accepted", "complete"} /\ s.answer = v
       IN /\ v # ""
          /\ \/ Hold(d, r) /\ UNCHANGED <<session, answers>>
             \/ /\ takes \/ agrees
                /\ session' = [session EXCEPT ![a].child = "complete", ![a].answer = v,
                       ![a].parent = IF v = "blocked" /\ @ = "live" THEN "attention" ELSE @]
                /\ answers' = answers \cup {<<s.op, a, v>>}
                /\ Hold(d, [r EXCEPT !.pc = "clean", !.seen = [NoGate EXCEPT !.finals[a] = v]])
             \/ Leave(d) /\ UNCHANGED <<session, answers>>
    BY <1>2, Zenon DEF Pick
  <1>7. PICK v : v = q.ready[a] OBVIOUS
  <1>8. PICK r : r = [q EXCEPT !.ready[a] = "", !.axis = a] OBVIOUS
  <1>9. v \in Verdict /\ a \in Axes(gate) /\ session[a].op = gate.id /\ session \in [Axis -> Lane]
    <2>1. v \in Verdict \cup {""} /\ v # "" BY <1>3, <1>6, <1>7 DEF Holding
    <2>2. a \in Axes(gate) BY <1>4, <1>6
    <2>3. QED BY <1>1, <1>4, <2>1, <2>2 DEF GateOK, Typed
  <1>10. /\ r \in Holding /\ r.pc = "pick" /\ r.axis = a /\ r.run = q.run /\ r.mine = {}
         /\ \A x \in Axis : r.ready[x] # "" => q.ready[x] # ""
    BY <1>3, <1>4, <1>8 DEF Holding
  <1> DEFINE took ==
       /\ \/ session[a].child = "awaiting" /\ session[a].parent = "live"
          \/ session[a].child \in {"accepted", "complete"} /\ session[a].answer = v
       /\ session' = [session EXCEPT ![a].child = "complete", ![a].answer = v,
               ![a].parent = IF v = "blocked" /\ @ = "live" THEN "attention" ELSE @]
       /\ answers' = answers \cup {<<session[a].op, a, v>>}
       /\ Hold(d, [r EXCEPT !.pc = "clean", !.seen = [NoGate EXCEPT !.finals[a] = v]])
  <1>11. \/ Leave(d) /\ UNCHANGED <<session, answers>>
         \/ Hold(d, r) /\ UNCHANGED <<session, answers>>
         \/ took
    BY <1>6, <1>7, <1>8, Zenon
  <1>12. ASSUME UNCHANGED <<session, answers>>
         PROVE  UNCHANGED files /\ head' \in HeadSha /\ commits' \in Nat /\ crashes' \in Nat
    BY <1>1, <1>5, <1>12 DEF files, Typed
  <1>13. CASE Leave(d) /\ UNCHANGED <<session, answers>>
    BY <1>12, <1>13, IdleTyped, IdleOK, DriverMoves DEF Leave, Hold
  <1>14. CASE Hold(d, r) /\ UNCHANGED <<session, answers>>
    <2>1. DriverOK(r)
      BY <1>4, <1>10
      DEF DriverOK, Reads, Rescues, Asks, Reserved, Opens, Takes, Lasts, Opening, Taking
    <2>2. QED BY <1>10, <1>12, <1>14, <2>1, DriverMoves DEF Hold
  <1>15. CASE took
    <2>1. PICK s : s = [session[a] EXCEPT !.child = "complete", !.answer = v,
               !.parent = IF v = "blocked" /\ @ = "live" THEN "attention" ELSE @]
      OBVIOUS
    <2>2. /\ s \in Lane /\ s.op = session[a].op /\ s.child = "complete" /\ s.answer = v
          /\ s.parent = IF v = "blocked" /\ session[a].parent = "live" THEN "attention"
                        ELSE session[a].parent
      BY <1>9, <2>1 DEF Lane
    <2>3. session' = [session EXCEPT ![a] = s] BY <1>9, <1>15, <2>1 DEF Lane
    <2>4. /\ answers' = answers \cup {<<session[a].op, a, v>>}
          /\ \/ session[a].child = "awaiting" /\ session[a].parent = "live"
             \/ session[a].child \in {"accepted", "complete"} /\ session[a].answer = v
      BY <1>15
    <2>5. LanesKeep
      <3>1. session[a].child \in {"accepted", "complete"} /\ session[a].answer = v
            => <<session[a].op, a, v>> \in answers
        BY <1>1 DEF LanesOK
      <3>2. Terminated(session[a]) => Terminated(s) BY <2>2 DEF Terminated
      <3>3. session[a].parent = "complete" => s.parent = "complete" BY <2>2
      <3>4. s.parent = "none" => session[a].parent = "none" BY <2>2
      <3>5. \/ s.child = session[a].child /\ s.answer = session[a].answer
            \/ session[a].child = "accepted" /\ s.child = "complete" /\ s.answer = session[a].answer
            \/ /\ session[a].child = "awaiting" /\ s.child \in {"accepted", "complete"} /\ s.answer \in Verdict
               /\ <<session[a].op, a, s.answer>> \in answers'
        BY <1>9, <2>2, <2>4
      <3>6. /\ answers' = answers \cup {<<session[a].op, a, s.answer>>}
            /\ \/ <<session[a].op, a, s.answer>> \in answers
               \/ session[a].child = "awaiting" /\ s.child \in {"accepted", "complete"}
        BY <2>2, <2>4, <3>1
      <3>7. QED BY <1>1, <2>2, <2>3, <3>2, <3>3, <3>4, <3>5, <3>6, OneLaneWritten
    <2>6. PICK f : f = [NoGate EXCEPT !.finals[a] = v] OBVIOUS
    <2>7. f \in GateFile /\ f.finals[a] = v BY <1>9, <2>6, NoGateTyped DEF GateFile
    <2>8. PICK x : x = [r EXCEPT !.pc = "clean", !.seen = f] OBVIOUS
    <2>9. /\ x \in Holding /\ x.pc = "clean" /\ x.axis = a /\ x.mine = {} /\ x.seen = f /\ x.run = q.run
          /\ x.ready = r.ready
      BY <1>10, <2>7, <2>8 DEF Holding, Point
    <2>10. drv' = [drv EXCEPT ![d] = x] BY <1>15, <2>6, <2>8 DEF Hold
    <2>11. Takes(x)'
      <3>1. session'[a].child = "complete" BY <1>9, <2>2, <2>3
      <3>2. <<gate.id, a, v>> \in answers' BY <1>9, <2>4
      <3>3. gate' = gate BY <1>5
      <3>4. /\ Exists(gate)' /\ (Identity(gate) = x.run)' /\ (gate.phase = "awaiting-callback")'
            /\ (x.axis \in Axes(gate))'
            /\ \A y \in Axis : x.ready[y] # "" => y \in Axes(gate)'
        BY <1>4, <1>9, <1>10, <2>9, <3>3 DEF Exists, Identity, Axes
      <3>5. QED BY <2>7, <2>9, <3>1, <3>2, <3>3, <3>4 DEF Takes
    <2>12. DriverOK(x)'
      BY <2>9, <2>11 DEF DriverOK, Reads, Rescues, Asks, Reserved, Opens, Lasts, Opening
    <2>13. QED BY <1>5, <2>5, <2>9, <2>10, <2>12, DriverLanes
  <1>16. QED BY <1>11, <1>13, <1>14, <1>15

-----------------------------------------------------------------------------
(* The gate's place in the ledger.                                         *)

\* An attempt has one place.
LEMMA PlaceIs ==
  ASSUME NEW l, Good(l), NEW id, NEW c, Place(l, id, c)
  PROVE  /\ \A i \in 1..Len(l.cycles) : l.cycles[i].attempt = id => i = c
         /\ \A j \in 1..Len(l.attempts) : l.attempts[j].attempt = id => l.attempts[j].cycle = c
         /\ id \in Identities(l)
  <1>1. l \in Ledger BY DEF Good
  <1>2. /\ \A i, j \in 1..Len(l.cycles) : l.cycles[i].attempt = l.cycles[j].attempt => i = j
        /\ \A i, j \in 1..Len(l.attempts) : l.attempts[i].attempt = l.attempts[j].attempt => i = j
        /\ \A i \in 1..Len(l.cycles), j \in 1..Len(l.attempts) :
             l.cycles[i].attempt # l.attempts[j].attempt
    BY DEF Good, Well
  <1>3. \A i \in 1..Len(l.cycles) : l.cycles[i].attempt = id => i = c BY <1>2 DEF Place
  <1>4. \A j \in 1..Len(l.attempts) : l.attempts[j].attempt = id => l.attempts[j].cycle = c
    BY <1>2 DEF Place
  <1>5. id \in Identities(l) BY <1>1, Conditions DEF Place
  <1>6. QED BY <1>3, <1>4, <1>5

\* The number the ledger gives an attempt is the number of its place.
LEMMA CycleOfIs ==
  ASSUME IInv, NEW id, NEW c, Place(ledger, id, c)
  PROVE  CycleOf(id) = c
  <1>1. Good(ledger) /\ ledger \in Ledger BY DEF IInv, Good
  <1>2. DOMAIN ledger.cycles = 1..Len(ledger.cycles) /\ DOMAIN ledger.attempts = 1..Len(ledger.attempts)
    BY <1>1, LedgerParts
  <1>3. /\ \A i \in 1..Len(ledger.cycles) : ledger.cycles[i].attempt = id => i = c
        /\ \A j \in 1..Len(ledger.attempts) : ledger.attempts[j].attempt = id => ledger.attempts[j].cycle = c
    BY <1>1, PlaceIs
  <1>4. CASE InCycles(ledger, id)
    <2>1. \E i \in DOMAIN ledger.cycles : ledger.cycles[i].attempt = id BY <1>4 DEF InCycles
    <2>2. \A i \in DOMAIN ledger.cycles : ledger.cycles[i].attempt = id => i = c BY <1>2, <1>3
    <2>3. (CHOOSE i \in DOMAIN ledger.cycles : ledger.cycles[i].attempt = id) = c BY <2>1, <2>2
    <2>4. QED BY <1>4, <2>3 DEF CycleOf
  <1>5. CASE ~InCycles(ledger, id)
    <2>1. \E j \in DOMAIN ledger.attempts : ledger.attempts[j].attempt = id
      BY <1>2, <1>5 DEF InCycles, Place
    <2>2. \A j \in DOMAIN ledger.attempts : ledger.attempts[j].attempt = id => ledger.attempts[j].cycle = c
      BY <1>2, <1>3
    <2>3. ledger.attempts[CHOOSE j \in DOMAIN ledger.attempts : ledger.attempts[j].attempt = id].cycle = c
      BY <2>1, <2>2
    <2>4. QED BY <1>5, <2>3 DEF CycleOf
  <1>6. QED BY <1>4, <1>5

\* The holder of the current cycle is the attempt of the last one.
LEMMA HolderIs ==
  ASSUME NEW l \in Ledger, NEW n, n = Len(l.cycles)
  PROVE  /\ Active(l) <=> n > 0 /\ l.cycles[n].result = Unset
         /\ Active(l) => Holder(l) = l.cycles[n].attempt
         /\ \A a : Decidable(l, a) <=> n > 0 /\ l.cycles[n].result = Unset /\ l.cycles[n].attempt = a
         /\ n \in Nat
  BY Conditions, LedgerParts DEF Holder, LastOf, Decidable

\* What accepted answers have to back a cycle.
Backed(c, axes) ==
  /\ c.result = "approved" => \A a \in axes : <<c.attempt, a, "approve">> \in answers
  /\ c.result = "changes-requested" =>
       /\ \A a \in axes : \/ <<c.attempt, a, "approve">> \in answers
                          \/ <<c.attempt, a, "changes-requested">> \in answers
       /\ \E a \in axes : <<c.attempt, a, "changes-requested">> \in answers

\* The verdicts are backed when each cycle's is.
LEMMA BackedIs ==
  ASSUME ledger \in Ledger
  PROVE  VerdictIsAnswered <=>
           \A i \in 1..Len(ledger.cycles) : Backed(ledger.cycles[i], LaneAxes[i])
  <1>1. DOMAIN ledger.cycles = 1..Len(ledger.cycles) BY LedgerParts
  <1>2. QED BY <1>1 DEF VerdictIsAnswered, Backed

\* A graded attempt is backed by its answers.
LEMMA GradedBacked ==
  ASSUME Typed, GateOK, Terminal, gate.result \in Product, NEW c, c.attempt = gate.id, c.result = gate.result
  PROVE  Backed(c, Axes(gate))
  <1>1. gate \in GateFile /\ gate.result \notin Mechanism BY ResultsAre DEF Typed
  <1>2. gate.graded BY <1>1 DEF GateOK, Terminal, GateFile
  <1>3. /\ \A a \in Axes(gate) : gate.finals[a] # ""
        /\ gate.result = Outcome(gate.finals, Axes(gate))
        /\ \A a \in Axis : gate.finals[a] # "" => <<gate.id, a, gate.finals[a]>> \in answers
        /\ gate.cycle \in 1..MaxCycles
    BY <1>2 DEF GateOK, Terminal
  <1>4. Axes(gate) \subseteq Axis BY <1>3, AxesAre DEF Axes
  <1>5. \A a \in Axes(gate) : gate.finals[a] \in Verdict /\ <<gate.id, a, gate.finals[a]>> \in answers
    BY <1>1, <1>3, <1>4 DEF GateFile
  <1> DEFINE said == {gate.finals[a] : a \in Axes(gate)}
  <1>6. gate.result = IF "blocked" \in said THEN "blocked"
                      ELSE IF "changes-requested" \in said THEN "changes-requested" ELSE "approved"
    BY <1>3 DEF Outcome
  <1>7. "blocked" \notin said BY <1>1, <1>6, ResultsAre
  <1>8. CASE "changes-requested" \in said
    <2>1. gate.result = "changes-requested" BY <1>6, <1>7, <1>8
    <2>2. PICK b \in Axes(gate) : gate.finals[b] = "changes-requested" BY <1>8
    <2>3. \A a \in Axes(gate) : gate.finals[a] \in {"approve", "changes-requested"}
      BY <1>5, <1>7 DEF Verdict
    <2>4. QED BY <1>5, <2>1, <2>2, <2>3 DEF Backed
  <1>9. CASE "changes-requested" \notin said
    <2>1. gate.result = "approved" BY <1>6, <1>7, <1>9
    <2>2. \A a \in Axes(gate) : gate.finals[a] = "approve" BY <1>5, <1>7, <1>9 DEF Verdict
    <2>3. QED BY <1>5, <2>1, <2>2 DEF Backed
  <1>10. QED BY <1>8, <1>9

\* What is said of lanes and gate when only the ledger moves.
LEMMA LanesUnderLedger ==
  ASSUME LanesOK, UNCHANGED <<gate, session, answers>>, granted \subseteq granted',
         \A a \in Axis : outbox'[a].op # NoAttempt => outbox'[a].answer \in Verdict
  PROVE  LanesOK'
  BY DEF LanesOK, Terminated, Exists, Axes

\* What the gate relies on survives a write of the ledger that keeps its place in it.
LEMMA GateUnderLedger ==
  ASSUME GateOK, UNCHANGED <<gate, session, answers>>,
         Exists(gate) => Place(ledger', gate.id, gate.cycle),
         \A i \in 1..Len(ledger'.cycles) : ledger'.cycles[i].result # Unset =>
             i <= gate.cycle /\ (i = gate.cycle => ledger'.cycles[i].attempt = gate.id),
         Active(ledger') /\ Holder(ledger') # gate.id =>
           /\ \A a \in Axis : session[a].op # Holder(ledger')
           /\ \A x \in answers : x[1] # Holder(ledger')
  PROVE  GateOK'
  <1>1. /\ gate' = gate /\ session' = session /\ answers' = answers
        /\ Place(ledger, gate.id, gate.cycle)' = Place(ledger', gate.id, gate.cycle)
        /\ Active(ledger)' = Active(ledger') /\ Holder(ledger)' = Holder(ledger')
    BY DEF Place, Active, Holder, LastOf
  <1>2. /\ IF Exists(gate) THEN gate.cycle \in 1..MaxCycles ELSE gate = NoGate
        /\ (gate.phase = "terminal") = (gate.result # "")
        /\ Exists(gate) /\ gate.phase = "awaiting-callback" => \A a \in Axes(gate) : session[a].op = gate.id
        /\ gate.phase \in {"pending", "running"} => gate.finals = NoFinal
        /\ \A a \in Axis : gate.finals[a] # "" =>
             Exists(gate) /\ <<gate.id, a, gate.finals[a]>> \in answers /\ Terminated(session[a])
        /\ gate.phase = "terminal" /\ gate.graded =>
             /\ \A a \in Axes(gate) : gate.finals[a] # ""
             /\ gate.result = Outcome(gate.finals, Axes(gate))
        /\ gate.phase = "terminal" /\ ~gate.graded => gate.result \in Mechanism
    BY DEF GateOK
  <1>3. QED BY <1>1, <1>2 DEF GateOK, Exists, Axes, Terminated

\* The verdict of the gate reaches the ledger.
LEMMA ProductRecorded ==
  ASSUME IInv, Typed, GateOK, VerdictIsAnswered, Terminal,
         gate.result \in Product, RecordProduct(gate.id, gate.result),
         UNCHANGED <<gate, session, answers>>
  PROVE  IInv' /\ GateOK' /\ VerdictIsAnswered' /\ Recorded(gate.id, gate.result)' /\ granted' = granted
  <1> PICK l, m : l = ledger /\ m = ledger' OBVIOUS
  <1>1. gate.id \in Attempt /\ Exists(gate) BY DEF Terminal, Exists, Typed, GateFile
  <1>2. IInv' /\ ~Active(m) BY <1>1, ProductStep
  <1>3. Good(l) /\ l \in Ledger /\ Good(m) /\ m \in Ledger BY <1>2 DEF IInv, Good
  <1>4. Decidable(l, gate.id) /\ m = Decided(l, gate.result) /\ granted' = granted
    BY DEF RecordProduct
  <1> DEFINE n == Len(l.cycles)
  <1>5. n \in Nat /\ n > 0 /\ l.cycles[n].result = Unset /\ l.cycles[n].attempt = gate.id
    BY <1>3, <1>4, HolderIs
  <1>6. /\ Len(m.cycles) = n /\ m.attempts = l.attempts
        /\ \A i \in 1..n : i # n => m.cycles[i] = l.cycles[i]
        /\ m.cycles[n] = [attempt |-> l.cycles[n].attempt, head |-> l.cycles[n].head,
                          result |-> gate.result]
    <2>1. l.cycles # <<>> BY <1>3, <1>5, LedgerParts
    <2>2. LET w == Decided(l, gate.result)
          IN /\ Len(w.cycles) = n /\ w.attempts = l.attempts
             /\ \A i \in 1..n : i # n => w.cycles[i] = l.cycles[i]
             /\ w.cycles[n] = [attempt |-> l.cycles[n].attempt, head |-> l.cycles[n].head,
                               result |-> gate.result]
      BY <1>3, <2>1, DecidedShape
    <2>3. QED BY <1>4, <2>2
  <1>7. m.cycles[n].attempt = gate.id /\ m.cycles[n].result = gate.result BY <1>5, <1>6
  <1>8. Place(l, gate.id, gate.cycle) /\ gate.cycle \in 1..MaxCycles BY <1>1 DEF GateOK
  <1>9. n = gate.cycle BY <1>3, <1>5, <1>8, PlaceIs
  <1>10. Place(m, gate.id, gate.cycle) BY <1>5, <1>6, <1>7, <1>9 DEF Place
  <1>11. \A i \in 1..Len(m.cycles) : m.cycles[i].result # Unset =>
             i <= gate.cycle /\ (i = gate.cycle => m.cycles[i].attempt = gate.id)
    BY <1>5, <1>6, <1>7, <1>9
  <1>12. GateOK' BY <1>2, <1>10, <1>11, GateUnderLedger
  <1>13. VerdictIsAnswered'
    <2>1. \A i \in 1..n : Backed(l.cycles[i], LaneAxes[i]) BY <1>3, BackedIs
    <2>2. Axes(gate) = LaneAxes[n] BY <1>9 DEF Axes
    <2>3. Backed(m.cycles[n], LaneAxes[n]) BY <1>7, <2>2, GradedBacked
    <2>4. \A i \in 1..n : Backed(m.cycles[i], LaneAxes[i]) BY <1>6, <2>1, <2>3
    <2>5. ASSUME NEW i \in DOMAIN m.cycles PROVE Backed(m.cycles[i], LaneAxes[i])
      <3>1. DOMAIN m.cycles = 1..n BY <1>3, <1>6, LedgerParts
      <3>2. QED BY <2>4, <3>1
    <2>6. answers' = answers OBVIOUS
    <2>7. QED BY <2>5, <2>6 DEF VerdictIsAnswered, Backed
  <1>14. Recorded(gate.id, gate.result)'
    <2>1. n \in DOMAIN m.cycles BY <1>3, <1>5, <1>6, LedgerParts
    <2>2. QED BY <1>7, <2>1 DEF Recorded
  <1>15. QED BY <1>2, <1>4, <1>12, <1>13, <1>14

\* An attempt without a verdict leaves its receipt.
LEMMA MechanismRecorded ==
  ASSUME IInv, Typed, GateOK, VerdictIsAnswered, Terminal,
         gate.result \in Mechanism, RecordMechanism(gate.id, gate.result),
         UNCHANGED <<gate, session, answers>>
  PROVE  IInv' /\ GateOK' /\ VerdictIsAnswered' /\ Recorded(gate.id, gate.result)' /\ granted' = granted
  <1> PICK l, m : l = ledger /\ m = ledger' OBVIOUS
  <1>1. gate.id \in Attempt /\ Exists(gate) BY DEF Terminal, Exists, Typed, GateFile
  <1>2. IInv' /\ ~Active(m) BY <1>1, MechanismStep
  <1>3. Good(l) /\ l \in Ledger /\ Good(m) /\ m \in Ledger BY <1>2 DEF IInv, Good
  <1>4. Releasable(l, gate.id) /\ m = Released(l, gate.id, gate.result) /\ granted' = granted
    BY DEF RecordMechanism
  <1> DEFINE n == Len(l.cycles)
             k == Len(l.attempts)
  <1>5. n \in Nat /\ n > 0 /\ l.cycles[n].result = Unset /\ l.cycles[n].attempt = gate.id /\ k \in Nat
        /\ n <= MaxCycles
    <2>1. Decidable(l, gate.id) BY <1>4 DEF Releasable, Decidable
    <2>2. QED BY <1>3, <2>1, HolderIs, LedgerParts DEF Good, Well
  <1>6. /\ Len(m.cycles) = n - 1 /\ Len(m.attempts) = k + 1
        /\ \A i \in 1..(n - 1) : m.cycles[i] = l.cycles[i]
        /\ m.attempts[k + 1] = [attempt |-> gate.id, cycle |-> n, classification |-> gate.result]
    BY <1>1, <1>3, <1>4, <1>5, ReleasedShape, LedgerParts
  <1>7. Place(l, gate.id, gate.cycle) /\ gate.cycle \in 1..MaxCycles BY <1>1 DEF GateOK
  <1>8. n = gate.cycle BY <1>3, <1>5, <1>7, PlaceIs
  <1>9. k + 1 \in 1..Len(m.attempts) /\ m.attempts[k + 1].attempt = gate.id
        /\ m.attempts[k + 1].cycle = gate.cycle /\ m.attempts[k + 1].classification = gate.result
    BY <1>5, <1>6, <1>8
  <1>10. Place(m, gate.id, gate.cycle) BY <1>9 DEF Place
  <1>11. \A i \in 1..Len(m.cycles) : m.cycles[i].result # Unset =>
             i <= gate.cycle /\ (i = gate.cycle => m.cycles[i].attempt = gate.id)
    BY <1>5, <1>6, <1>8
  <1>12. GateOK' BY <1>2, <1>10, <1>11, GateUnderLedger
  <1>13. VerdictIsAnswered'
    <2>1. \A i \in 1..n : Backed(l.cycles[i], LaneAxes[i]) BY <1>3, BackedIs
    <2>2. ASSUME NEW i \in DOMAIN m.cycles PROVE Backed(m.cycles[i], LaneAxes[i])
      <3>1. DOMAIN m.cycles = 1..(n - 1) BY <1>3, <1>6, LedgerParts
      <3>2. i \in 1..n /\ m.cycles[i] = l.cycles[i] BY <1>5, <1>6, <3>1
      <3>3. QED BY <2>1, <3>2
    <2>3. answers' = answers OBVIOUS
    <2>4. QED BY <2>2, <2>3 DEF VerdictIsAnswered, Backed
  <1>14. Recorded(gate.id, gate.result)'
    <2>1. k + 1 \in DOMAIN m.attempts BY <1>3, <1>9, LedgerParts
    <2>2. QED BY <1>9, <2>1 DEF Recorded
  <1>15. QED BY <1>2, <1>4, <1>12, <1>13, <1>14

\* Either way.
LEMMA ResultRecorded ==
  ASSUME IInv, Typed, GateOK, VerdictIsAnswered, Terminal, RecordTerminal(gate.id, gate.result),
         UNCHANGED <<gate, session, answers>>
  PROVE  IInv' /\ GateOK' /\ VerdictIsAnswered' /\ Recorded(gate.id, gate.result)' /\ granted' = granted
  BY ProductRecorded, MechanismRecorded DEF RecordTerminal

\* Making room for callback files keeps them typed.
LEMMA VacatedIs ==
  ASSUME Typed, LanesOK, NEW g, outbox' \in {outbox, Vacated(g)}
  PROVE  /\ outbox' \in [Axis -> Post]
         /\ \A a \in Axis : outbox'[a].op # NoAttempt => outbox'[a].answer \in Verdict
  <1>1. outbox \in [Axis -> Post] /\ \A a \in Axis : outbox[a].op # NoAttempt => outbox[a].answer \in Verdict
    BY DEF Typed, LanesOK
  <1>2. NoPost \in Post /\ NoPost.op = NoAttempt BY DEF NoPost, Post
  <1>3. QED BY <1>1, <1>2 DEF Vacated

\* A driver that reads and makes room for callback files.
LEMMA DriverVacates ==
  ASSUME GateInv, UNCHANGED <<gate, session, answers, ledger, granted, head, commits, crashes>>,
         outbox' \in [Axis -> Post],
         \A a \in Axis : outbox'[a].op # NoAttempt => outbox'[a].answer \in Verdict,
         NEW d \in Driver, NEW r \in Holding, drv' = [drv EXCEPT ![d] = r], DriverOK(r)
  PROVE  GateInv'
  <1>1. IInv /\ Typed /\ LanesOK /\ GateOK /\ VerdictIsAnswered
        /\ drv \in [Driver -> Holding] /\ session \in [Axis -> Lane]
        /\ \A e \in Driver : DriverOK(drv[e])
    BY DEF GateInv, Typed
  <1>2. IInv' /\ VerdictIsAnswered' BY <1>1, LedgerUndisturbed, VerdictsStay
  <1>3. LanesKeep BY <1>1 DEF LanesKeep, Continues, Terminated
  <1>5. LanesOK' BY <1>1, LanesUnderLedger
  <1>6. GateOK' BY <1>1, <1>3, GateStays
  <1>7. Typed' BY <1>1 DEF Typed
  <1>8. ASSUME NEW e \in Driver PROVE DriverOK(drv[e])'
    <2>1. PICK x : x = drv'[e] OBVIOUS
    <2>2. x = r \/ x = drv[e] BY <1>1, <2>1
    <2>3. x \in Holding /\ DriverOK(x) BY <1>1, <2>2
    <2>4. DriverOK(x)' BY <1>1, <1>3, <2>3, DriverStays
    <2>5. QED BY <2>1, <2>4, HoldsNext
  <1>9. QED BY <1>2, <1>5, <1>6, <1>7, <1>8 DEF GateInv

\* The result of the attempt the driver has read is settled.
LEMMA SettleKeeps ==
  ASSUME OneDriver, GateInv, NEW d \in Driver, Settle(d)
  PROVE  GateInv'
  <1>1. drv[d] \in Holding /\ DriverOK(drv[d]) /\ Typed /\ gate \in GateFile /\ LanesOK /\ GateOK
        /\ IInv /\ VerdictIsAnswered /\ drv[d].pc = "settle"
    BY HoldingOf DEF GateInv, Settle
  <1>2. drv[d].seen = gate /\ drv[d].head \in HeadSha /\ Terminal /\ drv[d].mine = {}
    BY <1>1 DEF DriverOK, Reads, Lasts
  <1>3. /\ UNCHANGED <<gate, session, answers, head, commits, crashes>>
        /\ outbox' \in {outbox, Vacated(gate)}
        /\ \/ Leave(d) /\ KeepLedger
           \/ /\ Hold(d, [drv[d] EXCEPT !.pc = "succeed"])
              /\ \/ Recorded(gate.id, gate.result) /\ KeepLedger
                 \/ RecordTerminal(gate.id, gate.result)
    BY <1>2 DEF Settle, KeepWorld
  <1>a. /\ outbox' \in [Axis -> Post]
        /\ \A a \in Axis : outbox'[a].op # NoAttempt => outbox'[a].answer \in Verdict
    BY <1>1, <1>3, VacatedIs
  <1>4. CASE Leave(d) /\ KeepLedger
    <2>1. UNCHANGED <<gate, session, answers, ledger, granted, head, commits, crashes>>
          /\ drv' = [drv EXCEPT ![d] = Idle]
      BY <1>3, <1>4 DEF Leave, Hold, KeepLedger
    <2>2. QED BY <1>a, <2>1, IdleTyped, IdleOK, DriverVacates
  <1>5. PICK r : r = [drv[d] EXCEPT !.pc = "succeed"] OBVIOUS
  <1>6. /\ r \in Holding /\ r.pc = "succeed" /\ r.seen = gate /\ r.head \in HeadSha /\ r.mine = {}
    BY <1>1, <1>2, <1>5 DEF Holding, Point
  <1>7. ASSUME Recorded(gate.id, gate.result) PROVE DriverOK(r)
    BY <1>2, <1>6, <1>7
    DEF DriverOK, Reads, Rescues, Asks, Reserved, Opens, Takes, Lasts, Opening, Taking
  <1>8. CASE Hold(d, r) /\ Recorded(gate.id, gate.result) /\ KeepLedger
    <2>1. UNCHANGED <<gate, session, answers, ledger, granted, head, commits, crashes>>
          /\ drv' = [drv EXCEPT ![d] = r]
      BY <1>3, <1>8 DEF Hold, KeepLedger
    <2>2. QED BY <1>a, <1>6, <1>7, <1>8, <2>1, DriverVacates
  <1>9. CASE Hold(d, r) /\ RecordTerminal(gate.id, gate.result)
    <2>1. UNCHANGED <<gate, session, answers>> BY <1>3
    <2>2. IInv' /\ GateOK' /\ VerdictIsAnswered' /\ Recorded(gate.id, gate.result)' /\ granted' = granted
      BY <1>1, <1>2, <1>9, <2>1, ResultRecorded
    <2>3. /\ outbox' \in [Axis -> Post]
          /\ \A a \in Axis : outbox'[a].op # NoAttempt => outbox'[a].answer \in Verdict
      BY <1>1, <1>3, VacatedIs
    <2>4. LanesOK' BY <1>1, <2>1, <2>2, <2>3, LanesUnderLedger
    <2>5. DriverOK(r)'
      <3>1. Reads(r)' BY <1>2, <1>6, <2>1 DEF Reads, Lasts, Terminal, Exists
      <3>2. Asks(r)' BY <1>6, <2>2 DEF Asks
      <3>3. QED BY <1>6, <3>1, <3>2 DEF DriverOK, Rescues, Reserved, Opens, Takes, Opening, Taking
    <2>6. drv' = [drv EXCEPT ![d] = r] BY <1>9 DEF Hold
    <2>7. drv' \in [Driver -> Holding] /\ \A e \in Driver : DriverOK(drv[e])'
      BY <1>1, <1>6, <2>5, <2>6, OnlyDriver
    <2>8. Typed' BY <1>1, <1>3, <2>3, <2>7 DEF Typed
    <2>9. QED BY <2>2, <2>4, <2>7, <2>8 DEF GateInv
  <1>10. QED BY <1>3, <1>4, <1>5, <1>8, <1>9

\* The end of a run writes the gate's result back.
LEMMA RecordKeeps ==
  ASSUME OneDriver, GateInv, NEW d \in Driver, Record(d)
  PROVE  GateInv'
  <1>1. drv[d] \in Holding /\ DriverOK(drv[d]) /\ Typed /\ gate \in GateFile /\ LanesOK /\ GateOK
        /\ IInv /\ VerdictIsAnswered /\ drv[d].pc = "record"
    BY HoldingOf DEF GateInv, Record
  <1>2. PICK r : r = [Idle EXCEPT !.pc = "decide"] OBVIOUS
  <1>3. r \in Holding /\ r.pc = "decide" /\ r.mine = {} BY <1>2, IdleTyped DEF Holding, Point
  <1>4. DriverOK(r) /\ DriverOK(Idle) BY <1>3, BetweenOK, IdleOK
  <1>5. /\ UNCHANGED <<gate, session, answers, outbox, head, commits, crashes>>
        /\ \/ Hold(d, r) /\ KeepLedger
           \/ Leave(d) /\ KeepLedger
           \/ Leave(d) /\ gate.phase = "terminal" /\ RecordTerminal(gate.id, gate.result)
    BY <1>2 DEF Record, KeepWorld, KeepLanes
  <1>6. CASE KeepLedger
    <2>1. UNCHANGED files /\ head' \in HeadSha /\ commits' \in Nat /\ crashes' \in Nat
      BY <1>1, <1>5, <1>6 DEF files, KeepLedger, Typed
    <2>2. PICK x \in Holding : DriverOK(x) /\ drv' = [drv EXCEPT ![d] = x]
      BY <1>3, <1>4, <1>5, IdleTyped DEF Leave, Hold
    <2>3. QED BY <2>1, <2>2, DriverMoves
  <1>7. CASE Leave(d) /\ gate.phase = "terminal" /\ RecordTerminal(gate.id, gate.result)
    <2>1. UNCHANGED <<gate, session, answers>> /\ UNCHANGED outbox BY <1>5
    <2>2. Terminal
      <3>1. Exists(gate)
        <4>1. SUFFICES ASSUME ~Exists(gate) PROVE FALSE OBVIOUS
        <4>2. gate = NoGate BY <1>1, <4>1 DEF GateOK
        <4>3. QED BY <1>7, <4>2, NoGateTyped
      <3>2. QED BY <1>7, <3>1 DEF Terminal
    <2>3. IInv' /\ GateOK' /\ VerdictIsAnswered' /\ granted' = granted
      BY <1>1, <1>7, <2>1, <2>2, ResultRecorded
    <2>4. LanesOK'
      <3>1. \A a \in Axis : outbox'[a].op # NoAttempt => outbox'[a].answer \in Verdict
        BY <1>1, <2>1 DEF LanesOK
      <3>2. QED BY <1>1, <2>1, <2>3, <3>1, LanesUnderLedger
    <2>5. drv' = [drv EXCEPT ![d] = Idle] BY <1>7 DEF Leave, Hold
    <2>6. PICK x : x = Idle OBVIOUS
    <2>7. DriverOK(x)' /\ x \in Holding
      <3>1. x.pc = "idle" /\ x.mine = {} /\ x \in Holding BY <2>6, IdleTyped
      <3>2. QED BY <3>1, BetweenOK
    <2>8. drv' \in [Driver -> Holding] /\ \A e \in Driver : DriverOK(drv[e])'
      BY <1>1, <2>5, <2>6, <2>7, OnlyDriver
    <2>9. Typed' BY <1>1, <1>5, <2>8 DEF Typed
    <2>10. QED BY <2>3, <2>4, <2>8, <2>9 DEF GateInv
  <1>8. QED BY <1>5, <1>6, <1>7

\* What is asked for after an attempt whose number is n.
LEMMA SuccessorIs ==
  ASSUME NEW g, g.id \in Attempt, NEW h \in HeadSha, NEW n \in 1..MaxCycles, CycleOf(g.id) = n,
         NEW next, next = Successor(g, h)
  PROVE  /\ next.q \in Asked /\ next.q \in Request /\ ~next.q.recover /\ next.cycle \in Nat
         /\ next.cycle = IF g.result \in Mechanism THEN n ELSE n + 1
  <1>1. MaxCycles \in Nat BY AxesAre
  <1>2. PICK y : y = NoRequest(h) OBVIOUS
  <1>3. y \in Asked /\ y.head = h /\ y.recover = FALSE BY <1>2, NoRequestTyped
  <1>4. CASE g.result \in Mechanism
    <2>1. PICK b : b = BoundId(g.id, h, n) OBVIOUS
    <2>2. b \in Attempt BY <2>1, IdsAre
    <2>3. PICK q : q = [y EXCEPT !.attempt = b, !.predecessor = g.id] OBVIOUS
    <2>4. next = [cycle |-> n, q |-> q] BY <1>2, <1>4, <2>1, <2>3 DEF Successor
    <2>5. q \in Asked /\ q.attempt = b /\ q.head = h /\ q.recover = FALSE
      BY <1>3, <2>2, <2>3 DEF Asked
    <2>6. q \in Request BY <2>2, <2>5, RequestTyped
    <2>7. QED BY <1>1, <1>4, <2>4, <2>5, <2>6
  <1>5. CASE g.result \notin Mechanism
    <2>1. PICK b : b = FirstId(h, n + 1) OBVIOUS
    <2>2. n + 1 \in 1..MaxCycles + 1 BY <1>1
    <2>3. b \in Attempt BY <2>1, <2>2, IdsAre
    <2>4. PICK q : q = [y EXCEPT !.attempt = b] OBVIOUS
    <2>5. next = [cycle |-> n + 1, q |-> q] BY <1>2, <1>5, <2>1, <2>4 DEF Successor
    <2>6. q \in Asked /\ q.attempt = b /\ q.head = h /\ q.recover = FALSE
      BY <1>3, <2>3, <2>4 DEF Asked
    <2>7. q \in Request BY <2>3, <2>6, RequestTyped
    <2>8. QED BY <1>1, <1>5, <2>5, <2>6, <2>7
  <1>6. QED BY <1>4, <1>5

\* A successor is asked for with its own number.
LEMMA SucceedKeeps ==
  ASSUME GateInv, NEW d \in Driver, Succeed(d)
  PROVE  GateInv'
  <1>1. drv[d] \in Holding /\ DriverOK(drv[d]) /\ Typed /\ gate \in GateFile /\ GateOK
        /\ LanesOK /\ IInv /\ drv[d].pc = "succeed"
    BY HoldingOf DEF GateInv, Succeed
  <1>2. drv[d].seen = gate /\ drv[d].head \in HeadSha /\ Terminal /\ drv[d].mine = {}
        /\ Recorded(gate.id, gate.result)
    BY <1>1 DEF DriverOK, Reads, Asks, Lasts
  <1> DEFINE h == drv[d].head
             next == Successor(gate, h)
  <1>3. /\ UNCHANGED <<gate, session, answers, ledger, granted, head, commits, crashes>>
        /\ outbox' \in {outbox, Vacated(gate)}
        /\ \/ Leave(d)
           \/ Hold(d, [drv[d] EXCEPT !.pc = "reserve", !.cycle = next.cycle, !.q = next.q])
    BY <1>2 DEF Succeed, KeepWorld, KeepLedger
  <1>4. gate.cycle \in 1..MaxCycles /\ Place(ledger, gate.id, gate.cycle) /\ gate.id \in Attempt
    BY <1>1, <1>2 DEF GateOK, Terminal, Exists, GateFile
  <1>5. CycleOf(gate.id) = gate.cycle BY <1>1, <1>4, CycleOfIs
  <1>6. /\ next.q \in Asked /\ next.q \in Request /\ ~next.q.recover /\ next.cycle \in Nat
        /\ next.cycle = IF gate.result \in Mechanism THEN gate.cycle ELSE gate.cycle + 1
    <2>1. PICK s : s = next OBVIOUS
    <2>2. /\ s.q \in Asked /\ s.q \in Request /\ ~s.q.recover /\ s.cycle \in Nat
          /\ s.cycle = IF gate.result \in Mechanism THEN gate.cycle ELSE gate.cycle + 1
      BY <1>2, <1>4, <1>5, <2>1, SuccessorIs
    <2>3. QED BY <2>1, <2>2
  <1>7. PICK n, q : n = next.cycle /\ q = next.q OBVIOUS
  <1>8. PICK r : r = [drv[d] EXCEPT !.pc = "reserve", !.cycle = n, !.q = q] OBVIOUS
  <1> HIDE DEF next
  <1>9. /\ r \in Holding /\ r.pc = "reserve" /\ r.cycle = n /\ r.q = q /\ r.mine = {}
        /\ r.seen = gate /\ r.head \in HeadSha
    BY <1>1, <1>2, <1>6, <1>7, <1>8 DEF Holding, Point
  <1>10. Asks(r) BY <1>2, <1>6, <1>7, <1>9 DEF Asks, Terminal
  <1>11. DriverOK(r)
    BY <1>9, <1>10 DEF DriverOK, Reads, Rescues, Reserved, Opens, Takes, Lasts, Opening, Taking
  <1>a. /\ outbox' \in [Axis -> Post]
        /\ \A a \in Axis : outbox'[a].op # NoAttempt => outbox'[a].answer \in Verdict
    BY <1>1, <1>3, VacatedIs
  <1>12. CASE Leave(d)
    BY <1>3, <1>a, <1>12, IdleTyped, IdleOK, DriverVacates DEF Leave, Hold
  <1>13. CASE Hold(d, [drv[d] EXCEPT !.pc = "reserve", !.cycle = next.cycle, !.q = next.q])
    <2>1. drv' = [drv EXCEPT ![d] = r] BY <1>7, <1>8, <1>13 DEF Hold
    <2>2. r \in Holding BY <1>9
    <2>3. QED BY <1>3, <1>a, <1>11, <2>1, <2>2, DriverVacates
  <1>14. QED BY <1>3, <1>12, <1>13

\* A reservation, or a cycle taken back by the gate's own attempt.
LEMMA CycleTaken ==
  ASSUME IInv, Typed, LanesOK, GateOK, VerdictIsAnswered,
         NEW q \in Request, Reserve(q) \/ (RecoverAttention(q) /\ q.attempt = gate.id /\ Exists(gate)),
         UNCHANGED <<gate, session, answers>>
  PROVE  /\ IInv' /\ GateOK' /\ VerdictIsAnswered' /\ granted \subseteq granted'
         /\ q.attempt \in granted' /\ Active(ledger') /\ Holder(ledger') = q.attempt
         /\ Len(ledger'.cycles) = NextNumber(ledger)
         /\ Reserve(q) => q.attempt # gate.id
  <1> PICK l, m : l = ledger /\ m = ledger' OBVIOUS
  <1> DEFINE n == Len(l.cycles)
  <1>1. /\ l \in Ledger /\ m \in Ledger /\ Len(m.cycles) = n + 1 /\ n \in Nat
        /\ \A i \in 1..n : m.cycles[i] = l.cycles[i]
        /\ m.cycles[n + 1] = [attempt |-> q.attempt, head |-> q.head, result |-> Unset]
    BY Longer, LedgerParts
  <1>2. Good(l) /\ granted = Identities(l) BY DEF IInv, AccountedFor
  <1>3. IInv' /\ (Reserve(q) => q.attempt \notin granted) BY ReserveStep, RecoverStep
  <1>4. Active(m) /\ Holder(m) = q.attempt BY <1>1, HolderIs
  <1>5. Exists(gate) => gate.id \in granted
    <2>1. Exists(gate) => Place(l, gate.id, gate.cycle) BY DEF GateOK
    <2>2. QED BY <1>2, <2>1, PlaceIs
  <1>6. Reserve(q) => q.attempt # gate.id
    <2>1. q.attempt \in Attempt BY DEF Request
    <2>2. q.attempt # NoAttempt BY <2>1, IdsAre
    <2>3. QED BY <1>3, <1>5, <2>2 DEF Exists
  <1>7. granted \subseteq granted' /\ q.attempt \in granted'
    <2>1. CASE Reserve(q) BY <2>1 DEF Reserve
    <2>2. CASE RecoverAttention(q) /\ q.attempt = gate.id /\ Exists(gate)
      BY <1>5, <2>2 DEF RecoverAttention
    <2>3. QED BY <2>1, <2>2
  <1>8. Exists(gate) => Place(m, gate.id, gate.cycle)
    <2> SUFFICES ASSUME Exists(gate) PROVE Place(m, gate.id, gate.cycle) OBVIOUS
    <2>1. Place(l, gate.id, gate.cycle) BY DEF GateOK
    <2>2. CASE Reserve(q)
      <3>1. m.attempts = l.attempts BY <1>1, <2>2, OpenedShape DEF Reserve
      <3>2. QED BY <1>1, <2>1, <3>1 DEF Place
    <2>3. CASE RecoverAttention(q) /\ q.attempt = gate.id
      <3>1. IsLastReceipt(l, gate.id) /\ LastOf(l.attempts).cycle = n + 1
        BY <2>3 DEF RecoverAttention, Recoverable, NextNumber
      <3>2. Len(l.attempts) \in 1..Len(l.attempts) /\ l.attempts[Len(l.attempts)].attempt = gate.id
            /\ l.attempts[Len(l.attempts)].cycle = n + 1
        BY <1>1, <3>1, Conditions, LedgerParts DEF LastOf
      <3>3. gate.cycle = n + 1 BY <1>2, <2>1, <3>2, PlaceIs
      <3>4. n + 1 \in 1..Len(m.cycles) /\ m.cycles[n + 1].attempt = gate.id BY <1>1, <2>3
      <3>5. QED BY <3>3, <3>4 DEF Place
    <2>4. QED BY <2>2, <2>3
  <1>9. \A i \in 1..Len(m.cycles) : m.cycles[i].result # Unset =>
             i <= gate.cycle /\ (i = gate.cycle => m.cycles[i].attempt = gate.id)
    <2>1. \A i \in 1..n : l.cycles[i].result # Unset =>
             i <= gate.cycle /\ (i = gate.cycle => l.cycles[i].attempt = gate.id)
      BY DEF GateOK
    <2>2. m.cycles[n + 1].result = Unset BY <1>1
    <2>3. \A i \in 1..(n + 1) : i \in 1..n \/ i = n + 1 BY <1>1
    <2>4. QED BY <1>1, <2>1, <2>2, <2>3
  <1>10. ASSUME q.attempt # gate.id
         PROVE  /\ \A a \in Axis : session[a].op # q.attempt
                /\ \A x \in answers : x[1] # q.attempt
    <2>1. q.attempt \notin granted BY <1>3, <1>10
    <2>2. q.attempt # NoAttempt BY IdsAre DEF Request
    <2>3. QED BY <2>1, <2>2 DEF LanesOK
  <1>11. GateOK' BY <1>4, <1>8, <1>9, <1>10, GateUnderLedger
  <1>12. VerdictIsAnswered'
    <2>1. \A i \in 1..n : Backed(l.cycles[i], LaneAxes[i]) BY <1>1, BackedIs
    <2>2. ASSUME NEW i \in DOMAIN m.cycles PROVE Backed(m.cycles[i], LaneAxes[i])
      <3>1. DOMAIN m.cycles = 1..(n + 1) BY <1>1, LedgerParts
      <3>2. i \in 1..n \/ i = n + 1 BY <1>1, <3>1
      <3>3. CASE i \in 1..n BY <1>1, <2>1, <3>3
      <3>4. CASE i = n + 1 BY <1>1, <3>4, UnsetIsOther DEF Backed
      <3>5. QED BY <3>2, <3>3, <3>4
    <2>3. answers' = answers OBVIOUS
    <2>4. QED BY <2>2, <2>3 DEF VerdictIsAnswered, Backed
  <1>13. QED BY <1>1, <1>3, <1>4, <1>6, <1>7, <1>11, <1>12 DEF NextNumber

\* An attempt the ledger knows already, at the number the driver expected,
\* still holds that cycle when the driver is not there for the gate's attempt.
LEMMA KnownIs ==
  ASSUME IInv, Typed, GateOK, NEW q \in Request, Known(ledger, q), NEW r,
         CycleOf(q.attempt) = r.cycle, r.pc = "reserve", r.q = q, Asks(r)
  PROVE  /\ q.attempt \in granted
         /\ Terminal \/ ~Exists(gate) =>
              /\ Active(ledger) /\ Holder(ledger) = q.attempt /\ q.attempt # gate.id
              /\ r.cycle = Len(ledger.cycles)
              /\ Terminal => r.cycle = IF gate.result \in Mechanism THEN gate.cycle ELSE gate.cycle + 1
  <1> PICK l : l = ledger OBVIOUS
  <1> DEFINE n == Len(l.cycles)
  <1>1. Good(l) /\ l \in Ledger /\ granted = Identities(l) BY DEF IInv, Good, AccountedFor
  <1>2. DOMAIN l.cycles = 1..n /\ n \in Nat /\ DOMAIN l.attempts = 1..Len(l.attempts)
    BY <1>1, LedgerParts
  <1>3. PICK i \in 1..n : l.cycles[i].attempt = q.attempt BY <1>2 DEF Known
  <1>4. Place(l, q.attempt, i) BY <1>3 DEF Place
  <1>5. r.cycle = i BY <1>4, CycleOfIs
  <1>6. q.attempt \in granted BY <1>1, <1>4, PlaceIs
  <1>7. q.attempt # NoAttempt BY IdsAre DEF Request
  <1>8. ASSUME l.cycles[i].result = Unset
        PROVE  Active(l) /\ Holder(l) = q.attempt /\ i = n
    <2>1. i = n BY <1>1, <1>3, <1>8 DEF Good, Well
    <2>2. QED BY <1>1, <1>2, <1>3, <1>8, <2>1, HolderIs
  <1>9. l.cycles[i].result # Unset =>
          i <= gate.cycle /\ (i = gate.cycle => l.cycles[i].attempt = gate.id)
    BY <1>3 DEF GateOK
  <1>10. CASE ~Exists(gate)
    <2>1. gate.cycle = 0 BY <1>10, NoGateTyped DEF GateOK
    <2>2. l.cycles[i].result = Unset BY <1>2, <1>3, <1>9, <2>1
    <2>3. q.attempt # gate.id BY <1>7, <1>10 DEF Exists
    <2>4. QED BY <1>5, <1>6, <1>8, <1>10, <2>2, <2>3 DEF Terminal
  <1>11. CASE Terminal
    <2>1. /\ Recorded(gate.id, gate.result) /\ Place(l, gate.id, gate.cycle) /\ gate.cycle \in Nat
          /\ i = IF gate.result \in Mechanism THEN gate.cycle ELSE gate.cycle + 1
      BY <1>5, <1>11 DEF Asks, GateOK, Terminal, Typed, GateFile
    <2>2. CASE gate.result \notin Mechanism
      <3>1. i = gate.cycle + 1 BY <2>1, <2>2
      <3>2. l.cycles[i].result = Unset BY <1>2, <1>9, <2>1, <3>1
      <3>3. q.attempt # gate.id
        <4>1. q.attempt = gate.id => i = gate.cycle BY <1>1, <1>3, <2>1, PlaceIs
        <4>2. QED BY <2>1, <3>1, <4>1
      <3>4. QED BY <1>5, <1>6, <1>8, <2>1, <3>2, <3>3
    <2>3. CASE gate.result \in Mechanism
      <3>1. i = gate.cycle BY <2>1, <2>3
      <3>2. gate.result \notin Product BY <2>3, ResultsAre
      <3>3. \E j \in 1..Len(l.attempts) : l.attempts[j].attempt = gate.id
        BY <1>2, <2>1, <3>2 DEF Recorded
      <3>4. q.attempt # gate.id BY <1>1, <1>3, <3>3 DEF Good, Well
      <3>5. l.cycles[i].result = Unset BY <1>3, <1>9, <3>1, <3>4
      <3>6. QED BY <1>5, <1>6, <1>8, <2>1, <3>4, <3>5
    <2>4. QED BY <2>2, <2>3
  <1>12. QED BY <1>6, <1>10, <1>11

\* A step of the only driver that writes the ledger and nothing else.
LEMMA LedgerWritten ==
  ASSUME OneDriver, GateInv, UNCHANGED <<gate, session, answers, outbox, head, commits, crashes>>,
         IInv', GateOK', VerdictIsAnswered', granted \subseteq granted',
         NEW d \in Driver, NEW r \in Holding, drv' = [drv EXCEPT ![d] = r], DriverOK(r)'
  PROVE  GateInv'
  <1>1. Typed /\ LanesOK BY DEF GateInv
  <1>2. LanesOK'
    <2>1. \A a \in Axis : outbox'[a].op # NoAttempt => outbox'[a].answer \in Verdict
      BY <1>1 DEF LanesOK
    <2>2. QED BY <1>1, <2>1, LanesUnderLedger
  <1>3. drv' \in [Driver -> Holding] /\ \A e \in Driver : DriverOK(drv[e])' BY <1>1, OnlyDriver
  <1>4. Typed' BY <1>1, <1>3 DEF Typed
  <1>5. QED BY <1>2, <1>3, <1>4 DEF GateInv

\* The driver reserves, and goes on only with a reservation that is its own.
LEMMA ReserveCycleKeeps ==
  ASSUME OneDriver, GateInv, NEW d \in Driver, ReserveCycle(d)
  PROVE  GateInv'
  <1>1. /\ drv[d] \in Holding /\ DriverOK(drv[d]) /\ Typed /\ gate \in GateFile /\ GateOK
        /\ LanesOK /\ IInv /\ VerdictIsAnswered /\ drv[d].pc = "reserve"
    BY HoldingOf DEF GateInv, ReserveCycle
  <1>2. /\ drv[d].seen = gate /\ drv[d].head \in HeadSha /\ drv[d].mine = {}
        /\ drv[d].q \in Request /\ Asks(drv[d])
    BY <1>1 DEF DriverOK, Reads, Asks, Lasts
  <1>3. PICK q : q = drv[d].q OBVIOUS
  <1>4. PICK r : r = [drv[d] EXCEPT !.pc = "enter"] OBVIOUS
  <1>5. /\ r \in Holding /\ r.pc = "enter" /\ r.seen = gate /\ r.head \in HeadSha /\ r.mine = {}
        /\ r.q = q /\ r.cycle = drv[d].cycle
    BY <1>1, <1>2, <1>3, <1>4 DEF Holding, Point
  <1>6. UNCHANGED <<gate, session, answers, outbox, head, commits, crashes>>
    BY DEF ReserveCycle, KeepWorld, KeepLanes
  <1>7. \/ /\ Reserve(q) \/ RecoverAttention(q)
           /\ \/ NextNumber(ledger) = drv[d].cycle /\ Hold(d, r)
              \/ Leave(d)
        \/ Known(ledger, q) /\ CycleOf(q.attempt) = drv[d].cycle /\ Hold(d, r) /\ KeepLedger
        \/ Leave(d) /\ KeepLedger
    BY <1>3, <1>4 DEF ReserveCycle
  <1>8. ASSUME Reserved(r) PROVE DriverOK(r)
    BY <1>5, <1>8 DEF DriverOK, Reads, Rescues, Asks, Opens, Takes, Lasts, Opening, Taking
  <1>9. CASE Reserve(q) \/ RecoverAttention(q)
    <2>1. RecoverAttention(q) => q.recover
      BY DEF RecoverAttention, Recoverable
    <2>2. /\ (Terminal \/ ~Exists(gate)) => ~RecoverAttention(q)
          /\ Exists(gate) /\ ~Terminal => q.attempt = gate.id
          /\ Terminal => drv[d].cycle = IF gate.result \in Mechanism THEN gate.cycle ELSE gate.cycle + 1
      BY <1>1, <1>2, <1>3, <2>1 DEF Asks
    <2>3. Reserve(q) \/ (RecoverAttention(q) /\ q.attempt = gate.id /\ Exists(gate))
      BY <1>9, <2>2
    <2>4. /\ IInv' /\ GateOK' /\ VerdictIsAnswered' /\ granted \subseteq granted'
          /\ q.attempt \in granted' /\ Active(ledger') /\ Holder(ledger') = q.attempt
          /\ Len(ledger'.cycles) = NextNumber(ledger)
          /\ Reserve(q) => q.attempt # gate.id
      <3>1. q \in Request /\ UNCHANGED <<gate, session, answers>> BY <1>2, <1>3, <1>6
      <3>2. QED BY <1>1, <2>3, <3>1, CycleTaken
    <2>5. CASE NextNumber(ledger) = drv[d].cycle /\ Hold(d, r)
      <3>1. Reads(r)' BY <1>5, <1>6 DEF Reads, Lasts
      <3>2. Reserved(r)'
        <4>1. Terminal' = Terminal /\ Exists(gate)' = Exists(gate) /\ gate' = gate
          BY <1>6 DEF Terminal, Exists
        <4>2. Active(ledger)' = Active(ledger') /\ Holder(ledger)' = Holder(ledger')
          BY DEF Active, Holder, LastOf
        <4>3. r.q.attempt \in granted' BY <1>5, <2>4
        <4>4. Terminal \/ ~Exists(gate) =>
               /\ Active(ledger') /\ Holder(ledger') = r.q.attempt /\ r.q.attempt # gate.id
               /\ r.cycle = Len(ledger'.cycles)
               /\ Terminal => r.cycle = IF gate.result \in Mechanism THEN gate.cycle ELSE gate.cycle + 1
          BY <1>5, <1>9, <2>2, <2>4, <2>5
        <4>5. QED BY <1>5, <4>1, <4>2, <4>3, <4>4 DEF Reserved
      <3>3. DriverOK(r)'
        BY <1>5, <3>1, <3>2 DEF DriverOK, Rescues, Asks, Opens, Takes, Opening, Taking
      <3>4. drv' = [drv EXCEPT ![d] = r] /\ r \in Holding BY <1>5, <2>5 DEF Hold
      <3>5. QED BY <1>6, <2>4, <3>3, <3>4, LedgerWritten
    <2>6. CASE Leave(d)
      <3>1. PICK x : x = Idle OBVIOUS
      <3>2. x.pc = "idle" /\ x.mine = {} /\ x \in Holding BY <3>1, IdleTyped
      <3>3. DriverOK(x)' BY <3>2, BetweenOK
      <3>4. drv' = [drv EXCEPT ![d] = x] BY <2>6, <3>1 DEF Leave, Hold
      <3>5. QED BY <1>6, <2>4, <3>2, <3>3, <3>4, LedgerWritten
    <2>7. Leave(d) \/ (NextNumber(ledger) = drv[d].cycle /\ Hold(d, r))
      <3>1. CASE Leave(d) BY <3>1
      <3>2. CASE KeepLedger
        <4>1. ledger' = ledger BY <3>2 DEF KeepLedger
        <4>2. Len(ledger'.cycles) = Len(ledger.cycles) + 1 /\ Len(ledger.cycles) \in Nat
          BY <1>1, <2>4 DEF NextNumber, IInv, Good, Ledger
        <4>3. QED BY <4>1, <4>2
      <3>3. QED BY <1>7, <3>1, <3>2
    <2>8. QED BY <2>5, <2>6, <2>7
  <1>10. ASSUME KeepLedger
         PROVE  UNCHANGED files /\ head' \in HeadSha /\ commits' \in Nat /\ crashes' \in Nat
    BY <1>1, <1>6, <1>10 DEF files, KeepLedger, Typed
  <1>11. CASE Known(ledger, q) /\ CycleOf(q.attempt) = drv[d].cycle /\ Hold(d, r) /\ KeepLedger
    <2>1. PICK x : x = drv[d] OBVIOUS
    <2>2. /\ x.pc = "reserve" /\ x.q = q /\ Asks(x) /\ q \in Request /\ CycleOf(q.attempt) = x.cycle
      BY <1>1, <1>2, <1>3, <1>11, <2>1
    <2>3. /\ q.attempt \in granted
          /\ Terminal \/ ~Exists(gate) =>
              /\ Active(ledger) /\ Holder(ledger) = q.attempt /\ q.attempt # gate.id
              /\ x.cycle = Len(ledger.cycles)
              /\ Terminal => x.cycle = IF gate.result \in Mechanism THEN gate.cycle ELSE gate.cycle + 1
      BY <1>1, <1>11, <2>2, KnownIs
    <2>4. Reserved(r) BY <1>5, <2>1, <2>3 DEF Reserved
    <2>5. drv' = [drv EXCEPT ![d] = r] /\ r \in Holding BY <1>5, <1>11 DEF Hold
    <2>6. QED BY <1>8, <1>10, <1>11, <2>4, <2>5, DriverMoves
  <1>12. CASE Leave(d) /\ KeepLedger
    <2>1. drv' = [drv EXCEPT ![d] = Idle] BY <1>12 DEF Leave, Hold
    <2>2. QED BY <1>10, <1>12, <2>1, IdleTyped, IdleOK, DriverMoves
  <1>13. QED BY <1>7, <1>9, <1>11, <1>12

-----------------------------------------------------------------------------
(* The steps that write the gate file.                                     *)

\* The only driver writes the gate and nothing else, about the same attempt.
LEMMA SameAttemptWritten ==
  ASSUME OneDriver, GateInv, UNCHANGED <<session, answers, outbox, ledger, granted, head, commits, crashes>>,
         Exists(gate), NEW g \in GateFile, gate' = g, g.id = gate.id, g.cycle = gate.cycle,
         (g.phase = "terminal") = (g.result # ""),
         g.phase = "awaiting-callback" => \A a \in Axes(gate) : session[a].op = gate.id,
         g.phase \in {"pending", "running"} => g.finals = NoFinal,
         \A a \in Axis : g.finals[a] # "" => <<gate.id, a, g.finals[a]>> \in answers /\ Terminated(session[a]),
         g.phase = "terminal" /\ g.graded =>
           /\ \A a \in Axes(gate) : g.finals[a] # ""
           /\ g.result = Outcome(g.finals, Axes(gate)),
         g.phase = "terminal" /\ ~g.graded => g.result \in Mechanism,
         NEW d \in Driver, NEW r \in Holding, drv' = [drv EXCEPT ![d] = r], DriverOK(r)'
  PROVE  GateInv'
  <1>1. Typed /\ LanesOK /\ GateOK /\ IInv /\ VerdictIsAnswered BY DEF GateInv
  <1>2. IInv' BY <1>1, LedgerUndisturbed
  <1>3. VerdictIsAnswered' BY <1>1 DEF VerdictIsAnswered
  <1>4. drv' \in [Driver -> Holding] /\ \A e \in Driver : DriverOK(drv[e])' BY <1>1, OnlyDriver
  <1>5. Typed' BY <1>1, <1>4 DEF Typed
  <1>6. Exists(gate)' /\ Axes(gate)' = Axes(gate) BY DEF Exists, Axes
  <1>7. LanesOK'
    <2>1. \A a : Terminated(session[a])' = Terminated(session[a]) BY DEF Terminated
    <2>2. QED BY <1>1, <1>6, <2>1 DEF LanesOK
  <1>8. GateOK'
    <2>1. Place(ledger, gate.id, gate.cycle)' /\ gate.cycle \in 1..MaxCycles
      BY <1>1 DEF GateOK, Place
    <2>2. \A i \in 1..Len(ledger.cycles) : ledger.cycles[i].result # Unset =>
            i <= g.cycle /\ (i = g.cycle => ledger.cycles[i].attempt = g.id)
      BY <1>1 DEF GateOK
    <2>3. /\ Active(ledger)' = Active(ledger) /\ Holder(ledger)' = Holder(ledger)
          /\ \A a : Terminated(session[a])' = Terminated(session[a])
      BY DEF Active, Holder, LastOf, Terminated
    <2>4. Active(ledger) /\ Holder(ledger) # g.id =>
            /\ \A a \in Axis : session[a].op # Holder(ledger)
            /\ \A x \in answers : x[1] # Holder(ledger)
      BY <1>1 DEF GateOK
    <2>5. QED BY <1>6, <2>1, <2>2, <2>3, <2>4 DEF GateOK
  <1>9. QED BY <1>2, <1>3, <1>4, <1>5, <1>7, <1>8 DEF GateInv

\* The attempt put over one of the same identity.
LEMMA WithSame ==
  ASSUME gate \in GateFile, NEW run, Identity(gate) = run,
         NEW p, NEW v \in Result, NEW b \in BOOLEAN, NEW g, g = WithAttempt(gate, run, p, v, b),
         p \in {"running", "awaiting-callback", "terminal"}
  PROVE  /\ g \in GateFile /\ g.id = gate.id /\ g.cycle = gate.cycle /\ g.head = gate.head
         /\ g.phase = p /\ g.result = v /\ g.graded = b /\ g.finals = gate.finals
  BY DEF WithAttempt, Identity, GateFile

\* The attempt that was given up is opened again for its answer.
LEMMA ReopenKeeps ==
  ASSUME OneDriver, GateInv, NEW d \in Driver, Reopen(d)
  PROVE  GateInv'
  <1>1. /\ drv[d] \in Holding /\ DriverOK(drv[d]) /\ Typed /\ gate \in GateFile /\ GateOK
        /\ LanesOK /\ drv[d].pc = "reopen"
    BY HoldingOf DEF GateInv, Reopen
  <1>2. /\ drv[d].seen = gate /\ drv[d].head \in HeadSha /\ drv[d].mine = {} /\ Terminal
        /\ drv[d].axis \in Axes(gate) /\ drv[d].axis \in Axis
    BY <1>1 DEF DriverOK, Reads, Rescues, Lasts, Holding
  <1>3. PICK a \in Axis : Axes(gate) = {a} /\ session[a].op = gate.id
    BY <1>1 DEF DriverOK, Rescues
  <1>4. PICK g : g = Reopened(gate, drv[d].axis) OBVIOUS
  <1>5. /\ g \in GateFile /\ g.id = gate.id /\ g.cycle = gate.cycle /\ g.phase = "awaiting-callback"
        /\ g.result = "" /\ g.finals = gate.finals
    BY <1>1, <1>2, <1>4 DEF Reopened, GateFile, Result
  <1>6. PICK q : q = [NoRequest(drv[d].head) EXCEPT !.attempt = gate.id, !.recover = TRUE]
    OBVIOUS
  <1>7. q \in Asked /\ q \in Request /\ q.attempt = gate.id
    <2>1. gate.id \in Attempt BY <1>1, <1>2 DEF Terminal, Exists, GateFile
    <2>2. PICK y, h : y = NoRequest(drv[d].head) /\ h = drv[d].head OBVIOUS
    <2>3. y \in Asked /\ y.head = h /\ h \in HeadSha BY <1>2, <2>2, NoRequestTyped
    <2>4. q = [y EXCEPT !.attempt = gate.id, !.recover = TRUE] BY <1>6, <2>2
    <2>5. q \in Asked /\ q.attempt = gate.id /\ q.head = h BY <2>1, <2>3, <2>4 DEF Asked
    <2>6. QED BY <2>1, <2>3, <2>5, RequestTyped
  <1>8. PICK r : r = [drv[d] EXCEPT !.pc = "reserve", !.seen = g, !.cycle = g.cycle, !.q = q]
    OBVIOUS
  <1>9. /\ r \in Holding /\ r.pc = "reserve" /\ r.seen = g /\ r.cycle = g.cycle /\ r.q = q
        /\ r.mine = {} /\ r.head \in HeadSha
    <2>1. g.cycle \in Nat /\ "reserve" \in Point BY <1>5 DEF GateFile, Point
    <2>2. QED BY <1>1, <1>2, <1>5, <1>7, <1>8, <2>1 DEF Holding
  <1>10. gate' = g /\ drv' = [drv EXCEPT ![d] = r]
    BY <1>2, <1>4, <1>5, <1>6, <1>8 DEF Reopen, Hold
  <1>11. UNCHANGED <<session, answers, outbox, ledger, granted, head, commits, crashes>>
    BY DEF Reopen, KeepLedger, KeepWorld, KeepLanes
  <1>12. DriverOK(r)'
    <2>1. Exists(gate)' /\ ~Terminal'
      BY <1>2, <1>5, <1>10 DEF Terminal, Exists
    <2>2. QED BY <1>5, <1>7, <1>9, <1>10, <2>1
          DEF DriverOK, Reads, Rescues, Asks, Reserved, Opens, Takes, Lasts, Opening, Taking
  <1>13. /\ \A x \in Axes(gate) : session[x].op = gate.id
         /\ \A x \in Axis : g.finals[x] # "" =>
              <<gate.id, x, g.finals[x]>> \in answers /\ Terminated(session[x])
         /\ Exists(gate)
    BY <1>1, <1>2, <1>3, <1>5 DEF GateOK, Terminal
  <1>14. QED BY <1>5, <1>9, <1>10, <1>11, <1>12, <1>13, SameAttemptWritten

\* An attempt that exists as pending is now running.
LEMMA RunKeeps ==
  ASSUME OneDriver, GateInv, NEW d \in Driver, Run(d)
  PROVE  GateInv'
  <1>1. /\ drv[d] \in Holding /\ DriverOK(drv[d]) /\ Typed /\ gate \in GateFile /\ GateOK
        /\ drv[d].pc = "run"
    BY HoldingOf DEF GateInv, Run
  <1>2. PICK q : q = drv[d] OBVIOUS
  <1>3. /\ Exists(gate) /\ Identity(gate) = q.run /\ gate.phase \in {"pending", "running"}
        /\ \A a \in Axis : session[a].op = gate.id <=> a \in q.mine
        /\ q.mine \subseteq Axes(gate)
        /\ \A x \in answers : x[1] = gate.id => x[2] \in q.mine
        /\ q \in Holding /\ gate.finals = NoFinal
    BY <1>1, <1>2 DEF DriverOK, Opens, Opening, GateOK
  <1>4. PICK w, p, v, no : /\ w = WithAttempt(gate, q.run, p, v, no)
                           /\ p = "running" /\ v = "" /\ no = FALSE
    OBVIOUS
  <1>5. /\ w \in GateFile /\ w.id = gate.id /\ w.cycle = gate.cycle /\ w.head = gate.head
        /\ w.phase = "running" /\ w.result = "" /\ w.finals = gate.finals
    <2>1. v \in Result /\ no \in BOOLEAN BY <1>4 DEF Result
    <2>2. gate \in GateFile /\ Identity(gate) = q.run BY <1>1, <1>3
    <2>3. /\ w \in GateFile /\ w.id = gate.id /\ w.cycle = gate.cycle /\ w.head = gate.head
          /\ w.phase = p /\ w.result = v /\ w.graded = no /\ w.finals = gate.finals
      <3>1. p \in {"running", "awaiting-callback", "terminal"} BY <1>4
      <3>2. w = WithAttempt(gate, q.run, p, v, no) BY <1>4
      <3>3. QED BY <2>1, <2>2, <3>1, <3>2, WithSame
    <2>4. QED BY <1>4, <2>3
  <1>6. PICK g : g = [w EXCEPT !.status = "running"] OBVIOUS
  <1>7. /\ g \in GateFile /\ g.id = gate.id /\ g.cycle = gate.cycle /\ g.head = gate.head
        /\ g.phase = "running" /\ g.result = "" /\ g.finals = NoFinal
    BY <1>3, <1>5, <1>6 DEF GateFile
  <1>8. PICK r : r = [q EXCEPT !.pc = "launch"] OBVIOUS
  <1>9. r \in Holding /\ r.pc = "launch" /\ r.run = q.run /\ r.mine = q.mine
    BY <1>3, <1>8 DEF Holding, Point
  <1>10. /\ gate' = g /\ drv' = [drv EXCEPT ![d] = r]
         /\ UNCHANGED <<session, answers, outbox, ledger, granted, head, commits, crashes>>
    BY <1>2, <1>4, <1>6, <1>8 DEF Run, Hold, KeepLedger, KeepWorld, KeepLanes
  <1>11. Opens(r)'
    <2>1. Exists(gate)' /\ Identity(gate)' = Identity(gate) /\ Axes(gate)' = Axes(gate)
      BY <1>3, <1>7, <1>10 DEF Exists, Identity, Axes
    <2>2. QED BY <1>3, <1>7, <1>9, <1>10, <2>1 DEF Opens
  <1>12. DriverOK(r)'
    BY <1>9, <1>11 DEF DriverOK, Reads, Rescues, Asks, Reserved, Takes, Lasts, Taking
  <1>13. \A a \in Axis : g.finals[a] = "" BY <1>7, EmptyTyped
  <1>14. QED BY <1>3, <1>7, <1>9, <1>10, <1>12, <1>13, SameAttemptWritten

\* A driver with nothing left to do ends the opening of its attempt.
LEMMA FailKeeps ==
  ASSUME OneDriver, GateInv, NEW d \in Driver, Fail(d)
  PROVE  GateInv'
  <1>1. /\ drv[d] \in Holding /\ DriverOK(drv[d]) /\ Typed /\ gate \in GateFile /\ GateOK
        /\ drv[d].pc = "fail"
    BY HoldingOf DEF GateInv, Fail
  <1>2. /\ Exists(gate) /\ Identity(gate) = drv[d].run /\ gate.phase \in {"pending", "running"}
        /\ gate.finals = NoFinal
    BY <1>1 DEF DriverOK, Opens, Opening, GateOK
  <1>3. PICK w, p, v, no : /\ w = WithAttempt(gate, drv[d].run, p, v, no)
                           /\ p = "terminal" /\ v = "attention-required" /\ no = FALSE
    OBVIOUS
  <1>4. /\ w \in GateFile /\ w.id = gate.id /\ w.cycle = gate.cycle
        /\ w.phase = "terminal" /\ w.result = "attention-required" /\ w.graded = FALSE
        /\ w.finals = gate.finals
    <2>1. v \in Result /\ no \in BOOLEAN BY <1>3, ResultsAre DEF Result
    <2>2. gate \in GateFile /\ Identity(gate) = drv[d].run BY <1>1, <1>2
    <2>3. /\ w \in GateFile /\ w.id = gate.id /\ w.cycle = gate.cycle
          /\ w.phase = p /\ w.result = v /\ w.graded = no /\ w.finals = gate.finals
      BY <1>3, <2>1, <2>2, WithSame
    <2>4. QED BY <1>3, <2>3
  <1>5. PICK g : g = [w EXCEPT !.status = "attention-required"] OBVIOUS
  <1>6. /\ g \in GateFile /\ g.id = gate.id /\ g.cycle = gate.cycle
        /\ g.phase = "terminal" /\ g.result = "attention-required" /\ g.graded = FALSE
        /\ g.finals = NoFinal
    BY <1>2, <1>4, <1>5, ResultsAre DEF GateFile
  <1>7. PICK r : r = Idle OBVIOUS
  <1>8. r \in Holding /\ r.pc = "idle" /\ r.mine = {} BY <1>7, IdleTyped
  <1>9. /\ gate' = g /\ drv' = [drv EXCEPT ![d] = r]
        /\ UNCHANGED <<session, answers, outbox, ledger, granted, head, commits, crashes>>
    BY <1>3, <1>5, <1>7 DEF Fail, Leave, Hold, KeepLedger, KeepWorld, KeepLanes
  <1>10. DriverOK(r)' BY <1>8, BetweenOK
  <1>11. \A a \in Axis : g.finals[a] = "" BY <1>6, EmptyTyped
  <1>12. QED BY <1>2, <1>6, <1>8, <1>9, <1>10, <1>11, ResultsAre, SameAttemptWritten

\* Every lane is open: the attempt waits for its callbacks.
LEMMA AwaitKeeps ==
  ASSUME OneDriver, GateInv, NEW d \in Driver, Await(d)
  PROVE  GateInv'
  <1>1. /\ drv[d] \in Holding /\ DriverOK(drv[d]) /\ Typed /\ gate \in GateFile /\ GateOK
        /\ drv[d].pc = "launch"
    BY HoldingOf DEF GateInv, Await
  <1>2. /\ Exists(gate) /\ Identity(gate) = drv[d].run /\ gate.phase \in {"pending", "running"}
        /\ gate.finals = NoFinal /\ gate.cycle \in 1..MaxCycles
        /\ \A a \in Axis : session[a].op = gate.id <=> a \in drv[d].mine
    BY <1>1 DEF DriverOK, Opens, Opening, GateOK
  <1>3. PICK w, p, v, no : /\ w = WithAttempt(gate, drv[d].run, p, v, no)
                           /\ p = "awaiting-callback" /\ v = "" /\ no = FALSE
    OBVIOUS
  <1>4. /\ w \in GateFile /\ w.id = gate.id /\ w.cycle = gate.cycle
        /\ w.phase = "awaiting-callback" /\ w.result = "" /\ w.finals = gate.finals
    <2>1. v \in Result /\ no \in BOOLEAN BY <1>3 DEF Result
    <2>2. gate \in GateFile /\ Identity(gate) = drv[d].run BY <1>1, <1>2
    <2>3. /\ w \in GateFile /\ w.id = gate.id /\ w.cycle = gate.cycle /\ w.head = gate.head
          /\ w.phase = p /\ w.result = v /\ w.graded = no /\ w.finals = gate.finals
      <3>1. p \in {"running", "awaiting-callback", "terminal"} BY <1>3
      <3>2. w = WithAttempt(gate, drv[d].run, p, v, no) BY <1>3
      <3>3. QED BY <2>1, <2>2, <3>1, <3>2, WithSame
    <2>4. QED BY <1>3, <2>3
  <1>5. PICK k : k = [a \in Axis |-> IF a \in Axes(drv[d].run) THEN "open" ELSE "none"] OBVIOUS
  <1>6. k \in [Axis -> {"none", "open", "done"}] BY <1>5
  <1>7. PICK g : g = [w EXCEPT !.status = "reviewing", !.op = drv[d].run.id, !.lanes = k] OBVIOUS
  <1>8. /\ g \in GateFile /\ g.id = gate.id /\ g.cycle = gate.cycle
        /\ g.phase = "awaiting-callback" /\ g.result = "" /\ g.finals = NoFinal
    <2>1. drv[d].run.id \in Attempt \cup {NoAttempt} BY <1>1 DEF Holding
    <2>2. QED BY <1>2, <1>4, <1>6, <1>7, <2>1 DEF GateFile
  <1>9. PICK r : r = Idle OBVIOUS
  <1>10. r \in Holding /\ r.pc = "idle" /\ r.mine = {} BY <1>9, IdleTyped
  <1>11. /\ gate' = g /\ drv' = [drv EXCEPT ![d] = r] /\ ToLaunch(d) = {}
         /\ UNCHANGED <<session, answers, outbox, ledger, granted, head, commits, crashes>>
    BY <1>3, <1>5, <1>7, <1>9 DEF Await, Leave, Hold, KeepLedger, KeepWorld, KeepLanes
  <1>12. DriverOK(r)' BY <1>10, BetweenOK
  <1>13. \A a \in Axis : g.finals[a] = "" BY <1>8, EmptyTyped
  <1>14. \A a \in Axes(gate) : session[a].op = gate.id
    <2>1. drv[d].run.cycle = gate.cycle BY <1>2 DEF Identity
    <2>2. Axes(gate) \subseteq drv[d].mine BY <1>11, <2>1 DEF ToLaunch, Axes
    <2>3. Axes(gate) \subseteq Axis BY <1>2, AxesAre DEF Axes
    <2>4. QED BY <1>2, <2>2, <2>3
  <1>15. QED BY <1>2, <1>8, <1>10, <1>11, <1>12, <1>13, <1>14, SameAttemptWritten

\* The driver gives up an attempt whose reviewer it could not clean up.
LEMMA AttendKeeps ==
  ASSUME OneDriver, GateInv, NEW d \in Driver, Attend(d)
  PROVE  GateInv'
  <1>1. /\ drv[d] \in Holding /\ DriverOK(drv[d]) /\ Typed /\ gate \in GateFile /\ GateOK
        /\ drv[d].pc = "attend"
    BY HoldingOf DEF GateInv, Attend
  <1>2. /\ Exists(gate) /\ Identity(gate) = drv[d].run /\ gate.phase = "awaiting-callback"
        /\ drv[d].mine = {}
        /\ \A a \in Axis : gate.finals[a] # "" =>
             <<gate.id, a, gate.finals[a]>> \in answers /\ Terminated(session[a])
    BY <1>1 DEF DriverOK, Takes, Taking, Reads, GateOK
  <1>3. PICK w, p, v, no : /\ w = WithAttempt(gate, drv[d].run, p, v, no)
                           /\ p = "terminal" /\ v = "attention-required" /\ no = FALSE
    OBVIOUS
  <1>4. /\ w \in GateFile /\ w.id = gate.id /\ w.cycle = gate.cycle
        /\ w.phase = "terminal" /\ w.result = "attention-required" /\ w.graded = FALSE
        /\ w.finals = gate.finals
    <2>1. v \in Result /\ no \in BOOLEAN BY <1>3, ResultsAre DEF Result
    <2>2. gate \in GateFile /\ Identity(gate) = drv[d].run BY <1>1, <1>2
    <2>3. /\ w \in GateFile /\ w.id = gate.id /\ w.cycle = gate.cycle
          /\ w.phase = p /\ w.result = v /\ w.graded = no /\ w.finals = gate.finals
      <3>1. p \in {"running", "awaiting-callback", "terminal"} BY <1>3
      <3>2. w = WithAttempt(gate, drv[d].run, p, v, no) BY <1>3
      <3>3. QED BY <2>1, <2>2, <3>1, <3>2, WithSame
    <2>4. QED BY <1>3, <2>3
  <1>5. PICK g : g = [w EXCEPT !.status = "attention-required"] OBVIOUS
  <1>6. /\ g \in GateFile /\ g.id = gate.id /\ g.cycle = gate.cycle
        /\ g.phase = "terminal" /\ g.result = "attention-required" /\ g.graded = FALSE
        /\ g.finals = gate.finals
    BY <1>4, <1>5, ResultsAre DEF GateFile
  <1>7. PICK r : r = [drv[d] EXCEPT !.pc = "record"] OBVIOUS
  <1>8. r \in Holding /\ r.pc = "record" /\ r.mine = {} BY <1>1, <1>2, <1>7 DEF Holding, Point
  <1>9. /\ gate' = g /\ drv' = [drv EXCEPT ![d] = r]
        /\ UNCHANGED <<session, answers, outbox, ledger, granted, head, commits, crashes>>
    BY <1>3, <1>5, <1>7 DEF Attend, Hold, KeepLedger, KeepWorld, KeepLanes
  <1>10. DriverOK(r)' BY <1>8, BetweenOK
  <1>11. QED BY <1>2, <1>6, <1>8, <1>9, <1>10, ResultsAre, SameAttemptWritten

\* Lanes and results are put back with the answer.
LEMMA WriteResultsKeeps ==
  ASSUME OneDriver, GateInv, NEW d \in Driver, WriteResults(d)
  PROVE  GateInv'
  <1>1. /\ drv[d] \in Holding /\ DriverOK(drv[d]) /\ Typed /\ gate \in GateFile /\ GateOK
        /\ drv[d].pc = "write"
    BY HoldingOf DEF GateInv, WriteResults
  <1>2. PICK q : q = drv[d] OBVIOUS
  <1>3. /\ Exists(gate) /\ Identity(gate) = q.run /\ gate.phase = "awaiting-callback"
        /\ q.mine = {} /\ q \in Holding /\ q.seen \in GateFile
        /\ \A a \in Axis : q.ready[a] # "" => a \in Axes(gate)
        /\ \A a \in Axis : q.seen.finals[a] # "" =>
             <<gate.id, a, q.seen.finals[a]>> \in answers /\ Terminated(session[a])
    BY <1>1, <1>2 DEF DriverOK, Takes, Taking, Reads, Holding
  <1>4. PICK g : g = [gate EXCEPT !.status = "reviewing", !.lanes = q.seen.lanes,
                                  !.finals = q.seen.finals]
    OBVIOUS
  <1>5. /\ g \in GateFile /\ g.id = gate.id /\ g.cycle = gate.cycle /\ g.head = gate.head
        /\ g.phase = "awaiting-callback" /\ g.result = gate.result /\ g.finals = q.seen.finals
    BY <1>1, <1>3, <1>4 DEF GateFile
  <1>6. g.result = "" BY <1>1, <1>3, <1>5 DEF GateOK
  <1>7. PICK r : r = [q EXCEPT !.pc = "finish", !.seen = NoGate] OBVIOUS
  <1>8. /\ r \in Holding /\ r.pc = "finish" /\ r.mine = {} /\ r.run = q.run /\ r.ready = q.ready
    BY <1>3, <1>7, NoGateTyped DEF Holding, Point
  <1>9. /\ gate' = g /\ drv' = [drv EXCEPT ![d] = r]
        /\ UNCHANGED <<session, answers, outbox, ledger, granted, head, commits, crashes>>
    BY <1>2, <1>4, <1>7 DEF WriteResults, Hold, KeepLedger, KeepWorld, KeepLanes
  <1>10. DriverOK(r)'
    <2>1. Exists(gate)' /\ Identity(gate)' = Identity(gate) /\ Axes(gate)' = Axes(gate)
      BY <1>3, <1>5, <1>9 DEF Exists, Identity, Axes
    <2>2. Takes(r)' BY <1>3, <1>5, <1>8, <1>9, <2>1 DEF Takes, Taking
    <2>3. QED BY <1>8, <2>2 DEF DriverOK, Reads, Rescues, Asks, Reserved, Opens, Lasts, Opening
  <1>11. \A a \in Axes(gate) : session[a].op = gate.id BY <1>1, <1>3 DEF GateOK
  <1>12. QED BY <1>3, <1>5, <1>6, <1>8, <1>9, <1>10, <1>11, SameAttemptWritten

\* The attempt is graded when the last answer is in.
LEMMA FinishKeeps ==
  ASSUME OneDriver, GateInv, NEW d \in Driver, Finish(d)
  PROVE  GateInv'
  <1>1. /\ drv[d] \in Holding /\ DriverOK(drv[d]) /\ Typed /\ gate \in GateFile /\ GateOK
        /\ drv[d].pc = "finish"
    BY HoldingOf DEF GateInv, Finish
  <1>2. PICK q : q = drv[d] OBVIOUS
  <1>3. /\ Exists(gate) /\ Identity(gate) = q.run /\ gate.phase = "awaiting-callback"
        /\ q.mine = {} /\ q \in Holding
        /\ \A a \in Axis : q.ready[a] # "" => a \in Axes(gate)
        /\ \A a \in Axis : gate.finals[a] # "" =>
             <<gate.id, a, gate.finals[a]>> \in answers /\ Terminated(session[a])
    BY <1>1, <1>2 DEF DriverOK, Takes, Taking, Reads, GateOK
  <1>4. Axes(q.run) = Axes(gate)
    <2>1. Identity(gate) = q.run BY <1>3
    <2>2. Identity(gate).cycle = gate.cycle BY DEF Identity
    <2>3. QED BY <2>1, <2>2 DEF Axes
  <1>5. UNCHANGED <<session, answers, outbox, ledger, granted, head, commits, crashes>>
    BY DEF Finish, KeepLedger, KeepWorld, KeepLanes
  <1>6. CASE \E a \in Axes(gate) : gate.finals[a] = ""
    <2>1. PICK r : r = [q EXCEPT !.pc = "pick"] OBVIOUS
    <2>2. r \in Holding /\ r.pc = "pick" /\ r.mine = {} /\ r.run = q.run /\ r.ready = q.ready
      BY <1>3, <2>1 DEF Holding, Point
    <2>3. drv' = [drv EXCEPT ![d] = r] /\ UNCHANGED gate
      BY <1>2, <1>4, <1>6, <2>1 DEF Finish, Hold
    <2>4. DriverOK(r)
      BY <1>3, <2>2
      DEF DriverOK, Reads, Rescues, Asks, Reserved, Opens, Takes, Lasts, Opening, Taking
    <2>5. UNCHANGED files /\ head' \in HeadSha /\ commits' \in Nat /\ crashes' \in Nat
      BY <1>1, <1>5, <2>3 DEF files, Typed
    <2>6. QED BY <2>2, <2>3, <2>4, <2>5, DriverMoves
  <1>7. CASE \A a \in Axes(gate) : gate.finals[a] # ""
    <2>1. PICK w, p, v, yes : /\ w = WithAttempt(gate, q.run, p, v, yes)
                              /\ p = "terminal" /\ v = Outcome(gate.finals, Axes(gate)) /\ yes = TRUE
      OBVIOUS
    <2>2. v \in Product \cup Mechanism
      BY <2>1, ResultsAre DEF Outcome
    <2>3. /\ w \in GateFile /\ w.id = gate.id /\ w.cycle = gate.cycle /\ w.head = gate.head
          /\ w.phase = p /\ w.result = v /\ w.graded = yes /\ w.finals = gate.finals
      <3>1. p \in {"running", "awaiting-callback", "terminal"} BY <2>1
      <3>2. w = WithAttempt(gate, q.run, p, v, yes) BY <2>1
      <3>3. v \in Result /\ yes \in BOOLEAN BY <2>1, <2>2 DEF Result
      <3>4. gate \in GateFile /\ Identity(gate) = q.run BY <1>1, <1>3
      <3>5. QED BY <3>1, <3>2, <3>3, <3>4, WithSame
    <2>4. PICK g : g = [w EXCEPT !.status = v] OBVIOUS
    <2>5. /\ g \in GateFile /\ g.id = gate.id /\ g.cycle = gate.cycle
          /\ g.phase = "terminal" /\ g.result = v /\ g.graded = TRUE /\ g.finals = gate.finals
      BY <2>1, <2>2, <2>3, <2>4 DEF GateFile
    <2>6. v # "" BY <2>2, ResultsAre
    <2>7. PICK r : r = [q EXCEPT !.pc = "record"] OBVIOUS
    <2>8. r \in Holding /\ r.pc = "record" /\ r.mine = {} BY <1>3, <2>7 DEF Holding, Point
    <2>9. gate' = g /\ drv' = [drv EXCEPT ![d] = r]
      BY <1>2, <1>4, <1>7, <2>1, <2>4, <2>7 DEF Finish, Hold
    <2>10. DriverOK(r)' BY <2>8, BetweenOK
    <2>11. g.result = Outcome(g.finals, Axes(gate)) /\ \A a \in Axes(gate) : g.finals[a] # ""
      BY <1>7, <2>1, <2>5
    <2>12. QED BY <1>3, <1>5, <2>5, <2>6, <2>8, <2>9, <2>10, <2>11, SameAttemptWritten
  <1>8. QED BY <1>6, <1>7

\* The lanes of the attempt that is replaced have ended.
LEMMA ReplacedHasEnded ==
  ASSUME Typed, LanesOK, GateOK, Terminal, NEW r, MayReplace(gate, r),
         r.cycle = IF gate.result \in Mechanism THEN gate.cycle ELSE gate.cycle + 1,
         NEW a \in Axis, session[a].op = gate.id
  PROVE  Terminated(session[a])
  <1>1. Exists(gate) /\ gate \in GateFile /\ gate.phase = "terminal" BY DEF Terminal, Typed
  <1>2. a \in Axes(gate) BY <1>1 DEF LanesOK
  <1>3. CASE r.cycle = gate.cycle + 1
    <2>1. gate.cycle \in Nat BY <1>1 DEF GateFile
    <2>2. gate.result \notin Mechanism BY <1>3, <2>1
    <2>3. gate.graded BY <1>1, <2>2 DEF GateOK, GateFile
    <2>4. gate.finals[a] # "" BY <1>1, <1>2, <2>3 DEF GateOK
    <2>5. QED BY <2>4 DEF GateOK
  <1>4. CASE r.cycle # gate.cycle + 1
    <2>1. Quiescent(gate) \/ RecordsReleased(gate) BY <1>4 DEF MayReplace
    <2>2. QED BY <1>2, <2>1 DEF Quiescent, RecordsReleased, Terminated
  <1>5. QED BY <1>3, <1>4

\* A fresh attempt takes the place of one that has ended.
LEMMA InitializeKeeps ==
  ASSUME OneDriver, GateInv, NEW d \in Driver, Initialize(d)
  PROVE  GateInv'
  <1>1. /\ drv[d] \in Holding /\ DriverOK(drv[d]) /\ Typed /\ gate \in GateFile /\ GateOK
        /\ LanesOK /\ IInv /\ VerdictIsAnswered /\ drv[d].pc = "initialize"
    BY HoldingOf DEF GateInv, Initialize
  <1>2. PICK q : q = drv[d] OBVIOUS
  <1>3. /\ q \in Holding /\ q.mine = {} /\ q.head \in HeadSha
        /\ q.q.attempt \in granted /\ (Terminal \/ ~Exists(gate))
        /\ Active(ledger) /\ Holder(ledger) = q.q.attempt /\ q.q.attempt # gate.id
        /\ q.cycle = Len(ledger.cycles)
        /\ Terminal => q.cycle = IF gate.result \in Mechanism THEN gate.cycle ELSE gate.cycle + 1
    BY <1>1, <1>2 DEF DriverOK, Reads, Reserved, Lasts
  <1>4. PICK id : id = q.q.attempt OBVIOUS
  <1>5. PICK l : l = ledger OBVIOUS
  <1>6. l \in Ledger /\ Good(l) /\ granted \subseteq Attempt BY <1>1, <1>5 DEF IInv, Good
  <1>7. /\ q.cycle \in 1..MaxCycles /\ q.cycle \in Nat \ {0} /\ q.cycle = Len(l.cycles)
        /\ q.cycle \in 1..Len(l.cycles)
        /\ l.cycles[q.cycle].attempt = id /\ l.cycles[q.cycle].result = Unset
    BY <1>3, <1>4, <1>5, <1>6, HolderIs, AxesAre DEF Good, Well
  <1>8. id \in Attempt /\ id # NoAttempt /\ id \in granted BY <1>3, <1>4, <1>6, IdsAre
  <1>9. PICK g, c, h : g = FreshGate(id, c, h) /\ c = q.cycle /\ h = q.head OBVIOUS
  <1>10. /\ g \in GateFile /\ g.id = id /\ g.cycle = q.cycle /\ g.head = q.head
         /\ g.phase = "pending" /\ g.result = "" /\ g.finals = NoFinal
    <2>1. id \in Attempt \cup {NoAttempt} /\ c \in Nat /\ h \in HeadSha \cup {NoAttempt}
      BY <1>3, <1>7, <1>8, <1>9
    <2>2. g = FreshGate(id, c, h) BY <1>9
    <2>3. /\ g \in GateFile /\ g.id = id /\ g.cycle = c /\ g.head = h
          /\ g.phase = "pending" /\ g.result = "" /\ g.finals = NoFinal
      BY <2>1, <2>2, EmptyTyped DEF FreshGate, GateFile, Result
    <2>4. QED BY <1>9, <2>3
  <1>11. UNCHANGED <<session, answers, outbox, ledger, granted, head, commits, crashes>>
    BY DEF Initialize, KeepLedger, KeepWorld, KeepLanes
  <1>12. PICK run : run = Identity(g) OBVIOUS
  <1>13. PICK r : r = [q EXCEPT !.pc = "run", !.run = run] OBVIOUS
  <1>14. /\ r \in Holding /\ r.pc = "run" /\ r.run = Identity(g) /\ r.mine = {}
    <2>1. run \in [id : Attempt \cup {NoAttempt}, cycle : Nat, head : HeadSha \cup {NoAttempt}]
      BY <1>10, <1>12, IdentityTyped
    <2>2. QED BY <1>3, <1>12, <1>13, <2>1 DEF Holding, Point
  <1>15. /\ \A a \in Axis : session[a].op # id
         /\ \A x \in answers : x[1] # id
    BY <1>1, <1>3, <1>4 DEF GateOK
  <1>16. CASE /\ gate' = g /\ drv' = [drv EXCEPT ![d] = r]
              /\ ~Exists(gate) \/ (Terminal /\ MayReplace(gate, q))
    <2>1. Exists(gate)' /\ Identity(gate)' = r.run /\ gate' = g
      BY <1>8, <1>10, <1>14, <1>16 DEF Exists, Identity
    <2>2. Opens(r)' BY <1>10, <1>11, <1>14, <1>15, <2>1 DEF Opens
    <2>3. DriverOK(r)'
      BY <1>14, <2>2 DEF DriverOK, Reads, Rescues, Asks, Reserved, Takes, Lasts, Taking
    <2>4. drv' \in [Driver -> Holding] /\ \A e \in Driver : DriverOK(drv[e])'
      BY <1>1, <1>14, <1>16, <2>3, OnlyDriver
    <2>5. Typed' BY <1>1, <1>10, <1>11, <2>1, <2>4 DEF Typed
    <2>6. IInv' /\ VerdictIsAnswered'
      <3>1. UNCHANGED <<ledger, granted>> BY <1>11
      <3>2. QED BY <1>1, <1>11, <3>1, LedgerUndisturbed DEF VerdictIsAnswered
    <2>7. LanesOK'
      <3>1. ASSUME NEW a \in Axis, session[a].op \notin {NoAttempt, id} PROVE Terminated(session[a])
        <4>1. CASE session[a].op # gate.id BY <1>1, <3>1, <4>1 DEF LanesOK
        <4>2. CASE session[a].op = gate.id
          <5>1. Terminal /\ MayReplace(gate, q)
            <6>1. gate.id # NoAttempt BY <3>1, <4>2
            <6>2. QED BY <1>16, <6>1 DEF Exists
          <5>2. QED BY <1>1, <1>3, <4>2, <5>1, ReplacedHasEnded
        <4>3. QED BY <4>1, <4>2
      <3>2. \A a : Terminated(session[a])' = Terminated(session[a]) BY <1>11 DEF Terminated
      <3>3. QED BY <1>1, <1>10, <1>11, <1>15, <2>1, <3>1, <3>2 DEF LanesOK
    <2>8. GateOK'
      <3>1. Place(ledger, gate.id, gate.cycle)' /\ gate'.cycle \in 1..MaxCycles
        <4>1. ledger' = l /\ gate'.id = id /\ gate'.cycle = q.cycle /\ q.cycle \in 1..Len(l.cycles)
          BY <1>5, <1>7, <1>10, <1>11, <2>1
        <4>2. QED BY <1>7, <4>1 DEF Place
      <3>2. \A i \in 1..Len(l.cycles) : l.cycles[i].result # Unset =>
              i <= g.cycle /\ (i = g.cycle => l.cycles[i].attempt = g.id)
        <4>1. PICK n : n = q.cycle OBVIOUS
        <4>2. n \in Nat /\ n = Len(l.cycles) /\ g.cycle = n /\ l.cycles[n].attempt = g.id
          BY <1>7, <1>10, <4>1
        <4>3. QED BY <4>2
      <3>3. Holder(ledger)' = g.id
        <4>1. Holder(ledger)' = Holder(ledger') BY DEF Holder, Active, LastOf
        <4>2. QED BY <1>3, <1>4, <1>10, <1>11, <4>1
      <3>4. \A a \in Axis : g.finals[a] = "" BY <1>10, EmptyTyped
      <3>5. QED BY <1>5, <1>10, <1>11, <2>1, <3>1, <3>2, <3>3, <3>4 DEF GateOK
    <2>9. QED BY <2>4, <2>5, <2>6, <2>7, <2>8 DEF GateInv
  <1>17. CASE Leave(d) /\ UNCHANGED gate
    <2>1. UNCHANGED files /\ head' \in HeadSha /\ commits' \in Nat /\ crashes' \in Nat
      BY <1>1, <1>11, <1>17 DEF files, Typed
    <2>2. QED BY <1>17, <2>1, IdleTyped, IdleOK, DriverMoves DEF Leave, Hold
  <1>18. \/ /\ ~Exists(gate) \/ (Terminal /\ MayReplace(gate, q))
            /\ gate' = g /\ Hold(d, r)
         \/ Exists(gate) /\ UNCHANGED gate /\ (gate = g \/ Leave(d))
    BY <1>2, <1>4, <1>9, <1>12, <1>13 DEF Initialize, Terminal
  <1>19. Exists(gate) => gate # g BY <1>3, <1>10 DEF Terminal
  <1>20. QED BY <1>16, <1>17, <1>18, <1>19 DEF Hold

\* The lanes an opening driver writes are of its own attempt, and unanswered.
LEMMA OpeningWritten ==
  ASSUME OneDriver, GateInv, UNCHANGED <<gate, answers, outbox, ledger, granted, head, commits, crashes>>,
         NEW d \in Driver, NEW r \in Holding, drv' = [drv EXCEPT ![d] = r], DriverOK(r)',
         Exists(gate), gate.phase \in {"pending", "running"}, session' \in [Axis -> Lane],
         \A a \in Axis :
           \/ session'[a] = session[a]
           \/ /\ session'[a].op = gate.id /\ a \in Axes(gate)
              /\ session'[a].child \in {"awaiting", "failed"} /\ session'[a].parent # "none"
              /\ \A v \in Verdict : <<gate.id, a, v>> \notin answers
           \/ /\ session'[a].op = gate.id /\ session[a].op = gate.id
              /\ session'[a].answer = session[a].answer /\ session'[a].parent # "none"
              /\ session'[a].child = session[a].child \/ session'[a].child = "failed"
  PROVE  GateInv'
  <1>1. Typed /\ LanesOK /\ GateOK /\ IInv /\ VerdictIsAnswered BY DEF GateInv
  <1>2. IInv' BY <1>1, LedgerUndisturbed
  <1>3. VerdictIsAnswered' BY <1>1 DEF VerdictIsAnswered
  <1>4. drv' \in [Driver -> Holding] /\ \A e \in Driver : DriverOK(drv[e])' BY <1>1, OnlyDriver
  <1>5. Typed' BY <1>1, <1>4 DEF Typed
  <1>6. gate.id \in granted /\ gate.id # NoAttempt
    <2>1. Good(ledger) /\ granted = Identities(ledger) BY <1>1 DEF IInv, AccountedFor
    <2>2. Place(ledger, gate.id, gate.cycle) BY <1>1 DEF GateOK
    <2>3. QED BY <2>1, <2>2, PlaceIs DEF Exists
  <1>7. LanesOK'
    <2>1. ASSUME NEW a \in Axis
          PROVE  LET s == session'[a] IN
                 /\ s.op \in granted \cup {NoAttempt}
                 /\ s.op = NoAttempt => s.child = "none"
                 /\ s.parent = "none" => s.op = NoAttempt
                 /\ s.child \in {"accepted", "complete"} =>
                      s.answer \in Verdict /\ <<s.op, a, s.answer>> \in answers
                 /\ \A v \in Verdict : <<s.op, a, v>> \in answers => s.child # "awaiting" /\ v = s.answer
                 /\ s.op \notin {NoAttempt, gate.id} => Terminated(s)
                 /\ s.op = gate.id => a \in Axes(gate)
                 /\ outbox[a].op # NoAttempt => outbox[a].answer \in Verdict
      <3>1. CASE session'[a] = session[a] BY <1>1, <3>1 DEF LanesOK
      <3>2. CASE /\ session'[a].op = gate.id /\ a \in Axes(gate)
                 /\ session'[a].child \in {"awaiting", "failed"} /\ session'[a].parent # "none"
                 /\ \A v \in Verdict : <<gate.id, a, v>> \notin answers
        BY <1>1, <1>6, <3>2 DEF LanesOK
      <3>3. CASE /\ session'[a].op = gate.id /\ session[a].op = gate.id
                 /\ session'[a].answer = session[a].answer /\ session'[a].parent # "none"
                 /\ session'[a].child = session[a].child \/ session'[a].child = "failed"
        BY <1>1, <1>6, <3>3 DEF LanesOK
      <3>4. QED BY <3>1, <3>2, <3>3
    <2>2. \A a : Terminated(session[a])' = Terminated(session'[a]) BY DEF Terminated
    <2>3. \A x \in answers : x[1] \in granted BY <1>1 DEF LanesOK
    <2>4. Exists(gate)' = Exists(gate) /\ Axes(gate)' = Axes(gate) BY DEF Exists, Axes
    <2>5. QED BY <2>1, <2>2, <2>3, <2>4 DEF LanesOK
  <1>8. GateOK'
    <2>1. /\ Place(ledger, gate.id, gate.cycle)' /\ gate.cycle \in 1..MaxCycles /\ gate.finals = NoFinal
          /\ gate.result = ""
      BY <1>1 DEF GateOK, Place
    <2>2. Active(ledger)' = Active(ledger) /\ Holder(ledger)' = Holder(ledger)
          /\ Exists(gate)' = Exists(gate)
      BY DEF Active, Holder, LastOf, Exists
    <2>3. Active(ledger) /\ Holder(ledger) # gate.id =>
            /\ \A a \in Axis : session'[a].op # Holder(ledger)
            /\ \A x \in answers : x[1] # Holder(ledger)
      BY <1>1 DEF GateOK
    <2>4. \A i \in 1..Len(ledger.cycles) : ledger.cycles[i].result # Unset =>
            i <= gate.cycle /\ (i = gate.cycle => ledger.cycles[i].attempt = gate.id)
      BY <1>1 DEF GateOK
    <2>5. \A a \in Axis : gate.finals[a] = "" BY <2>1, EmptyTyped
    <2>6. QED BY <2>1, <2>2, <2>3, <2>4, <2>5 DEF GateOK
  <1>9. QED BY <1>2, <1>3, <1>4, <1>5, <1>7, <1>8 DEF GateInv

\* What a driver knows of a lane it has not opened yet.
LEMMA Unopened ==
  ASSUME GateInv, NEW d \in Driver, drv[d].pc = "launch", NEW a \in ToLaunch(d)
  PROVE  /\ a \in Axis /\ a \in Axes(gate) /\ session[a].op # gate.id /\ drv[d].run.id = gate.id
         /\ \A v \in Verdict : <<gate.id, a, v>> \notin answers
         /\ a \notin drv[d].mine
  <1>1. DriverOK(drv[d]) /\ GateOK BY DEF GateInv
  <1>2. PICK q : q = drv[d] OBVIOUS
  <1>3. /\ Exists(gate) /\ Identity(gate) = q.run
        /\ \A x \in Axis : session[x].op = gate.id <=> x \in q.mine
        /\ \A x \in answers : x[1] = gate.id => x[2] \in q.mine
    BY <1>1, <1>2 DEF DriverOK, Opens, Opening
  <1>4. q.run.cycle = gate.cycle /\ q.run.id = gate.id
    <2>1. Identity(gate) = q.run BY <1>3
    <2>2. Identity(gate).cycle = gate.cycle /\ Identity(gate).id = gate.id BY DEF Identity
    <2>3. QED BY <2>1, <2>2
  <1>5. a \in Axes(gate) /\ a \notin q.mine BY <1>2, <1>4 DEF ToLaunch, Axes
  <1>6. a \in Axis BY <1>1, <1>3, <1>5, AxesAre DEF GateOK, Axes
  <1>7. QED BY <1>2, <1>3, <1>4, <1>5, <1>6

\* A lane of the attempt is opened.
LEMMA LaunchKeeps ==
  ASSUME OneDriver, GateInv, NEW d \in Driver, Launch(d)
  PROVE  GateInv'
  <1>1. /\ drv[d] \in Holding /\ DriverOK(drv[d]) /\ Typed /\ gate \in GateFile /\ GateOK
        /\ drv[d].pc = "launch"
    BY HoldingOf DEF GateInv, Launch
  <1>2. PICK q : q = drv[d] OBVIOUS
  <1>3. PICK a \in ToLaunch(d) :
       /\ \/ session[a].op = q.run.id /\ UNCHANGED session
          \/ session' = [session EXCEPT ![a] =
               [op |-> q.run.id, child |-> "awaiting", answer |-> "", parent |-> "live"]]
       /\ drv' = [drv EXCEPT ![d] = [q EXCEPT !.mine = @ \cup {a}]]
    BY <1>2 DEF Launch, Hold
  <1>4. /\ a \in Axis /\ a \in Axes(gate) /\ session[a].op # gate.id /\ q.run.id = gate.id
        /\ \A v \in Verdict : <<gate.id, a, v>> \notin answers
        /\ a \notin q.mine
    BY <1>1, <1>2, Unopened
  <1>5. PICK s : s = [op |-> gate.id, child |-> "awaiting", answer |-> "", parent |-> "live"] OBVIOUS
  <1>6. s \in Lane /\ s.op = gate.id /\ s.child = "awaiting" /\ s.parent = "live"
    BY <1>1, <1>5 DEF Lane, GateFile
  <1>7. session \in [Axis -> Lane] /\ session' = [session EXCEPT ![a] = s]
    BY <1>1, <1>3, <1>4, <1>5 DEF Typed
  <1>8. session' \in [Axis -> Lane] /\ session'[a] = s /\ \A b \in Axis : b # a => session'[b] = session[b]
    BY <1>4, <1>6, <1>7
  <1>9. /\ Exists(gate) /\ Identity(gate) = q.run /\ gate.phase \in {"pending", "running"}
        /\ \A x \in Axis : session[x].op = gate.id <=> x \in q.mine
        /\ q.mine \subseteq Axes(gate) /\ q \in Holding
        /\ \A x \in answers : x[1] = gate.id => x[2] \in q.mine
    BY <1>1, <1>2 DEF DriverOK, Opens, Opening
  <1>10. PICK r : r = [q EXCEPT !.mine = @ \cup {a}] OBVIOUS
  <1>11. r \in Holding /\ r.pc = "launch" /\ r.run = q.run /\ r.mine = q.mine \cup {a}
    BY <1>1, <1>2, <1>4, <1>9, <1>10 DEF Holding
  <1>12. UNCHANGED <<gate, answers, outbox, ledger, granted, head, commits, crashes>>
    BY DEF Launch, KeepLedger, KeepWorld
  <1>13. Opens(r)'
    <2>1. Exists(gate)' /\ Identity(gate)' = r.run /\ Axes(gate)' = Axes(gate)
      BY <1>9, <1>11, <1>12 DEF Exists, Identity, Axes
    <2>2. \A x \in Axis : session'[x].op = gate.id <=> x \in r.mine
      BY <1>6, <1>8, <1>9, <1>11
    <2>3. r.mine \subseteq Axes(gate) BY <1>4, <1>9, <1>11
    <2>4. \A x \in answers : x[1] = gate.id => x[2] \in r.mine BY <1>9, <1>11
    <2>5. QED BY <1>9, <1>11, <1>12, <2>1, <2>2, <2>3, <2>4 DEF Opens
  <1>14. DriverOK(r)'
    BY <1>11, <1>13 DEF DriverOK, Reads, Rescues, Asks, Reserved, Takes, Lasts, Taking
  <1>15. drv' = [drv EXCEPT ![d] = r] BY <1>3, <1>10
  <1>16. \A b \in Axis :
           \/ session'[b] = session[b]
           \/ /\ session'[b].op = gate.id /\ b \in Axes(gate)
              /\ session'[b].child \in {"awaiting", "failed"} /\ session'[b].parent # "none"
              /\ \A v \in Verdict : <<gate.id, b, v>> \notin answers
    BY <1>4, <1>6, <1>8
  <1>17. QED BY <1>8, <1>9, <1>11, <1>12, <1>14, <1>15, <1>16, OpeningWritten

\* One lane cannot be opened, and those before it are asked to exit.
LEMMA LaunchFailsKeeps ==
  ASSUME OneDriver, GateInv, NEW d \in Driver, LaunchFails(d)
  PROVE  GateInv'
  <1>1. /\ drv[d] \in Holding /\ DriverOK(drv[d]) /\ Typed /\ gate \in GateFile /\ GateOK
        /\ drv[d].pc = "launch"
    BY HoldingOf DEF GateInv, LaunchFails
  <1>2. PICK q : q = drv[d] OBVIOUS
  <1>3. PICK a \in ToLaunch(d), own \in {"failed", "attention"}, rest \in {"exiting", "complete"} :
       /\ session[a].op # drv[d].run.id
       /\ session' = [x \in Axis |->
            IF x = a /\ outbox[a] = NoPost
            THEN [op |-> drv[d].run.id, child |-> "failed", answer |-> "", parent |-> own]
            ELSE IF x \in drv[d].mine
            THEN [session[x] EXCEPT !.child = IF @ = "complete" THEN @ ELSE "failed", !.parent = rest]
            ELSE session[x]]
       /\ Hold(d, [drv[d] EXCEPT !.pc = "fail"])
    BY Zenon DEF LaunchFails
  <1>4. /\ a \in Axis /\ a \in Axes(gate) /\ session[a].op # gate.id /\ q.run.id = gate.id
        /\ \A v \in Verdict : <<gate.id, a, v>> \notin answers
        /\ a \notin q.mine
    BY <1>1, <1>2, Unopened
  <1>5. session \in [Axis -> Lane] BY <1>1 DEF Typed
  <1>6. /\ Exists(gate) /\ Identity(gate) = q.run /\ gate.phase \in {"pending", "running"}
        /\ \A x \in Axis : session[x].op = gate.id <=> x \in q.mine
        /\ q \in Holding
    BY <1>1, <1>2 DEF DriverOK, Opens, Opening
  <1>7. PICK r : r = [q EXCEPT !.pc = "fail"] OBVIOUS
  <1>8. r \in Holding /\ r.pc = "fail" /\ r.run = q.run BY <1>6, <1>7 DEF Holding, Point
  <1>9. UNCHANGED <<gate, answers, outbox, ledger, granted, head, commits, crashes>>
    BY DEF LaunchFails, KeepLedger, KeepWorld
  <1>10. DriverOK(r)'
    <2>1. Exists(gate)' /\ Identity(gate)' = r.run BY <1>6, <1>8, <1>9 DEF Exists, Identity
    <2>2. Opens(r)' BY <1>6, <1>8, <1>9, <2>1 DEF Opens
    <2>3. QED BY <1>8, <2>2 DEF DriverOK, Reads, Rescues, Asks, Reserved, Takes, Lasts, Taking
  <1>11. drv' = [drv EXCEPT ![d] = r] BY <1>2, <1>3, <1>7 DEF Hold
  <1>12. ASSUME NEW b \in Axis
         PROVE  /\ session'[b] \in Lane
                /\ \/ session'[b] = session[b]
                   \/ /\ session'[b].op = gate.id /\ b \in Axes(gate)
                      /\ session'[b].child \in {"awaiting", "failed"} /\ session'[b].parent # "none"
                      /\ \A v \in Verdict : <<gate.id, b, v>> \notin answers
                   \/ /\ session'[b].op = gate.id /\ session[b].op = gate.id
                      /\ session'[b].answer = session[b].answer /\ session'[b].parent # "none"
                      /\ session'[b].child = session[b].child \/ session'[b].child = "failed"
    <2>1. CASE session'[b] = [op |-> q.run.id, child |-> "failed", answer |-> "", parent |-> own] /\ b = a
      <3>1. gate.id \in Attempt \cup {NoAttempt} BY <1>1 DEF GateFile
      <3>2. PICK s : s = session'[b] OBVIOUS
      <3>3. s = [op |-> gate.id, child |-> "failed", answer |-> "", parent |-> own]
        BY <1>4, <2>1, <3>2
      <3>4. s \in Lane /\ s.op = gate.id /\ s.child = "failed" /\ s.parent # "none"
        BY <3>1, <3>3 DEF Lane
      <3>5. QED BY <1>4, <2>1, <3>2, <3>4
    <2>2. CASE /\ b \in q.mine
               /\ session'[b] = [session[b] EXCEPT !.child = IF @ = "complete" THEN @ ELSE "failed",
                                                   !.parent = rest]
      <3>1. session[b] \in Lane /\ session[b].op = gate.id BY <1>5, <1>6, <2>2
      <3>2. QED BY <2>2, <3>1 DEF Lane
    <2>3. CASE session'[b] = session[b] BY <1>5, <2>3
    <2>4. \/ session'[b] = [op |-> q.run.id, child |-> "failed", answer |-> "", parent |-> own] /\ b = a
          \/ /\ b \in q.mine
             /\ session'[b] = [session[b] EXCEPT !.child = IF @ = "complete" THEN @ ELSE "failed",
                                                 !.parent = rest]
          \/ session'[b] = session[b]
      BY <1>2, <1>3
    <2>5. QED BY <2>1, <2>2, <2>3, <2>4
  <1>13. session' \in [Axis -> Lane] BY <1>3, <1>12
  <1>14. QED BY <1>6, <1>8, <1>9, <1>10, <1>11, <1>12, <1>13, OpeningWritten

-----------------------------------------------------------------------------
(* The invariant holds.                                                    *)

\* Nothing has been opened, asked or answered yet.
LEMMA InitialGate == Init => GateInv
  <1> SUFFICES ASSUME Init PROVE GateInv OBVIOUS
  <1>1. /\ LedgerInit /\ head \in HeadSha /\ gate = NoGate /\ session = [a \in Axis |-> NoSession]
        /\ answers = {} /\ outbox = [a \in Axis |-> NoPost] /\ drv = [d \in Driver |-> Idle]
        /\ commits = 0 /\ crashes = 0
    BY DEF Init
  <1>2. IInv BY <1>1, InitGood
  <1>3. /\ ledger \in Ledger /\ granted = {} /\ Len(ledger.cycles) = 0
    BY <1>1, <1>2 DEF LedgerInit, Empty, IInv, Good
  <1>4. ~Active(ledger) BY <1>3, Conditions
  <1>5. NoSession \in Lane /\ NoPost \in Post BY DEF NoSession, NoPost, Lane, Post
  <1>6. Typed BY <1>1, <1>5, NoGateTyped, IdleTyped DEF Typed
  <1>7. LanesOK BY <1>1 DEF LanesOK, NoSession, NoPost, Exists, NoGate, FreshGate
  <1>8. GateOK
    <2>1. ~Exists(gate) /\ \A a \in Axis : gate.finals[a] = ""
      BY <1>1, NoGateTyped, EmptyTyped DEF Exists
    <2>2. \A i \in 1..Len(ledger.cycles) : FALSE BY <1>3
    <2>3. QED BY <1>1, <1>4, <2>1, <2>2, NoGateTyped DEF GateOK
  <1>9. \A d \in Driver : DriverOK(drv[d]) BY <1>1, IdleOK
  <1>10. VerdictIsAnswered
    <2>1. \A i \in 1..Len(ledger.cycles) : FALSE BY <1>3
    <2>2. QED BY <1>3, <2>1, BackedIs
  <1>11. QED BY <1>2, <1>6, <1>7, <1>8, <1>9, <1>10 DEF GateInv

\* Every step keeps the invariant when one driver runs at a time.
LEMMA GateSteps ==
  ASSUME OneDriver, GateInv, [Next]_gateVars
  PROVE  GateInv'
  <1>1. CASE UNCHANGED gateVars
    <2>1. UNCHANGED files /\ UNCHANGED <<head, drv, commits, crashes>>
      BY <1>1 DEF gateVars, files
    <2>2. UNCHANGED <<gate, session, answers, outbox, ledger, granted>> BY <2>1 DEF files
    <2>3. Typed' BY <2>1, <2>2 DEF GateInv, Typed
    <2>4. /\ IInv' /\ LanesOK' /\ GateOK' /\ VerdictIsAnswered' /\ \A x : DriverOK(x) => DriverOK(x)'
      BY <2>1, Undisturbed DEF GateInv
    <2>5. ASSUME NEW e \in Driver PROVE DriverOK(drv[e])'
      <3>1. drv'[e] = drv[e] /\ DriverOK(drv[e]) BY <2>1 DEF GateInv
      <3>2. QED BY <2>4, <3>1, HoldsNext
    <2>6. QED BY <2>3, <2>4, <2>5 DEF GateInv
  <1>2. CASE Environment
    BY <1>2, CommitKeeps, AnswerKeeps, WorkerAcceptsKeeps, ParentKeeps DEF Environment
  <1>3. ASSUME NEW d \in Driver, DriverStep(d) \/ Crash(d) PROVE GateInv'
    <2>1. CASE Observe(d) \/ Decide(d) \/ Enter(d) \/ Picked(d) \/ ReadResults(d) \/ Crash(d)
      BY <2>1, ObserveKeeps, DecideKeeps, EnterKeeps, PickedKeeps, ReadResultsKeeps, CrashKeeps
    <2>2. CASE Settle(d) \/ Succeed(d) \/ ReserveCycle(d) \/ Record(d)
      BY <2>2, SettleKeeps, SucceedKeeps, ReserveCycleKeeps, RecordKeeps
    <2>3. CASE Reopen(d) \/ Initialize(d) \/ Run(d) \/ Fail(d) \/ Await(d)
      BY <2>3, ReopenKeeps, InitializeKeeps, RunKeeps, FailKeeps, AwaitKeeps
    <2>4. CASE Attend(d) \/ WriteResults(d) \/ Finish(d)
      BY <2>4, AttendKeeps, WriteResultsKeeps, FinishKeeps
    <2>5. CASE Recover(d) \/ Launch(d) \/ LaunchFails(d) \/ Pick(d) \/ Clean(d)
      BY <2>5, RecoverKeeps, LaunchKeeps, LaunchFailsKeeps, PickKeeps, CleanKeeps
    <2>6. QED BY <1>3, <2>1, <2>2, <2>3, <2>4, <2>5 DEF DriverStep
  <1>4. QED BY <1>1, <1>2, <1>3 DEF Next

\* With one driver at a time the invariant holds in every state, however often
\* that driver crashes, HEAD moves or a reviewer publishes again.
THEOREM GateInvariance ==
  ASSUME OneDriver
  PROVE  Spec => []GateInv
  BY InitialGate, GateSteps, OneDriver, PTL DEF Spec

-----------------------------------------------------------------------------
(* The properties of the runs.                                             *)

\* Every verdict of the ledger is what the reviewers of that attempt said.
THEOREM VerdictsAnswered ==
  ASSUME OneDriver
  PROVE  Spec => []VerdictIsAnswered
  <1>1. GateInv => VerdictIsAnswered BY DEF GateInv
  <1>2. QED BY <1>1, GateInvariance, OneDriver, PTL

\* A round that has an answer takes no other.
LEMMA AnswersStep ==
  ASSUME GateInv, OneAnswer, [Next]_gateVars
  PROVE  OneAnswer'
  <1>1. Typed /\ LanesOK BY DEF GateInv
  <1>2. ASSUME NEW a \in Axis, NEW v \in Verdict, answers' = answers \cup {<<session[a].op, a, v>>},
               \/ session[a].child = "awaiting"
               \/ session[a].child \in {"accepted", "complete"} /\ session[a].answer = v
        PROVE  OneAnswer'
    <2>1. CASE session[a].child \in {"accepted", "complete"} /\ session[a].answer = v
      <3>1. answers' = answers BY <1>1, <1>2, <2>1 DEF LanesOK
      <3>2. QED BY <3>1 DEF OneAnswer
    <2>2. CASE session[a].child = "awaiting"
      <3>1. \A x \in answers : ~(x[1] = session[a].op /\ x[2] = a)
        <4>1. SUFFICES ASSUME NEW x \in answers, x[1] = session[a].op, x[2] = a PROVE FALSE
          OBVIOUS
        <4>2. x[3] \in Verdict /\ x = <<session[a].op, a, x[3]>> BY <1>1, <4>1 DEF Typed
        <4>3. QED BY <1>1, <2>2, <4>1, <4>2 DEF LanesOK
      <3>2. PICK y : y = <<session[a].op, a, v>> OBVIOUS
      <3>3. y[1] = session[a].op /\ y[2] = a /\ answers' = answers \cup {y} BY <1>2, <3>2
      <3>4. QED BY <3>1, <3>3 DEF OneAnswer
    <2>3. QED BY <1>2, <2>1, <2>2
  <1>3. CASE UNCHANGED answers BY <1>3 DEF OneAnswer
  <1>4. CASE \E a \in Axis : WorkerAccepts(a)
    <2>1. PICK a \in Axis : WorkerAccepts(a) BY <1>4
    <2>2. /\ outbox[a].op = session[a].op /\ session[a].child = "awaiting"
          /\ answers' = answers \cup {<<session[a].op, a, outbox[a].answer>>}
      BY <2>1 DEF WorkerAccepts, Take
    <2>3. outbox[a].answer \in Verdict
      <3>1. session[a].op # NoAttempt BY <1>1, <2>2 DEF LanesOK
      <3>2. QED BY <1>1, <2>2, <3>1 DEF LanesOK
    <2>4. QED BY <1>2, <2>2, <2>3
  <1>5. CASE \E d \in Driver : Pick(d)
    <2>1. PICK d \in Driver : Pick(d) BY <1>5
    <2>2. PICK a \in Axis : /\ drv[d].ready[a] # ""
                            /\ \/ UNCHANGED answers
                               \/ /\ answers' = answers \cup {<<session[a].op, a, drv[d].ready[a]>>}
                                  /\ \/ session[a].child = "awaiting"
                                     \/ /\ session[a].child \in {"accepted", "complete"}
                                        /\ session[a].answer = drv[d].ready[a]
      BY <2>1 DEF Pick
    <2>3. PICK v : v = drv[d].ready[a] OBVIOUS
    <2>4. v \in Verdict
      <3>1. drv[d] \in Holding BY HoldingOf
      <3>2. QED BY <2>2, <2>3, <3>1 DEF Holding
    <2>5. QED BY <1>2, <1>3, <2>2, <2>3, <2>4
  <1>6. ASSUME NEW d \in Driver, DriverStep(d) \/ Crash(d), ~Pick(d) PROVE UNCHANGED answers
    BY <1>6 DEF DriverStep, Observe, Decide, Recover, Reopen, Settle, Succeed, ReserveCycle, Enter,
       Initialize, Run, Launch, LaunchFails, Fail, Await, Picked, Clean, Attend, ReadResults,
       WriteResults, Finish, Record, Crash, ReadOnly, KeepLanes
  <1>7. ASSUME Environment PROVE UNCHANGED answers \/ \E a \in Axis : WorkerAccepts(a)
    BY <1>7 DEF Environment, Commit, WaitRunsOut, Retire, Answer
  <1>8. CASE UNCHANGED gateVars BY <1>3, <1>8 DEF gateVars
  <1>9. QED BY <1>3, <1>4, <1>5, <1>6, <1>7, <1>8 DEF Next

\* One round has one answer, however often the reviewer overwrites the file.
THEOREM AnsweredOnce ==
  ASSUME OneDriver
  PROVE  Spec => []OneAnswer
  <1>1. Init => OneAnswer BY DEF Init, OneAnswer
  <1>2. GateInv /\ OneAnswer /\ [Next]_gateVars => OneAnswer' BY AnswersStep
  <1>3. QED BY <1>1, <1>2, GateInvariance, OneDriver, PTL DEF Spec

\* What one step may do to a terminal result, and to the lanes.
TerminalStep ==
  gate.phase = "terminal" /\ gate'.id = gate.id =>
     \/ gate'.phase = "terminal" /\ gate'.result = gate.result
     \/ /\ gate.result = "attention-required" /\ gate'.phase = "awaiting-callback"
        /\ \E a \in Axis : session[a].op = gate.id /\ session[a].answer # ""
\* A lane takes a new operation only when no lane of another attempt lives.
GenerationStep ==
  \A a \in Axis : session'[a].op # session[a].op =>
     \A b \in Axis : session[b].op \in {NoAttempt, session'[a].op} \/ Terminated(session[b])

\* A driver writes a terminal gate only to open it again for its answer.
LEMMA TerminalKept ==
  ASSUME GateInv, [Next]_gateVars
  PROVE  [TerminalStep]_gateVars
  <1> SUFFICES ASSUME Next, gate.phase = "terminal", gate'.id = gate.id, gate' # gate
               PROVE  TerminalStep
    BY DEF TerminalStep
  <1>1. PICK d \in Driver : \/ Reopen(d) \/ Initialize(d) \/ Run(d) \/ Fail(d) \/ Await(d)
                            \/ Attend(d) \/ WriteResults(d) \/ Finish(d)
    <2>1. Environment => UNCHANGED gate
      BY DEF Environment, Commit, WorkerAccepts, WaitRunsOut, Retire, Answer
    <2>2. \A e \in Driver :
            (\/ Observe(e) \/ Decide(e) \/ Recover(e) \/ Settle(e) \/ Succeed(e) \/ ReserveCycle(e)
             \/ Enter(e) \/ Launch(e) \/ LaunchFails(e) \/ Pick(e) \/ Picked(e) \/ Clean(e)
             \/ ReadResults(e) \/ Record(e) \/ Crash(e)) => UNCHANGED gate
      BY DEF Observe, Decide, Recover, Settle, Succeed, ReserveCycle, Enter, Launch, LaunchFails,
             Pick, Picked, Clean, ReadResults, Record, Crash, ReadOnly
    <2>3. QED BY <2>1, <2>2 DEF Next, DriverStep
  <1>2. drv[d] \in Holding /\ DriverOK(drv[d]) /\ gate \in GateFile /\ GateOK /\ LanesOK
    BY HoldingOf DEF GateInv
  <1>3. Terminal
    <2>1. Exists(gate)
      <3>1. SUFFICES ASSUME ~Exists(gate) PROVE FALSE OBVIOUS
      <3>2. gate = NoGate BY <1>2, <3>1 DEF GateOK
      <3>3. QED BY <3>2, NoGateTyped
    <2>2. QED BY <2>1 DEF Terminal
  <1>4. CASE Reopen(d)
    <2>1. drv[d].pc = "reopen" /\ gate.result = "attention-required"
          /\ gate' = Reopened(gate, drv[d].axis)
      BY <1>2, <1>4 DEF Reopen, DriverOK, Rescues
    <2>2. PICK a \in Axis : session[a].op = gate.id /\ session[a].child \in {"accepted", "complete"}
      BY <1>2, <2>1 DEF DriverOK, Rescues
    <2>3. session[a].answer # "" BY <1>2, <2>2, ResultsAre DEF LanesOK
    <2>4. gate'.phase = "awaiting-callback" BY <1>2, <2>1 DEF Reopened, GateFile
    <2>5. QED BY <2>1, <2>2, <2>3, <2>4 DEF TerminalStep
  <1>5. CASE Initialize(d)
    <2>1. drv[d].pc = "initialize" BY <1>5 DEF Initialize
    <2>2. drv[d].q.attempt # gate.id BY <1>2, <1>3, <2>1 DEF DriverOK, Reserved
    <2>3. gate' = FreshGate(drv[d].q.attempt, drv[d].cycle, drv[d].head) BY <1>5 DEF Initialize
    <2>4. QED BY <2>2, <2>3 DEF FreshGate
  <1>6. CASE Run(d) \/ Fail(d) \/ Await(d)
    <2>1. drv[d].pc \in Opening BY <1>6 DEF Run, Fail, Await, Opening
    <2>2. QED BY <1>2, <2>1 DEF DriverOK, Opens
  <1>7. CASE Attend(d) \/ WriteResults(d) \/ Finish(d)
    <2>1. drv[d].pc \in Taking BY <1>7 DEF Attend, WriteResults, Finish, Taking
    <2>2. QED BY <1>2, <2>1 DEF DriverOK, Takes
  <1>8. QED BY <1>1, <1>4, <1>5, <1>6, <1>7

\* The terminal result of an attempt is written once.
THEOREM TerminalOnce ==
  ASSUME OneDriver
  PROVE  Spec => TerminalIsOneShot
  <1>1. GateInv /\ [Next]_gateVars => [TerminalStep]_gateVars BY TerminalKept
  <1>2. Spec => [][TerminalStep]_gateVars BY <1>1, GateInvariance, OneDriver, PTL DEF Spec
  <1>3. QED BY <1>2 DEF TerminalIsOneShot, TerminalStep

\* Writing a lane's parent leaves every lane's operation alone.
LEMMA ParentWritten ==
  ASSUME session \in [Axis -> Lane], NEW x, NEW p, session' = [session EXCEPT ![x].parent = p], NEW a \in Axis
  PROVE  session'[a].op = session[a].op
  BY DEF Lane

\* A lane changes hands only when a driver opens it for the gate's attempt.
LEMMA GenerationKept ==
  ASSUME GateInv, [Next]_gateVars
  PROVE  [GenerationStep]_gateVars
  <1> SUFFICES ASSUME Next, NEW a \in Axis, session'[a].op # session[a].op, NEW b \in Axis
               PROVE  session[b].op \in {NoAttempt, session'[a].op} \/ Terminated(session[b])
    BY DEF GenerationStep
  <1>1. Typed /\ LanesOK BY DEF GateInv
  <1>2. session \in [Axis -> Lane] BY <1>1 DEF Typed
  <1>3. ~Environment
    <2>1. ASSUME NEW x \in Axis, WorkerAccepts(x) PROVE session'[a].op = session[a].op
      <3>1. session' = [session EXCEPT ![x].child = "accepted", ![x].answer = outbox[x].answer,
                                       ![x].parent = "live"]
        BY <2>1 DEF WorkerAccepts, Take
      <3>2. QED BY <1>2, <3>1 DEF Lane
    <2>2. ASSUME NEW x \in Axis, WaitRunsOut(x) \/ Retire(x) PROVE session'[a].op = session[a].op
      <3>1. PICK p : session' = [session EXCEPT ![x].parent = p] BY <2>2 DEF WaitRunsOut, Retire
      <3>2. QED BY <1>2, <3>1, ParentWritten
    <2>3. UNCHANGED session => session'[a].op = session[a].op OBVIOUS
    <2>4. QED BY <2>1, <2>2, <2>3 DEF Environment, Commit, Answer
  <1>4. ASSUME NEW e \in Driver, Recover(e) \/ Pick(e) \/ Clean(e) PROVE FALSE
    <2>1. CASE UNCHANGED session BY <2>1
    <2>2. ASSUME NEW x, NEW p, session' = [session EXCEPT ![x].parent = p] PROVE FALSE
      BY <1>2, <2>2, ParentWritten
    <2>3. ASSUME NEW x \in Axis, NEW v, session' = [session EXCEPT ![x].child = "complete", ![x].answer = v,
                       ![x].parent = IF v = "blocked" /\ @ = "live" THEN "attention" ELSE @]
          PROVE  FALSE
      BY <1>2, <2>3 DEF Lane
    <2>4. CASE Recover(e)
      <3>1. PICK x : x = CHOOSE y \in Axes(drv[e].seen) : TRUE OBVIOUS
      <3>2. PICK p : session' = [session EXCEPT ![x].parent = p] BY <2>4, <3>1 DEF Recover
      <3>3. QED BY <2>2, <3>2
    <2>5. CASE Clean(e)
      <3>1. UNCHANGED session \/ \E x, p : session' = [session EXCEPT ![x].parent = p]
        BY <2>5 DEF Clean
      <3>2. QED BY <2>1, <2>2, <3>1
    <2>6. CASE Pick(e)
      <3>1. PICK q : q = drv[e] OBVIOUS
      <3>2. PICK x \in Axis :
              LET r == [q EXCEPT !.ready[x] = "", !.axis = x]
                  v == q.ready[x]
              IN \/ Hold(e, r) /\ UNCHANGED <<session, answers>>
                 \/ session' = [session EXCEPT ![x].child = "complete", ![x].answer = v,
                       ![x].parent = IF v = "blocked" /\ @ = "live" THEN "attention" ELSE @]
                 \/ Leave(e) /\ UNCHANGED <<session, answers>>
        BY <2>6, <3>1, Zenon DEF Pick
      <3>3. PICK v : v = q.ready[x] OBVIOUS
      <3>4. \/ UNCHANGED session
            \/ session' = [session EXCEPT ![x].child = "complete", ![x].answer = v,
                       ![x].parent = IF v = "blocked" /\ @ = "live" THEN "attention" ELSE @]
        BY <3>2, <3>3
      <3>5. QED BY <2>1, <2>3, <3>4
    <2>7. QED BY <1>4, <2>4, <2>5, <2>6
  <1>5. \A e \in Driver :
            (\/ Observe(e) \/ Decide(e) \/ Reopen(e) \/ Settle(e) \/ Succeed(e) \/ ReserveCycle(e)
             \/ Enter(e) \/ Initialize(e) \/ Run(e) \/ Fail(e) \/ Await(e) \/ Picked(e) \/ Attend(e)
             \/ ReadResults(e) \/ WriteResults(e) \/ Finish(e) \/ Record(e) \/ Crash(e))
            => UNCHANGED session
    BY DEF Observe, Decide, Reopen, Settle, Succeed, ReserveCycle, Enter, Initialize, Run, Fail,
           Await, Picked, Attend, ReadResults, WriteResults, Finish, Record, Crash, ReadOnly, KeepLanes
  <1>6. PICK d \in Driver : Launch(d) \/ LaunchFails(d)
    BY <1>3, <1>4, <1>5 DEF Next, DriverStep
  <1>7. drv[d].run.id = gate.id
    <2>1. PICK x \in ToLaunch(d) : drv[d].pc = "launch" BY <1>6 DEF Launch, LaunchFails
    <2>2. QED BY <2>1, Unopened
  <1>8. session'[a].op = gate.id
    <2>1. CASE Launch(d)
      <3>1. PICK x \in ToLaunch(d) : \/ UNCHANGED session
                                    \/ session' = [session EXCEPT ![x] =
               [op |-> drv[d].run.id, child |-> "awaiting", answer |-> "", parent |-> "live"]]
        BY <2>1 DEF Launch
      <3>2. PICK s : s = [op |-> drv[d].run.id, child |-> "awaiting", answer |-> "", parent |-> "live"]
        OBVIOUS
      <3>3. s.op = gate.id BY <1>7, <3>2
      <3>4. session' = [session EXCEPT ![x] = s] BY <3>1, <3>2
      <3>5. QED BY <1>2, <3>3, <3>4
    <2>2. CASE LaunchFails(d)
      <3>1. PICK x \in ToLaunch(d), own \in {"failed", "attention"}, rest \in {"exiting", "complete"} :
              /\ session[x].op # drv[d].run.id
              /\ session' = [y \in Axis |->
                   IF y = x /\ outbox[x] = NoPost
                   THEN [op |-> drv[d].run.id, child |-> "failed", answer |-> "", parent |-> own]
                   ELSE IF y \in drv[d].mine
                   THEN [session[y] EXCEPT !.child = IF @ = "complete" THEN @ ELSE "failed",
                                           !.parent = rest]
                   ELSE session[y]]
              /\ Hold(d, [drv[d] EXCEPT !.pc = "fail"])
        BY <2>2, Zenon DEF LaunchFails
      <3>2. session[a] \in Lane BY <1>2
      <3>3. \/ session'[a] = [op |-> drv[d].run.id, child |-> "failed", answer |-> "", parent |-> own]
            \/ session'[a] = [session[a] EXCEPT !.child = IF @ = "complete" THEN @ ELSE "failed",
                                                !.parent = rest]
            \/ session'[a] = session[a]
        BY <3>1
      <3>4. CASE session'[a] = [op |-> drv[d].run.id, child |-> "failed", answer |-> "", parent |-> own]
        <4>1. PICK i : i = drv[d].run.id OBVIOUS
        <4>2. PICK s : s = [op |-> i, child |-> "failed", answer |-> "", parent |-> own] OBVIOUS
        <4>3. s.op = i BY <4>2
        <4>4. session'[a] = s BY <3>4, <4>1, <4>2
        <4>5. QED BY <1>7, <4>1, <4>3, <4>4
      <3>5. CASE session'[a] = [session[a] EXCEPT !.child = IF @ = "complete" THEN @ ELSE "failed",
                                                  !.parent = rest]
        BY <3>2, <3>5 DEF Lane
      <3>6. QED BY <3>3, <3>4, <3>5
    <2>3. QED BY <1>6, <2>1, <2>2
  <1>9. QED BY <1>1, <1>8 DEF LanesOK

\* No reviewer is started while a lane of another attempt may live.
THEOREM OneGenerationAtATime ==
  ASSUME OneDriver
  PROVE  Spec => OneGeneration
  <1>1. GateInv /\ [Next]_gateVars => [GenerationStep]_gateVars BY GenerationKept
  <1>2. Spec => [][GenerationStep]_gateVars BY <1>1, GateInvariance, OneDriver, PTL DEF Spec
  <1>3. QED BY <1>2 DEF OneGeneration, GenerationStep
=============================================================================
