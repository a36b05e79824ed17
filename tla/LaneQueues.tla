------------------------------ MODULE LaneQueues ------------------------------
(***************************************************************************)
(* What the lanes of a task promise: operations wait in the order they     *)
(* were added, none waits twice, and each lane works on one at a time.     *)
(***************************************************************************)
EXTENDS Sequences

CONSTANTS Lane, Op, None
VARIABLES queue, active

Init ==
  /\ queue = [l \in Lane |-> <<>>]
  /\ active = [l \in Lane |-> None]

Enqueue(l, o) ==
  /\ active[l] # o
  /\ \A i \in DOMAIN queue[l] : queue[l][i] # o
  /\ queue' = [queue EXCEPT ![l] = Append(@, o)]
  /\ UNCHANGED active

Claim(l) ==
  /\ active[l] = None /\ queue[l] # <<>>
  /\ active' = [active EXCEPT ![l] = Head(queue[l])]
  /\ queue' = [queue EXCEPT ![l] = Tail(@)]

\* The head is passed over: its record does not say that it waits.
Discard(l) ==
  /\ active[l] = None /\ queue[l] # <<>>
  /\ queue' = [queue EXCEPT ![l] = Tail(@)]
  /\ UNCHANGED active

Release(l) ==
  /\ active[l] # None
  /\ active' = [active EXCEPT ![l] = None]
  /\ UNCHANGED queue

Next ==
  \E l \in Lane : Claim(l) \/ Discard(l) \/ Release(l) \/ \E o \in Op : Enqueue(l, o)

Spec == Init /\ [][Next]_<<queue, active>>
=============================================================================
