----------------------------- MODULE ReviewLane ------------------------------
(* What a reviewer lane promises to the gate: it takes one answer, the      *)
(* first, also after its wait ran out; it is shut down only once answered,  *)
(* and it is gone only after that.                                          *)
CONSTANTS Callback, None

VARIABLES answer, stage

laneVars == <<answer, stage>>

Init == answer = None /\ stage = "waiting"

WaitRunsOut == answer = None /\ stage = "waiting" /\ stage' = "timed-out" /\ UNCHANGED answer

Take ==
  /\ answer = None /\ stage \in {"waiting", "timed-out"}
  /\ answer' \in Callback /\ stage' = "waiting"

ShutDown == answer # None /\ stage = "waiting" /\ stage' = "leaving" /\ UNCHANGED answer

Go == stage = "leaving" /\ stage' = "gone" /\ UNCHANGED answer

Next == WaitRunsOut \/ Take \/ ShutDown \/ Go

Spec == Init /\ [][Next]_laneVars
=============================================================================
