------------------------ MODULE MCOperationSupervisor ------------------------
(* Small instances of OperationSupervisor for TLC.                          *)
EXTENDS OperationSupervisor, TLC

OneEnvelope == {Meters(1, 1, 1)}
TwoEnvelopes == {Meters(2, 1, 1), Meters(1, 0, 1)}
Defaults == Meters(3, 1, 2)

\* What two coordinators call at once: everything but bind_resources, whose read
\* and save an effect makes when it persists its result.
CallsTogether == SupervisorCall \ {"bind_resources"}

\* What one coordinator calls between its effects: everything but the charges,
\* which touch no effect.
CallsAlone ==
  SupervisorCall \ {"consume_attempt", "consume_tokens", "consume_model_restart"}

CoordinatorSymmetry == Permutations(Coordinator)
=============================================================================
