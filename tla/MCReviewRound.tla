---------------------------- MODULE MCReviewRound ----------------------------
(* Answers are named by their verdicts.                                    *)
EXTENDS ReviewRound

Effects == {"start-provider", "request-exit", "close-surface"}
ThreeAnswers == {"approve", "changes-requested", "blocked"}
Verdict(a) == a
=============================================================================
