---------------------------- MODULE MCAssessment ----------------------------
(* A small instance of Assessment for TLC: statistics on both sides of each*)
(* test the verdicts make.                                                 *)
EXTENDS Assessment

Vote(m, h, s, u, label) ==
    [malicious |-> m, harmless |-> h, suspicious |-> s, undetected |-> u, label |-> label]

(* Nothing found; a majority; a tie; suspicions only; a majority that is   *)
(* not complete; no analysis at all, but a label.                          *)
MCVotes == {Vote(0, 3, 0, 0, FALSE), Vote(3, 1, 0, 1, FALSE), Vote(2, 1, 1, 0, FALSE),
            Vote(0, 3, 1, 0, FALSE), Vote(2, 1, None, 0, FALSE), Vote(None, None, None, None, TRUE)}

MCReports == [score : {0, 24, 50, 100}, total : {99, 100, 1000}, tor : BOOLEAN]
=============================================================================
