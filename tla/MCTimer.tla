------------------------------ MODULE MCTimer ------------------------------
(* Values for model checking Timer.                                        *)
EXTENDS Timer

CONSTANTS t1, t2, t3

OneTimer == {t1}
TwoTimers == {t1, t2}
ThreeTimers == {t1, t2, t3}
NoTimers == {}
=============================================================================
