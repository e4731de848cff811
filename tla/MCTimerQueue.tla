---------------------------- MODULE MCTimerQueue ----------------------------
EXTENDS TimerQueue

CONSTANTS t1, t2

OneTimer == {t1}
TwoTimers == {t1, t2}
TwoCores == {0, 1}
ThreeCores == {0, 1, 2}
=============================================================================
