-------------------------- MODULE MCSpinlockTicket --------------------------
EXTENDS SpinlockTicket

CONSTANTS c1, c2, c3

Cores == {c1, c2, c3}
=============================================================================
