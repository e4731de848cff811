---------------------------- MODULE MCRcuBitmap ----------------------------
(***************************************************************************)
(* Instances of RcuBitmap for TLC.                                         *)
(***************************************************************************)
EXTENDS RcuBitmap, TLC

CONSTANTS c1, c2, c3, e1, e2

\* Each of two cores has one entry of its own.
OneEntryEach == {<<c1, e1>>, <<c2, e2>>}

\* The first core may have both.
EitherSecond == OneEntryEach \cup {<<c1, e2>>}

\* One of the two updating cores expedites, goes offline and comes back.
SecondComesAndGoes == {<<c2, "expedite">>, <<c2, "offline">>}

\* Both cores leave for their VMs; the first one also suspends and switches.
BothLeave == {<<c1, "exit">>, <<c2, "exit">>, <<c1, "suspend">>, <<c1, "switch">>}
=============================================================================
