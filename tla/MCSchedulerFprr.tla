--------------------------- MODULE MCSchedulerFprr ---------------------------
(* Small machines for SchedulerFprr: two cores and two or three threads.   *)
EXTENDS SchedulerFprr, TLC
CONSTANTS c1, c2, t1, t2, t3

\* t1 and t3 each have a core; t2 has none and runs through their yields,
\* until it is given core c1.
ProxiedHome == t1 :> c1 @@ t2 :> None @@ t3 :> c2
ProxiedYields == {<<t1, t2>>, <<t3, t2>>}
ProxiedMoves == {<<t1, c2>>, <<t2, c1>>}

\* t1 and t2 share a core and yield to each other; t2, in the time t1 gives it,
\* also tries t3, which is not activated.
SharedHome == t1 :> c1 @@ t2 :> c1 @@ t3 :> None
SharedYields == {<<t1, t2>>, <<t2, t1>>, <<t2, t3>>}
SharedMoves == {<<t2, c2>>}

SameUrgency == [t \in Thread |-> 1]
==============================================================================
