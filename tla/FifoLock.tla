------------------------------ MODULE FifoLock ------------------------------
(***************************************************************************)
(* What a ticket spinlock gives its callers: the exclusive ownership of    *)
(* interfaces/spinlock/include/spinlock.h, granted in the order of the     *)
(* requests, and a trylock that succeeds only when nobody owns or awaits   *)
(* the lock.                                                               *)
(* Nothing in it mentions tickets.                                         *)
(***************************************************************************)
EXTENDS Sequences

CONSTANTS CPU,   \* the cores that use the lock
          Nobody \* the owner of a free lock

VARIABLES owner, \* the core that owns the lock
          queue  \* the cores that have asked for it and not got it, in order

vars == <<owner, queue>>

Init == owner = Nobody /\ queue = <<>>

Waiting(c) == \E i \in DOMAIN queue : queue[i] = c

(* A core asks for the lock, and joins the end of the queue. *)
Request(c) ==
    /\ owner # c /\ ~Waiting(c)
    /\ queue' = Append(queue, c)
    /\ UNCHANGED owner

(* The first core of the queue becomes the owner of a free lock. *)
Grant ==
    /\ owner = Nobody /\ queue # <<>>
    /\ owner' = Head(queue)
    /\ queue' = Tail(queue)

(* A core takes a lock that nobody owns or awaits. *)
TryGrant(c) ==
    /\ owner = Nobody /\ queue = <<>>
    /\ owner' = c
    /\ UNCHANGED queue

Release ==
    /\ owner # Nobody
    /\ owner' = Nobody
    /\ UNCHANGED queue

Next == Grant \/ Release \/ \E c \in CPU : Request(c) \/ TryGrant(c)

Spec == Init /\ [][Next]_vars
=============================================================================
