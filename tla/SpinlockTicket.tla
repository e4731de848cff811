--------------------------- MODULE SpinlockTicket ---------------------------
(***************************************************************************)
(* The ticket spinlock of hyp/core/spinlock_ticket.  A lock is two 16-bit  *)
(* counters that wrap.  Acquiring takes a ticket from next_ticket and      *)
(* waits until now_serving reaches it; trylock loads now_serving and takes *)
(* a ticket only if that is the ticket on offer; releasing serves the next *)
(* one.  Waiting is the architecture's load-exclusive / wait-for-event     *)
(* pair: the load arms the core's monitor, and a store to the counter      *)
(* clears every armed monitor, which is what ends the wait.                *)
(*                                                                         *)
(* Preemption is disabled from before a ticket is taken until after the    *)
(* release, so a core is in at most one of these calls and the callers are *)
(* cores.                                                                  *)
(***************************************************************************)
EXTENDS Integers, FiniteSets

CONSTANTS CPU,         \* the cores that use the lock
          TicketRange, \* number of tickets: 2^16 in the code
          Nobody       \* not a core

(* There are fewer cores than tickets: PLATFORM_MAX_CORES is far below 2^16. *)
ASSUME CoreAssumption ==
    /\ IsFiniteSet(CPU)
    /\ TicketRange \in Nat
    /\ Cardinality(CPU) < TicketRange
    /\ Nobody \notin CPU

VARIABLES
    now_serving, \* the ticket being served
    next_ticket, \* the next ticket to be taken
    pc,          \* where each core is in its call
    ticket,      \* each core's my_ticket, or the now_serving value it loaded
    armed,       \* the cores whose exclusive monitor is armed
    issued       \* ghost: how far next_ticket is past what a trylock loaded

vars == <<now_serving, next_ticket, pc, ticket, armed, issued>>

Ticket == 0 .. TicketRange - 1

(* uint16_t arithmetic: the next ticket, and how many tickets b is after a. *)
Next16(t) == IF t = TicketRange - 1 THEN 0 ELSE t + 1

After(a, b) == IF b >= a THEN b - a ELSE b - a + TicketRange

Init ==
    /\ now_serving = 0
    /\ next_ticket = 0
    /\ pc = [c \in CPU |-> "out"]
    /\ ticket = [c \in CPU |-> 0]
    /\ armed = {}
    /\ issued = [c \in CPU |-> 0]

-----------------------------------------------------------------------------
(* A ticket is taken while other cores are inside a trylock.  The two       *)
(* accesses of a trylock are adjacent instructions of a core that cannot be *)
(* preempted; the guard says that fewer than TicketRange tickets are taken  *)
(* between them.                                                            *)
NoTrylockLapped == \A c \in CPU : pc[c] = "try" => issued[c] < TicketRange - 1

TakeTicket ==
    /\ NoTrylockLapped
    /\ next_ticket' = Next16(next_ticket)
    /\ issued' = [c \in CPU |-> IF pc[c] = "try" THEN issued[c] + 1 ELSE 0]

(* spinlock_acquire_nopreempt: the atomic fetch-add. *)
acquire_take(c) ==
    /\ pc[c] = "out"
    /\ TakeTicket
    /\ ticket' = [ticket EXCEPT ![c] = next_ticket]
    /\ pc' = [pc EXCEPT ![c] = "spin"]
    /\ UNCHANGED <<now_serving, armed>>

(* Mutant: the wait ends one ticket early. *)
acquire_load_early(c) ==
    /\ pc[c] = "spin"
    /\ IF now_serving = ticket[c] \/ Next16(now_serving) = ticket[c]
         THEN pc' = [pc EXCEPT ![c] = "held"] /\ UNCHANGED armed
         ELSE pc' = [pc EXCEPT ![c] = "wait"] /\ armed' = armed \cup {c}
    /\ UNCHANGED <<now_serving, next_ticket, ticket, issued>>

(* Mutant: a core whose turn has not come returns to its caller. *)
acquire_load_once(c) ==
    /\ pc[c] = "spin"
    /\ pc' = [pc EXCEPT ![c] = IF now_serving = ticket[c] THEN "held" ELSE "out"]
    /\ UNCHANGED <<now_serving, next_ticket, ticket, armed, issued>>

(* spinlock_acquire_nopreempt: the condition of the wait loop. *)
acquire_load(c) ==
    /\ pc[c] = "spin"
    /\ IF now_serving = ticket[c]
         THEN pc' = [pc EXCEPT ![c] = "held"] /\ UNCHANGED armed
         ELSE pc' = [pc EXCEPT ![c] = "wait"] /\ armed' = armed \cup {c}
    /\ UNCHANGED <<now_serving, next_ticket, ticket, issued>>

(* asm_event_wait returns once the monitor has been cleared. *)
acquire_wake(c) ==
    /\ pc[c] = "wait"
    /\ c \notin armed
    /\ pc' = [pc EXCEPT ![c] = "spin"]
    /\ UNCHANGED <<now_serving, next_ticket, ticket, armed, issued>>

(* Mutant: the ticket on offer is loaded instead of the one being served. *)
trylock_load_next(c) ==
    /\ pc[c] = "out"
    /\ ticket' = [ticket EXCEPT ![c] = next_ticket]
    /\ issued' = [issued EXCEPT ![c] = 0]
    /\ pc' = [pc EXCEPT ![c] = "try"]
    /\ UNCHANGED <<now_serving, next_ticket, armed>>

(* spinlock_trylock_nopreempt: the load of now_serving. *)
trylock_load(c) ==
    /\ pc[c] = "out"
    /\ ticket' = [ticket EXCEPT ![c] = now_serving]
    /\ issued' = [issued EXCEPT ![c] = After(now_serving, next_ticket)]
    /\ pc' = [pc EXCEPT ![c] = "try"]
    /\ UNCHANGED <<now_serving, next_ticket, armed>>

(* spinlock_trylock_nopreempt: the compare-exchange of next_ticket. *)
trylock_succeed(c) ==
    /\ pc[c] = "try"
    /\ next_ticket = ticket[c]
    /\ TakeTicket
    /\ pc' = [pc EXCEPT ![c] = "held"]
    /\ UNCHANGED <<now_serving, ticket, armed>>

trylock_fail(c) ==
    /\ pc[c] = "try"
    /\ next_ticket # ticket[c]
    /\ pc' = [pc EXCEPT ![c] = "out"]
    /\ UNCHANGED <<now_serving, next_ticket, ticket, armed, issued>>

(* spinlock_release_nopreempt: the load of now_serving. *)
release_load(c) ==
    /\ pc[c] = "held"
    /\ ticket' = [ticket EXCEPT ![c] = now_serving]
    /\ pc' = [pc EXCEPT ![c] = "release"]
    /\ UNCHANGED <<now_serving, next_ticket, armed, issued>>

(* Mutant: a plain store, which clears no other core's monitor. *)
release_store_quiet(c) ==
    /\ pc[c] = "release"
    /\ now_serving' = Next16(ticket[c])
    /\ armed' = armed \ {c}
    /\ pc' = [pc EXCEPT ![c] = "out"]
    /\ UNCHANGED <<next_ticket, ticket, issued>>

(* spinlock_release_nopreempt: asm_event_store_and_wake. *)
release_store(c) ==
    /\ pc[c] = "release"
    /\ now_serving' = Next16(ticket[c])
    /\ armed' = {}
    /\ pc' = [pc EXCEPT ![c] = "out"]
    /\ UNCHANGED <<next_ticket, ticket, issued>>

(* The steps of a call that has begun. *)
Continue(c) ==
    \/ acquire_load(c) \/ acquire_wake(c)
    \/ trylock_succeed(c) \/ trylock_fail(c)
    \/ release_load(c) \/ release_store(c)

Next == \E c \in CPU : acquire_take(c) \/ trylock_load(c) \/ Continue(c)

Spec == Init /\ [][Next]_vars

(* A core in the middle of a call keeps running, and a critical section is *)
(* finite; nothing makes a core start a call.                              *)
FairSpec == Spec /\ \A c \in CPU : WF_vars(Continue(c))

-----------------------------------------------------------------------------
TypeOK ==
    /\ now_serving \in Ticket
    /\ next_ticket \in Ticket
    /\ pc \in [CPU -> {"out", "spin", "wait", "held", "release", "try"}]
    /\ ticket \in [CPU -> Ticket]
    /\ armed \in SUBSET CPU
    /\ issued \in [CPU -> Ticket]

Owns(c) == pc[c] \in {"held", "release"}
Queued(c) == pc[c] \in {"spin", "wait"}

(* At most one core is between its acquire (or successful trylock) and the  *)
(* store of its release, whatever the counters have wrapped past.           *)
MutualExclusion == \A c, d \in CPU : Owns(c) /\ Owns(d) => c = d

(* A core asleep in asm_event_wait has not missed its turn: while its       *)
(* monitor is armed, now_serving is not its ticket.                         *)
NoMissedWakeup ==
    \A c \in CPU : pc[c] = "wait" /\ c \in armed => now_serving # ticket[c]

(* Every core that takes a ticket gets the lock. *)
EveryTicketServed == \A c \in CPU : Queued(c) ~> Owns(c)

(* The lock promises what FifoLock says: one owner at a time, granted in    *)
(* the order in which tickets were taken.                                   *)
QueuedAt(n) == {c \in CPU : Queued(c) /\ After(now_serving, ticket[c]) = n}

Owner == IF \E c \in CPU : Owns(c) THEN CHOOSE c \in CPU : Owns(c) ELSE Nobody

FirstQueued == IF Owner = Nobody THEN 0 ELSE 1

Queue ==
    [i \in 1 .. Cardinality({c \in CPU : Queued(c)}) |->
        IF QueuedAt(i - 1 + FirstQueued) = {} THEN Nobody
        ELSE CHOOSE c \in CPU : c \in QueuedAt(i - 1 + FirstQueued)]

Fifo == INSTANCE FifoLock WITH owner <- Owner, queue <- Queue

ImplementsFifoLock == Fifo!Spec
=============================================================================
