----------------------------- MODULE TimerQueue -----------------------------
(***************************************************************************)
(* The per-core timer queues of hyp/core/timer, and as much of             *)
(* hyp/core/power as decides when a core's queue goes online and offline.  *)
(*                                                                         *)
(* A timer is on the list of at most one core.  Enqueue, dequeue and       *)
(* update hold the timer's lock and then the lock of one queue; the expiry *)
(* loop holds only its own queue's lock; a core that goes offline hands    *)
(* its timers, one by one, to a core whose queue is online and asks it     *)
(* with an IPI to reprogram its hardware timer.  A queue's lock is never   *)
(* held across a step of this module: every step is one critical section   *)
(* of it.  A timer's lock is a variable, since timer_dequeue and           *)
(* timer_update read timer->queue under it before they take the queue's.   *)
(*                                                                         *)
(* A list is kept as a set: which of several timers with the same, least   *)
(* timeout is at the head is left open.                                    *)
(***************************************************************************)
EXTENDS Integers, FiniteSets

CONSTANTS N,          \* PLATFORM_MAX_CORES
          Functional, \* the cores for which platform_cpu_functional holds
          BootCpu,    \* the core that is online at boot
          Timer,      \* the timer objects
          None,       \* a null timer or queue pointer
          MaxTick,    \* bound: the last tick of the clock
          MaxCalls,   \* bound: calls of the timer interface by threads
          MaxPower    \* bound: cores going online or offline

CPU == 0 .. N - 1

ASSUME TimerAssumption ==
    /\ N \in Nat \ {0}
    /\ Functional \subseteq CPU
    /\ BootCpu \in Functional
    /\ MaxTick \in Nat /\ MaxCalls \in Nat /\ MaxPower \in Nat
    /\ None \notin Timer /\ None \notin CPU

Tick == 0 .. MaxTick

(* TIMER_INVALID_TIMEOUT, the largest value of ticks_t. *)
Invalid == MaxTick + 1

Timeout == 0 .. Invalid

VARIABLES
    queue,       \* timer->queue: the core whose queue the timer is on
    timeout,     \* timer->timeout
    lock,        \* timer->lock: its holder
    list,        \* tq->list, as a set of timers
    tq_timeout,  \* tq->timeout
    online,      \* tq->online
    hw,          \* the timeout programmed in each core's hardware timer
    sync,        \* IPI_REASON_TIMER_QUEUE_SYNC pending for each core
    now,         \* the system counter
    pc,          \* what each core is doing
    arg,         \* the timer of the call, action or migration in progress
    old_tq,      \* the queue that timer_dequeue or timer_update found the timer on
    new_timeout, \* the timeout argument of a timer_update
    nested,      \* whether the call was made from a timer action
    ticks,       \* current_ticks of timer_dequeue_expired
    start,       \* start of timer_handle_power_cpu_offline
    target,      \* target of timer_handle_power_cpu_offline
    online_cpus, \* power_system_online_cpus
    calls,       \* calls made so far
    power        \* times that a core went online or offline so far

timers == <<queue, timeout, lock>>
queues == <<list, tq_timeout, online>>
local  == <<pc, arg, old_tq, new_timeout, nested, ticks, start, target>>
bounds == <<calls, power>>
vars   == <<timers, queues, hw, sync, now, local, online_cpus, bounds>>

Init ==
    /\ queue = [t \in Timer |-> None]
    /\ timeout = [t \in Timer |-> Invalid]
    /\ lock = [t \in Timer |-> None]
    /\ list = [c \in CPU |-> {}]
    /\ tq_timeout = [c \in CPU |-> Invalid]
    /\ online = [c \in CPU |-> c = BootCpu]
    /\ hw = [c \in CPU |-> Invalid]
    /\ sync = [c \in CPU |-> FALSE]
    /\ now = 0
    /\ pc = [c \in CPU |-> IF c = BootCpu THEN "run" ELSE "off"]
    /\ arg = [c \in CPU |-> None]
    /\ old_tq = [c \in CPU |-> None]
    /\ new_timeout = [c \in CPU |-> Invalid]
    /\ nested = [c \in CPU |-> FALSE]
    /\ ticks = [c \in CPU |-> 0]
    /\ start = [c \in CPU |-> c]
    /\ target = [c \in CPU |-> c]
    /\ online_cpus = 1
    /\ calls = 0
    /\ power = 0

-----------------------------------------------------------------------------
(* Lists. *)

(* The timers that may be at the head of a list. *)
Heads(s, to) == {t \in s : \A u \in s : to[t] <= to[u]}

(* The timeout of the head, or TIMER_INVALID_TIMEOUT. *)
Earliest(s, to) ==
    IF s = {} THEN Invalid ELSE to[CHOOSE t \in s : \A u \in s : to[t] <= to[u]]

(* list_insert_in_order: a timer is inserted after those with its timeout, *)
(* so it becomes the head only if its timeout is the only earliest.        *)
BecomesHead(s, to, v) == \A u \in s : v < to[u]

(* The head of a queue, one of the timers with its earliest timeout. *)
HeadOf(q) == IF list[q] = {} THEN {None} ELSE Heads(list[q], timeout)

(* timer_dequeue_internal up to the queue pointer, with h at the head: the *)
(* timer may already be off the list.  The second operator is its result.  *)
Unlist(q, t, h) ==
    /\ list' = [list EXCEPT ![q] = @ \ {t}]
    /\ tq_timeout' = [tq_timeout EXCEPT ![q] =
           IF list[q] \ {t} = {} THEN Invalid
           ELSE IF t = h THEN Earliest(list[q] \ {t}, timeout) ELSE @]

HeadChanged(q, t, h) == t = h \/ list[q] \ {t} = {}

-----------------------------------------------------------------------------
(* The timer interface.  A call is made by a thread, or by a timer action   *)
(* for its own timer; a core making a call cannot be preempted.             *)
Begin(c, t) ==
    /\ pc[c] = "run" \/ (pc[c] = "action" /\ arg[c] = t)
    /\ calls < MaxCalls
    /\ calls' = calls + 1
    /\ lock[t] = None

(* The call returns to the thread, or to the loop that called the action; *)
(* its local variables are gone.                                          *)
Return(c) ==
    /\ pc' = [pc EXCEPT ![c] = IF pc[c] = "action" \/ nested[c] THEN "expired" ELSE "run"]
    /\ nested' = [nested EXCEPT ![c] = FALSE]
    /\ arg' = [arg EXCEPT ![c] = None]
    /\ old_tq' = [old_tq EXCEPT ![c] = None]
    /\ new_timeout' = [new_timeout EXCEPT ![c] = Invalid]

(* timer_enqueue_internal; the compare-and-swap finds the timer unqueued. *)
EnqueueInternal(c, t, v) ==
    /\ queue' = [queue EXCEPT ![t] = c]
    /\ timeout' = [timeout EXCEPT ![t] = v]
    /\ list' = [list EXCEPT ![c] = @ \cup {t}]
    /\ IF BecomesHead(list[c], timeout, v)
         THEN /\ tq_timeout' = [tq_timeout EXCEPT ![c] = v]
              /\ hw' = [hw EXCEPT ![c] = v]
         ELSE UNCHANGED <<tq_timeout, hw>>

(* timer_update_internal. *)
UpdateInternal(c, t, v, h) ==
    LET rest == list[c] \ {t}
        to   == [timeout EXCEPT ![t] = v]
    IN  /\ timeout' = to
        /\ list' = [list EXCEPT ![c] = rest \cup {t}]
        /\ IF timeout[t] # v /\ ((t = h /\ rest # {}) \/ BecomesHead(rest, timeout, v))
             THEN /\ tq_timeout' = [tq_timeout EXCEPT ![c] = Earliest(rest \cup {t}, to)]
                  /\ hw' = [hw EXCEPT ![c] = Earliest(rest \cup {t}, to)]
             ELSE UNCHANGED <<tq_timeout, hw>>

(* timer_enqueue: the caller knows that the timer is not queued. *)
timer_enqueue(c, t, v) ==
    /\ Begin(c, t)
    /\ queue[t] = None
    /\ EnqueueInternal(c, t, v)
    /\ Return(c)
    /\ UNCHANGED <<lock, online, sync, now, ticks, start, target, online_cpus, power>>

(* timer_dequeue: the timer's lock, and the load of its queue pointer. *)
timer_dequeue(c, t) ==
    /\ Begin(c, t)
    /\ IF queue[t] = None
         THEN Return(c) /\ UNCHANGED lock
         ELSE /\ pc' = [pc EXCEPT ![c] = "dequeue"]
              /\ nested' = [nested EXCEPT ![c] = pc[c] = "action"]
              /\ arg' = [arg EXCEPT ![c] = t]
              /\ old_tq' = [old_tq EXCEPT ![c] = queue[t]]
              /\ lock' = [lock EXCEPT ![t] = c]
              /\ UNCHANGED new_timeout
    /\ UNCHANGED <<queue, timeout, queues, hw, sync, now, ticks, start, target, online_cpus, power>>

(* timer_dequeue: the critical section of the queue that was loaded. *)
dequeue_finish(c) ==
    LET t == arg[c]
        q == old_tq[c]
    IN  /\ pc[c] = "dequeue"
        /\ \E h \in HeadOf(q) :
              /\ Unlist(q, t, h)
              /\ hw' = [hw EXCEPT ![c] = IF q = c /\ HeadChanged(q, t, h) THEN tq_timeout'[c] ELSE @]
        /\ queue' = [queue EXCEPT ![t] = None]
        /\ lock' = [lock EXCEPT ![t] = None]
        /\ Return(c)
        /\ UNCHANGED <<timeout, online, sync, now, ticks, start, target, online_cpus, bounds>>

(* timer_update of a timer that is not queued, or queued on this core. *)
timer_update_local(c, t, v) ==
    /\ Begin(c, t)
    /\ queue[t] \in {None, c}
    /\ IF queue[t] = c
         THEN UNCHANGED queue /\ \E h \in HeadOf(c) : UpdateInternal(c, t, v, h)
         ELSE EnqueueInternal(c, t, v)
    /\ Return(c)
    /\ UNCHANGED <<lock, online, sync, now, ticks, start, target, online_cpus, power>>

(* timer_update of a timer that is queued on another core. *)
timer_update_remote(c, t, v) ==
    /\ Begin(c, t)
    /\ queue[t] \notin {None, c}
    /\ arg' = [arg EXCEPT ![c] = t]
    /\ old_tq' = [old_tq EXCEPT ![c] = queue[t]]
    /\ new_timeout' = [new_timeout EXCEPT ![c] = v]
    /\ lock' = [lock EXCEPT ![t] = c]
    /\ pc' = [pc EXCEPT ![c] = "update_dequeue"]
    /\ nested' = [nested EXCEPT ![c] = pc[c] = "action"]
    /\ UNCHANGED <<queue, timeout, queues, hw, sync, now, ticks, start, target, online_cpus, power>>

(* Mutant: the queue pointer is not cleared. *)
update_dequeue_keep(c) ==
    /\ pc[c] = "update_dequeue"
    /\ \E h \in HeadOf(old_tq[c]) : Unlist(old_tq[c], arg[c], h)
    /\ pc' = [pc EXCEPT ![c] = "update_enqueue"]
    /\ UNCHANGED <<timers, online, hw, sync, now, arg, old_tq, new_timeout, nested, ticks, start,
                   target, online_cpus, bounds>>

update_dequeue(c) ==
    /\ pc[c] = "update_dequeue"
    /\ \E h \in HeadOf(old_tq[c]) : Unlist(old_tq[c], arg[c], h)
    /\ queue' = [queue EXCEPT ![arg[c]] = None]
    /\ pc' = [pc EXCEPT ![c] = "update_enqueue"]
    /\ UNCHANGED <<timeout, lock, online, hw, sync, now, arg, old_tq, new_timeout, nested, ticks,
                   start, target, online_cpus, bounds>>

(* Enqueuing a timer that is already queued is a panic. *)
update_enqueue(c) ==
    LET t == arg[c]
    IN  /\ pc[c] = "update_enqueue"
        /\ IF queue[t] = None
             THEN /\ EnqueueInternal(c, t, new_timeout[c])
                  /\ lock' = [lock EXCEPT ![t] = None]
                  /\ Return(c)
             ELSE /\ pc' = [pc EXCEPT ![c] = "panic_queued"]
                  /\ UNCHANGED <<timers, list, tq_timeout, hw, nested, arg, old_tq, new_timeout>>
        /\ UNCHANGED <<online, sync, now, ticks, start, target, online_cpus, bounds>>

-----------------------------------------------------------------------------
(* Expiry.                                                                  *)

(* The system counter advances. *)
tick ==
    /\ now < MaxTick
    /\ now' = now + 1
    /\ UNCHANGED <<timers, queues, hw, sync, local, online_cpus, bounds>>

(* timer_dequeue_expired: the load of the counter. *)
DequeueExpired(c) ==
    /\ ticks' = [ticks EXCEPT ![c] = now]
    /\ pc' = [pc EXCEPT ![c] = "expired"]
    /\ UNCHANGED <<timers, queues, hw, now, arg, old_tq, new_timeout, nested, start, target,
                   online_cpus, bounds>>

(* The hardware timer's interrupt is level-triggered. *)
platform_timer_expiry(c) ==
    /\ pc[c] = "run"
    /\ hw[c] <= now
    /\ DequeueExpired(c)
    /\ UNCHANGED sync

ipi_received(c) ==
    /\ pc[c] = "run"
    /\ sync[c]
    /\ sync' = [sync EXCEPT ![c] = FALSE]
    /\ DequeueExpired(c)

(* The loop of timer_dequeue_expired: the head is dequeued and its action   *)
(* called without the lock, or the hardware timer is programmed.            *)
expired_next(c) ==
    /\ pc[c] = "expired"
    /\ IF tq_timeout[c] <= ticks[c]
         THEN \E h \in HeadOf(c) :
                /\ Unlist(c, h, h)
                /\ queue' = [queue EXCEPT ![h] = None]
                /\ arg' = [arg EXCEPT ![c] = h]
                /\ pc' = [pc EXCEPT ![c] = "action"]
                /\ UNCHANGED <<hw, ticks>>
         ELSE /\ hw' = [hw EXCEPT ![c] = tq_timeout[c]]
              /\ pc' = [pc EXCEPT ![c] = "run"]
              /\ ticks' = [ticks EXCEPT ![c] = 0]
              /\ UNCHANGED <<queue, list, tq_timeout, arg>>
    /\ UNCHANGED <<timeout, lock, online, sync, now, old_tq, new_timeout, nested, start, target,
                   online_cpus, bounds>>

(* The action ends without calling the timer interface. *)
action_return(c) ==
    /\ pc[c] = "action"
    /\ Return(c)
    /\ UNCHANGED <<timers, queues, hw, sync, now, ticks, start, target, online_cpus, bounds>>

(* A suspended core keeps its queue and its hardware timer; it is woken by  *)
(* the timer, an IPI or anything else.                                      *)
power_cpu_suspend(c) ==
    /\ pc[c] = "run"
    /\ pc' = [pc EXCEPT ![c] = "suspended"]
    /\ UNCHANGED <<timers, queues, hw, sync, now, arg, old_tq, new_timeout, nested, ticks, start,
                   target, online_cpus, bounds>>

power_cpu_resume(c) ==
    /\ pc[c] = "suspended"
    /\ DequeueExpired(c)
    /\ UNCHANGED sync

-----------------------------------------------------------------------------
(* Going offline and online.                                                *)

(* power_handle_idle_yield: the core is no longer counted as online. *)
idle_yield(c) ==
    /\ pc[c] = "run"
    /\ power < MaxPower
    /\ power' = power + 1
    /\ online_cpus' = online_cpus - 1
    /\ pc' = [pc EXCEPT ![c] = "wait_online"]
    /\ UNCHANGED <<timers, queues, hw, sync, now, arg, old_tq, new_timeout, nested, ticks, start,
                   target, calls>>

(* The first core to try: "the next one up from this one". *)
StartAfter(c) == (c + 1) % N

OthersOnline == online_cpus # 0

(* power_handle_idle_yield waits until some core is counted as online; then *)
(* timer_handle_power_cpu_offline closes the queue.                         *)
power_cpu_offline(c) ==
    /\ pc[c] = "wait_online"
    /\ OthersOnline
    /\ online' = [online EXCEPT ![c] = FALSE]
    /\ hw' = [hw EXCEPT ![c] = Invalid]
    /\ start' = [start EXCEPT ![c] = StartAfter(c)]
    /\ pc' = [pc EXCEPT ![c] = "drain"]
    /\ UNCHANGED <<timers, list, tq_timeout, sync, now, arg, old_tq, new_timeout, nested, ticks,
                   target, online_cpus, bounds>>

(* The loop of timer_handle_power_cpu_offline: the head is taken off the    *)
(* list, with its queue pointer kept, or the core powers off.               *)
offline_next(c) ==
    /\ pc[c] = "drain"
    /\ IF tq_timeout[c] # Invalid
         THEN \E h \in HeadOf(c) :
                /\ Unlist(c, h, h)
                /\ arg' = [arg EXCEPT ![c] = h]
                /\ target' = [target EXCEPT ![c] = start[c]]
                /\ pc' = [pc EXCEPT ![c] = "migrate"]
         ELSE /\ pc' = [pc EXCEPT ![c] = "off"]
              /\ arg' = [arg EXCEPT ![c] = None]
              /\ target' = [target EXCEPT ![c] = c]
              /\ UNCHANGED <<list, tq_timeout>>
    /\ UNCHANGED <<timers, online, hw, sync, now, old_tq, new_timeout, nested, ticks, start,
                   online_cpus, bounds>>

(* Mutant: the queue pointer is not compared before it is set. *)
InsertUnchecked(c, t, d) ==
    /\ queue' = [queue EXCEPT ![t] = d]
    /\ list' = [list EXCEPT ![d] = @ \cup {t}]
    /\ IF BecomesHead(list[d], timeout, timeout[t])
         THEN /\ tq_timeout' = [tq_timeout EXCEPT ![d] = timeout[t]]
              /\ sync' = [sync EXCEPT ![d] = TRUE]
         ELSE UNCHANGED <<tq_timeout, sync>>

(* Mutant: the target core is not told. *)
InsertSilently(c, t, d) ==
    /\ UNCHANGED sync
    /\ IF queue[t] = c
         THEN /\ queue' = [queue EXCEPT ![t] = d]
              /\ list' = [list EXCEPT ![d] = @ \cup {t}]
              /\ tq_timeout' = [tq_timeout EXCEPT ![d] =
                     IF BecomesHead(list[d], timeout, timeout[t]) THEN timeout[t] ELSE @]
         ELSE UNCHANGED <<queue, list, tq_timeout>>

(* timer_try_move_to_cpu with an online target: the timer is moved, unless  *)
(* another core has dequeued or moved it meanwhile.                         *)
Insert(c, t, d) ==
    IF queue[t] = c
      THEN /\ queue' = [queue EXCEPT ![t] = d]
           /\ list' = [list EXCEPT ![d] = @ \cup {t}]
           /\ IF BecomesHead(list[d], timeout, timeout[t])
                THEN /\ tq_timeout' = [tq_timeout EXCEPT ![d] = timeout[t]]
                     /\ sync' = [sync EXCEPT ![d] = TRUE]
                ELSE UNCHANGED <<tq_timeout, sync>>
      ELSE UNCHANGED <<queue, list, tq_timeout, sync>>

CanTake(d) == d \in Functional /\ online[d]

(* The next core to try: this one is skipped. *)
NextTarget(c) ==
    LET up == (target[c] + 1) % N IN IF up = c THEN (up + 1) % N ELSE up

try_move_to_cpu(c) ==
    LET t == arg[c]
        d == target[c]
    IN  /\ pc[c] = "migrate"
        /\ d \in Functional => lock[t] = None
        /\ IF CanTake(d)
             THEN /\ Insert(c, t, d)
                  /\ start' = [start EXCEPT ![c] = d]
                  /\ pc' = [pc EXCEPT ![c] = "drain"]
                  /\ UNCHANGED target
             ELSE /\ target' = [target EXCEPT ![c] = NextTarget(c)]
                  /\ pc' = [pc EXCEPT ![c] = IF NextTarget(c) = start[c] THEN "panic_target" ELSE @]
                  /\ UNCHANGED <<queue, list, tq_timeout, sync, start>>
        /\ UNCHANGED <<timeout, lock, online, hw, now, arg, old_tq, new_timeout, nested, ticks,
                       online_cpus, bounds>>

(* power_handle_boot_cpu_warm_init of a started core: the online event... *)
power_cpu_online(c) ==
    /\ pc[c] = "off"
    /\ c \in Functional
    /\ power < MaxPower
    /\ power' = power + 1
    /\ online' = [online EXCEPT ![c] = TRUE]
    /\ pc' = [pc EXCEPT ![c] = "warm"]
    /\ UNCHANGED <<timers, list, tq_timeout, hw, sync, now, arg, old_tq, new_timeout, nested, ticks,
                   start, target, online_cpus, calls>>

(* ... and the count of online cores. *)
count_online(c) ==
    /\ pc[c] = "warm"
    /\ online_cpus' = online_cpus + 1
    /\ pc' = [pc EXCEPT ![c] = "run"]
    /\ UNCHANGED <<timers, queues, hw, sync, now, arg, old_tq, new_timeout, nested, ticks, start,
                   target, bounds>>

-----------------------------------------------------------------------------
(* What a core does without being asked to. *)
Step(c) ==
    \/ dequeue_finish(c) \/ update_dequeue(c) \/ update_enqueue(c)
    \/ platform_timer_expiry(c) \/ ipi_received(c) \/ expired_next(c) \/ action_return(c)
    \/ power_cpu_resume(c) \/ power_cpu_offline(c) \/ offline_next(c) \/ try_move_to_cpu(c)
    \/ count_online(c)

Call(c) ==
    \E t \in Timer :
       \/ timer_dequeue(c, t)
       \/ \E v \in Tick :
             timer_enqueue(c, t, v) \/ timer_update_local(c, t, v) \/ timer_update_remote(c, t, v)

Next ==
    \/ tick
    \/ \E c \in CPU :
          Step(c) \/ Call(c) \/ power_cpu_suspend(c) \/ idle_yield(c) \/ power_cpu_online(c)

Spec == Init /\ [][Next]_vars

(* Time passes, and a core that has something to do does it.  Nothing makes *)
(* a thread call the timer interface or a core change its power state.      *)
FairSpec == Spec /\ WF_vars(tick) /\ \A c \in CPU : WF_vars(Step(c))

-----------------------------------------------------------------------------
(* A timer is on a list exactly if its queue pointer says so, except while  *)
(* the core it was on is moving it: every interleaving of dequeues, updates *)
(* and expiry with a migration leaves it on one list or none.  A core that  *)
(* is off has handed over all of its timers, and none is given to it        *)
(* afterwards.                                                              *)
Migrating(c, t) == pc[c] \in {"migrate", "panic_target"} /\ arg[c] = t

ListedWhereQueued ==
    \A t \in Timer, c \in CPU :
       /\ t \in list[c] => queue[t] = c /\ (online[c] \/ pc[c] # "off")
       /\ queue[t] = c => t \in list[c] \/ Migrating(c, t)

(* A timer that is not queued becomes queued only by a timer_enqueue or a   *)
(* timer_update, on the core that calls it: a migration that lost a race    *)
(* with timer_dequeue does not bring the timer back.                        *)
DequeuedStaysOff ==
    [][\A t \in Timer :
          queue[t] = None /\ queue'[t] # None =>
             calls' # calls \/ (pc[queue'[t]] = "update_enqueue" /\ arg[queue'[t]] = t)]_vars

(* No timeout is lost: the hardware timer of a core that is up fires no     *)
(* later than its earliest timer, or the core is about to look at its queue.*)
(* The timeout that a queue caches is that of its earliest timer.           *)
Looking(c) == sync[c] \/ nested[c] \/ pc[c] \in {"expired", "action"}

Up(c) == pc[c] \notin {"off", "warm", "drain", "migrate", "panic_target"}

NoLostTimeout ==
    \A c \in CPU :
       /\ tq_timeout[c] = Earliest(list[c], timeout)
       /\ Up(c) => hw[c] <= tq_timeout[c] \/ Looking(c)

(* A queued timer is taken off its queue (it expires, or it is dequeued),   *)
(* unless its core waits for ever for another core to come online.          *)
EveryTimerExpires ==
    \A t \in Timer :
       queue[t] # None ~> \/ queue[t] = None
                          \/ \E c \in CPU : queue[t] = c /\ pc[c] = "wait_online"
=============================================================================
