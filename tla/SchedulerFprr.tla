---------------------------- MODULE SchedulerFprr ----------------------------
(***************************************************************************)
(* The fixed-priority round-robin scheduler (hyp/core/scheduler_fprr) with *)
(* the parts it works through: the RESCHEDULE bit of the inter-processor   *)
(* interrupts (hyp/core/ipi), the kill and exit path of threads            *)
(* (hyp/core/thread_standard), the wake-up of a VCPU (hyp/vm/vcpu) and the *)
(* RCU update that ends an affinity change.                                *)
(*                                                                         *)
(* Every CPU runs the loop of scheduler_schedule; any thread running in    *)
(* the hypervisor may block, unblock, move, re-prioritise or kill any      *)
(* other.  A section under a thread's lock is one step; a section that     *)
(* takes the same scheduler's lock twice (update_sched_params) is two, and *)
(* keeps the thread's lock in between.                                     *)
(***************************************************************************)
EXTENDS Naturals, Sequences, FiniteSets, Functions

CONSTANTS
    CPU,            \* physical cores
    Thread,         \* threads other than the idle threads
    None,           \* CPU_INDEX_INVALID and the null thread
    Idle,           \* the idle thread of whichever core holds it
    Priority,       \* scheduler_priority values, larger is more urgent
    Home,           \* [Thread -> CPU \cup {None}]: affinity at creation
    Urgency,        \* [Thread -> Priority]: priority at creation
    MayStart,       \* threads that are activated
    MayMove,        \* <<thread, affinity>> pairs scheduler_set_affinity is asked for
    MayYieldTo,     \* <<thread, thread>> pairs scheduler_yield_to is asked for
    MayBlock,       \* threads that others block
    MayUpdate,      \* threads whose priority or timeslice is changed
    MayDie          \* threads that are killed or exit

ASSUME SchedulerAssumption ==
    /\ Idle \notin Thread /\ None \notin CPU \cup Thread
    /\ Priority \subseteq Nat
    /\ Home \in [Thread -> CPU \cup {None}]
    /\ Urgency \in [Thread -> Priority]
    /\ MayMove \subseteq Thread \X (CPU \cup {None})
    /\ MayYieldTo \subseteq {p \in Thread \X Thread : p[1] # p[2]}
    /\ MayStart \cup MayBlock \cup MayUpdate \cup MayDie \subseteq Thread

VARIABLES
    sched,          \* what the thread locks and the scheduler locks protect, and the IPI bits
    state,          \* thread->state
    current,        \* the thread each core executes
    prev,           \* the thread a core has just switched away from
    pc,             \* where a core is in scheduler_schedule, thread_exit or update_sched_params
    target,         \* scheduler_schedule's target, or the thread being updated
    yielded_from,   \* CPULOCAL(yielded_from)
    can_idle,       \* vcpu_can_idle of the thread last selected on a core
    timer,          \* cores whose timeslice timer is queued
    yield_to,       \* scheduler_yield_to
    pinned,         \* threads inside their own scheduler_yield_to (pin_count > 0)
    changing,       \* threads whose affinity-changed RCU entry is queued
    dying           \* threads whose killed event is still to be triggered

cpuVars == <<current, prev, pc, target, yielded_from, can_idle, timer>>
yieldVars == <<yield_to, pinned>>
vars == <<sched, state, cpuVars, yieldVars, changing, dying>>

Reason == {"lifecycle", "wait", "affinity_changed"}
NonKillable == {"affinity_changed"}

-----------------------------------------------------------------------------
(* Functions of the scheduler state s.                                     *)

Running(s, t) == s.active_affinity[t] # None

QueueEmpty(s, c) == \A p \in Priority : s.runqueue[c][p] = <<>>

\* bitmap_ffs over prio_bitmap: the most urgent queue in use.
Urgent(s, c) == CHOOSE p \in Priority :
    /\ s.runqueue[c][p] # <<>>
    /\ \A q \in Priority : s.runqueue[c][q] # <<>> => q <= p

can_be_scheduled(s, t) ==
    s.block_bits[t] \cap (IF t \in s.killed THEN NonKillable ELSE Reason) = {}

\* An assertion of the code: panic() if it is false.
Check(s, ok) == [s EXCEPT !.panic = @ \/ ~ok]

\* ipi_one(IPI_REASON_RESCHEDULE, c), or scheduler_trigger() on c itself.
ipi_reschedule(s, c) == [s EXCEPT !.resched[c] = TRUE]

add_to_runqueue(s, c, t, at_tail) ==
    [s EXCEPT !.runqueue[c][s.priority[t]] = IF at_tail THEN Append(@, t) ELSE <<t>> \o @]

remove_from_runqueue(s, c, t) ==
    Check([s EXCEPT !.runqueue[c][s.priority[t]] = SelectSeq(@, LAMBDA u : u # t)],
          s.runqueue[c][s.priority[t]] # <<>>)

\* add_thread_to_scheduler's need_schedule.
need_schedule(s, c, t) ==
    \/ s.active_thread[c] = None
    \/ QueueEmpty(s, c)
    \/ s.priority[t] >= s.priority[s.active_thread[c]]

\* A true need_schedule is passed on by every caller to scheduler_trigger or
\* scheduler_schedule, so that the local and the remote case leave the same bit.
add_thread_to_scheduler(s, t) ==
    LET c  == s.affinity[t]
        ok == ~Running(s, t) /\ t \notin s.queued \cup s.exited /\ can_be_scheduled(s, t)
        added == [add_to_runqueue(Check(s, ok), c, t, TRUE) EXCEPT
                    !.spent = @ \ {t}, !.queued = @ \cup {t}]
    IN  IF c = None THEN Check(s, ok)
        ELSE IF need_schedule(s, c, t) THEN ipi_reschedule(added, c) ELSE added

remove_thread_from_scheduler(s, t) ==
    LET c  == s.affinity[t]
        s1 == [s EXCEPT !.yielding = @ \ {t}]
        was_active == s.active_thread[c] = t
        removed == IF was_active THEN [s1 EXCEPT !.active_thread[c] = None]
                                 ELSE remove_from_runqueue(s1, c, t)
        s2 == [Check(removed, t \in s.queued) EXCEPT !.queued = @ \ {t}]
    IN  IF c = None THEN Check(s1, t \notin s.yielding)
        ELSE IF was_active /\ t \in s.yielding THEN ipi_reschedule(s2, c) ELSE s2

\* Mutant: the core is not interrupted.
resched_running_thread_quiet(s, t) == Check(s, t \notin s.queued \/ t \in s.killed)

resched_running_thread(s, t) ==
    ipi_reschedule(Check(s, t \notin s.queued \/ t \in s.killed), s.active_affinity[t])

\* Mutant: a thread that still runs is interrupted and not marked for a requeue.
RequeueUnmarked(s, t) ==
    IF Running(s, t) THEN resched_running_thread(s, t) ELSE add_thread_to_scheduler(s, t)

\* What scheduler_unblock, update_sched_params and the killed handler do with
\* a thread that is to be queued: at the next context switch if it still runs.
Requeue(s, t) ==
    IF Running(s, t)
    THEN resched_running_thread([s EXCEPT !.need_requeue = @ \cup {t}], t)
    ELSE add_thread_to_scheduler(s, t)


scheduler_block(s, t, b) ==
    LET blocked == [s EXCEPT !.block_bits[t] = @ \cup {b}]
    IN  IF t \in s.queued /\ ~can_be_scheduled(blocked, t)
        THEN remove_thread_from_scheduler(blocked, t)
        ELSE blocked

scheduler_unblock(s, t, b) ==
    LET cleared == [s EXCEPT !.block_bits[t] = @ \ {b}]
    IN  IF ~can_be_scheduled(s, t) /\ can_be_scheduled(cleared, t)
        THEN Requeue(Check(cleared, t \notin s.queued), t)
        ELSE cleared

end_directed_yield(s, y) == [s EXCEPT !.yielding = @ \ {y}]

\* scheduler_yield, up to its call of scheduler_schedule.
scheduler_yield(s, c, t) ==
    IF yielded_from[c] # None THEN end_directed_yield(s, yielded_from[c])
                              ELSE [s EXCEPT !.spent = @ \cup {t}]

\* Mutant: the killed flag is set, and a thread that was blocked stays so.
thread_killed_blocked(s, t, quiet) ==
    LET marked == [s EXCEPT !.killed = @ \cup {t}]
    IN  IF t \in s.exited THEN s
        ELSE IF Running(s, t) /\ ~quiet THEN resched_running_thread(marked, t)
        ELSE marked

\* The handler of thread_killed; quiet when the thread kills itself, as the
\* result of its last resched_running_thread is then ignored.
thread_killed(s, t, quiet) ==
    LET marked == [s EXCEPT !.killed = @ \cup {t}]
    IN  IF t \in s.exited THEN s
        ELSE IF ~can_be_scheduled(s, t) /\ can_be_scheduled(marked, t)
             THEN Requeue(Check(marked, t \notin s.queued), t)
        ELSE IF Running(s, t) /\ ~quiet THEN resched_running_thread(marked, t)
        ELSE marked

\* The handler of thread_exited.
thread_exited(s, t) ==
    LET s1 == IF t \in s.killed /\ t \in s.queued THEN remove_thread_from_scheduler(s, t) ELSE s
        s2 == [s1 EXCEPT !.killed = @ \ {t}, !.exited = @ \cup {t}]
    IN  Check(s2, ~can_be_scheduled(s2, t) /\ t \notin s2.queued)

-----------------------------------------------------------------------------
Init ==
    /\ sched = [affinity        |-> Home,
                priority        |-> Urgency,
                block_bits      |-> [t \in Thread |-> {"lifecycle"}],
                active_affinity |-> [t \in Thread |-> None],
                queued          |-> {}, need_requeue |-> {},
                killed          |-> {}, exited       |-> {},
                spent           |-> {}, yielding     |-> {},
                active_thread   |-> [c \in CPU |-> None],
                runqueue        |-> [c \in CPU |-> [p \in Priority |-> <<>>]],
                resched         |-> [c \in CPU |-> FALSE],
                panic           |-> FALSE]
    /\ state = [t \in Thread |-> "init"]
    /\ current = [c \in CPU |-> Idle] /\ prev = [c \in CPU |-> None]
    /\ target = [c \in CPU |-> None] /\ yielded_from = [c \in CPU |-> None]
    /\ pc = [c \in CPU |-> "run"]
    /\ can_idle = [c \in CPU |-> TRUE] /\ timer = {}
    /\ yield_to = [t \in Thread |-> None] /\ pinned = {}
    /\ changing = {} /\ dying = {}

\* Core c executes its current thread and is free to call anything: it is not
\* in the scheduler nor about to return from scheduler_yield_to.
Free(c) == pc[c] = "run" /\ current[c] \notin pinned

\* The lock of t is held across two steps only by update_sched_params.
Locked(t) == \E c \in CPU : pc[c] = "update" /\ target[c] = t

\* Some core makes a call about thread t, whose lock is free.
Called(t) == ~Locked(t) /\ \E c \in CPU : Free(c)

\* thread_standard_handle_object_activate_thread
activate(t) ==
    /\ Called(t) /\ t \in MayStart /\ state[t] = "init"
    /\ state' = [state EXCEPT ![t] = "ready"]
    /\ sched' = scheduler_unblock(sched, t, "lifecycle")
    /\ UNCHANGED <<cpuVars, yieldVars, changing, dying>>

\* scheduler_block of another thread: it is not interrupted if it runs.
block(t) ==
    /\ ~Locked(t) /\ \E c \in CPU : Free(c) /\ current[c] # t
    /\ t \in MayBlock /\ "wait" \notin sched.block_bits[t]
    /\ sched' = scheduler_block(sched, t, "wait")
    /\ UNCHANGED <<state, cpuVars, yieldVars, changing, dying>>

\* The current thread blocks itself and yields (vcpu_handle_vcpu_trap_wfi).
wait(c) ==
    LET t == current[c]
    IN  /\ Free(c) /\ t \in Thread /\ ~Locked(t)
        /\ sched' = scheduler_yield(scheduler_block(sched, t, "wait"), c, t)
        /\ pc' = [pc EXCEPT ![c] = "schedule"]
        /\ UNCHANGED <<state, current, prev, target, yielded_from, can_idle, timer,
                       yieldVars, changing, dying>>

\* vcpu_wakeup: the handler of vcpu_wakeup ends a directed yield of the
\* thread, then the wait ends.
vcpu_wakeup(t) ==
    LET c  == sched.affinity[t]
        s1 == end_directed_yield(Check(sched, t \in sched.yielding => c # None), t)
        s2 == IF t \in sched.yielding /\ c # None /\ sched.active_thread[c] = t
              THEN ipi_reschedule(s1, c) ELSE s1
    IN  /\ Called(t)
        /\ "wait" \in sched.block_bits[t] \/ t \in sched.yielding
        /\ sched' = scheduler_unblock(s2, t, "wait")
        /\ UNCHANGED <<state, cpuVars, yieldVars, changing, dying>>

\* start_affinity_changed_events: a handler asks for an RCU grace period or not.
StartAffinityChangedEvents(s, t) ==
    \/ /\ changing' = changing \cup {t} /\ sched' = s
    \/ /\ changing' = changing
       /\ sched' = scheduler_unblock(s, t, "affinity_changed")

\* Mutant: a pinned thread can be moved.
scheduler_set_affinity_pinned(t, c) ==
    LET moved == [scheduler_block(sched, t, "affinity_changed") EXCEPT !.affinity[t] = c]
    IN  /\ Called(t) /\ <<t, c>> \in MayMove
        /\ sched.affinity[t] # c
        /\ "affinity_changed" \notin sched.block_bits[t]
        /\ \/ /\ Running(sched, t)
              /\ sched' = resched_running_thread(moved, t)
              /\ UNCHANGED changing
           \/ ~Running(sched, t) /\ StartAffinityChangedEvents(moved, t)
        /\ UNCHANGED <<state, cpuVars, yieldVars, dying>>

scheduler_set_affinity(t, c) ==
    LET moved == [scheduler_block(sched, t, "affinity_changed") EXCEPT !.affinity[t] = c]
    IN  /\ Called(t) /\ <<t, c>> \in MayMove
        /\ sched.affinity[t] # c /\ t \notin pinned
        /\ "affinity_changed" \notin sched.block_bits[t]
        /\ \/ /\ Running(sched, t)
              /\ sched' = resched_running_thread(moved, t)
              /\ UNCHANGED changing
           \/ ~Running(sched, t) /\ StartAffinityChangedEvents(moved, t)
        /\ UNCHANGED <<state, cpuVars, yieldVars, dying>>

\* The RCU update of an affinity change, after its grace period.
affinity_change_update(t) ==
    /\ t \in changing /\ ~Locked(t)
    /\ changing' = changing \ {t}
    /\ sched' = Check(scheduler_unblock(sched, t, "affinity_changed"),
                      "affinity_changed" \in sched.block_bits[t])
    /\ UNCHANGED <<state, cpuVars, yieldVars, dying>>

\* update_sched_params up to the assignments; the same priority stands for a
\* change of the timeslice.
update_sched_params(c, t, p) ==
    LET requeue == can_be_scheduled(sched, t) /\ t \notin sched.need_requeue
        s1 == IF requeue THEN remove_thread_from_scheduler(sched, t) ELSE sched
    IN  /\ Free(c) /\ ~Locked(t) /\ t \in MayUpdate
        /\ sched' = [s1 EXCEPT !.priority[t] = p]
        /\ IF requeue
           THEN pc' = [pc EXCEPT ![c] = "update"] /\ target' = [target EXCEPT ![c] = t]
           ELSE UNCHANGED <<pc, target>>
        /\ UNCHANGED <<state, current, prev, yielded_from, can_idle, timer, yieldVars,
                       changing, dying>>

\* update_sched_params from the second test of requeue.
update_sched_params_requeue(c) ==
    /\ pc[c] = "update"
    /\ sched' = Requeue(sched, target[c])
    /\ pc' = [pc EXCEPT ![c] = "run"] /\ target' = [target EXCEPT ![c] = None]
    /\ UNCHANGED <<state, current, prev, yielded_from, can_idle, timer, yieldVars,
                   changing, dying>>

\* thread_kill up to its compare-and-exchange; the killed event follows.
thread_kill(t) ==
    /\ \E c \in CPU : Free(c) /\ current[c] # t
    /\ t \in MayDie /\ state[t] = "ready"
    /\ state' = [state EXCEPT ![t] = "killed"]
    /\ dying' = dying \cup {t}
    /\ UNCHANGED <<sched, cpuVars, yieldVars, changing>>

handle_thread_killed(t) ==
    /\ t \in dying /\ ~Locked(t)
    /\ dying' = dying \ {t}
    /\ sched' = thread_killed(sched, t, FALSE)
    /\ UNCHANGED <<state, cpuVars, yieldVars, changing>>

\* thread_kill of the calling thread.
thread_kill_self(c) ==
    LET t == current[c]
    IN  /\ Free(c) /\ t \in MayDie /\ ~Locked(t) /\ state[t] = "ready"
        /\ state' = [state EXCEPT ![t] = "killed"]
        /\ sched' = thread_killed(sched, t, TRUE)
        /\ UNCHANGED <<cpuVars, yieldVars, changing, dying>>

\* thread_exit up to its first unlock: on the way to user mode if the thread
\* was killed, or because its function returns.
thread_exit(c) ==
    LET t == current[c]
    IN  /\ Free(c) /\ t \in MayDie /\ ~Locked(t)
        /\ state' = [state EXCEPT ![t] = "exited"]
        /\ sched' = scheduler_block(sched, t, "lifecycle")
        /\ pc' = [pc EXCEPT ![c] = "exit"]
        /\ UNCHANGED <<current, prev, target, yielded_from, can_idle, timer, yieldVars,
                       changing, dying>>

exit_killed(c) == current[c] \in Thread /\ state[current[c]] = "killed" /\ thread_exit(c)

\* The exited event and the final scheduler_yield.
thread_exit_yield(c) ==
    LET t == current[c]
    IN  /\ pc[c] = "exit" /\ ~Locked(t)
        /\ sched' = scheduler_yield(thread_exited(sched, t), c, t)
        /\ pc' = [pc EXCEPT ![c] = "schedule"]
        /\ UNCHANGED <<state, current, prev, target, yielded_from, can_idle, timer,
                       yieldVars, changing, dying>>

\* scheduler_yield by the running thread.
yield(c) ==
    /\ Free(c) /\ current[c] \in Thread
    /\ sched' = scheduler_yield(sched, c, current[c])
    /\ pc' = [pc EXCEPT ![c] = "schedule"]
    /\ UNCHANGED <<state, current, prev, target, yielded_from, can_idle, timer,
                   yieldVars, changing, dying>>

\* scheduler_yield_to, up to its call of scheduler_schedule.
scheduler_yield_to(c, t) ==
    LET y  == current[c]
        yf == yielded_from[c]
    IN  /\ Free(c) /\ <<y, t>> \in MayYieldTo
        /\ \/ /\ yf = t
              /\ sched' = end_directed_yield(sched, t)
              /\ UNCHANGED yieldVars
           \/ /\ yf \notin {None, t}
              /\ yield_to' = [yield_to EXCEPT ![yf] = t]
              /\ UNCHANGED <<sched, pinned>>
           \/ /\ yf = None /\ ~Locked(y)
              /\ pinned' = pinned \cup {y}
              /\ yield_to' = [yield_to EXCEPT ![y] = t]
              /\ sched' = [sched EXCEPT !.yielding = @ \cup {y}]
        /\ pc' = [pc EXCEPT ![c] = "schedule"]
        /\ UNCHANGED <<state, current, prev, target, yielded_from, can_idle, timer,
                       changing, dying>>

\* The end of scheduler_yield_to in the thread that began the yield.
scheduler_yield_to_end(c) ==
    LET y == current[c]
    IN  /\ pc[c] = "run" /\ y \in pinned /\ ~Locked(y)
        /\ yield_to' = [yield_to EXCEPT ![y] = None]
        /\ pinned' = pinned \ {y}
        /\ UNCHANGED <<sched, state, cpuVars, changing, dying>>

-----------------------------------------------------------------------------
(* scheduler_schedule                                                      *)

\* A pending reschedule is taken: by thread_exit_to_user, by an interrupt, by
\* the idle loop.
reschedule(c) ==
    /\ Free(c) /\ sched.resched[c]
    /\ sched' = [sched EXCEPT !.resched[c] = FALSE]
    /\ pc' = [pc EXCEPT ![c] = "schedule"]
    /\ UNCHANGED <<state, current, prev, target, yielded_from, can_idle, timer,
                   yieldVars, changing, dying>>

\* The timeslice of the active thread is used up while its core executes; if
\* the scheduler's timer is queued, its action is scheduler_trigger.  A timer
\* left from a thread that has been removed since expires as well.
timeslice_end(c) ==
    LET a == sched.active_thread[c]
        s1 == [sched EXCEPT !.spent = @ \cup ({a} \ {None})]
    IN  /\ pc[c] = "run"
        /\ c \in timer \/ a \notin sched.spent \cup {None}
        /\ sched' = IF c \in timer THEN ipi_reschedule(s1, c) ELSE s1
        /\ timer' = timer \ {c}
        /\ UNCHANGED <<state, current, prev, pc, target, yielded_from, can_idle, yieldVars,
                       changing, dying>>

\* scheduler_fprr_handle_timer_reschedule
timer_reschedule(c) == c \in timer /\ timeslice_end(c)

\* The new scheduler state and the target, which is Idle if there is no thread
\* to run.
get_next_target(s, c) ==
    LET a  == s.active_thread[c]
        expired == a \in s.spent
        s1 == IF expired THEN [s EXCEPT !.spent = @ \ {a}, !.yielding = @ \ {a}] ELSE s
        p  == Urgent(s, c)
        should_switch == /\ ~QueueEmpty(s, c)
                         /\ \/ a = None
                            \/ p > s.priority[a]
                            \/ expired /\ p = s.priority[a]
        head == Head(s.runqueue[c][p])
        s2 == [remove_from_runqueue(s1, c, head) EXCEPT !.active_thread[c] = head]
    IN  IF ~should_switch THEN [s |-> s1, target |-> IF a = None THEN Idle ELSE a]
        ELSE [s |-> IF a = None THEN s2 ELSE add_to_runqueue(s2, c, a, expired),
              target |-> head]

\* Mutant: only a yielding thread's timeslice is timed.
need_timeout_yielding(s, c, t) == t \in s.yielding

\* set_next_timeout: whether the timeslice of target t has to be timed.
need_timeout(s, c, t) ==
    t # Idle /\ (t \in s.yielding \/ s.runqueue[c][s.priority[t]] # <<>>)

\* Where the loop goes once the thread to run is known.
Selected(c, t) ==
    /\ pc' = [pc EXCEPT ![c] = IF t = current[c] THEN "run" ELSE "switch"]
    /\ target' = [target EXCEPT ![c] = IF t = current[c] THEN None ELSE t]

\* The section under the scheduler's lock: get_next_target, can_idle and
\* set_next_timeout; then select_yield_target if the target does not yield
\* (only the target itself, when it runs, can start a yield).
pick(c) ==
    LET next == get_next_target(sched, c)
        t    == next.target
        yields == t \in next.s.yielding
    IN  /\ pc[c] = "schedule"
        /\ sched' = next.s
        /\ can_idle' = [can_idle EXCEPT ![c] = QueueEmpty(next.s, c)]
        /\ timer' = IF need_timeout(next.s, c, t) THEN timer \cup {c} ELSE timer \ {c}
        /\ IF yields
           THEN /\ pc' = [pc EXCEPT ![c] = "select"]
                /\ target' = [target EXCEPT ![c] = t]
                /\ UNCHANGED yielded_from
           ELSE Selected(c, t) /\ yielded_from' = [yielded_from EXCEPT ![c] = None]
        /\ UNCHANGED <<state, current, prev, yieldVars, changing, dying>>

can_yield_to(c, t) ==
    /\ sched.affinity[t] \in {c, None}
    /\ Running(sched, t) => t = current[c]
    /\ can_be_scheduled(sched, t)

\* select_yield_target for a target that was yielding when it was picked.
select_yield_target(c) ==
    LET y == target[c]
        t == yield_to[y]
        known == y \in sched.yielding => t # None
        accepted == y \in sched.yielding /\ t # None /\ can_yield_to(c, t)
    IN  /\ pc[c] = "select"
        /\ ~Locked(t)
        /\ \/ /\ accepted
              /\ yielded_from' = [yielded_from EXCEPT ![c] = y]
              /\ can_idle' = [can_idle EXCEPT ![c] = FALSE]
              /\ Selected(c, t)
              /\ UNCHANGED sched
           \/ /\ ~accepted
              /\ sched' = end_directed_yield(Check(sched, known), y)
              /\ yielded_from' = [yielded_from EXCEPT ![c] = None]
              /\ Selected(c, y)
              /\ UNCHANGED can_idle
        /\ UNCHANGED <<state, current, prev, timer, yieldVars, changing, dying>>

\* Mutant: a thread that another core still runs is accepted.
may_run_anywhere(c, t) ==
    /\ can_be_scheduled(sched, t)
    /\ \/ sched.affinity[t] = c
       \/ sched.affinity[t] = None /\ yielded_from[c] # None

\* What the handler of thread_context_switch_pre demands of the next thread.
may_run(c, t) ==
    /\ ~Running(sched, t)
    /\ can_be_scheduled(sched, t)
    /\ \/ sched.affinity[t] = c
       \/ sched.affinity[t] = None /\ yielded_from[c] # None

\* The handler of thread_context_switch_pre and, if it agrees, the switch.
context_switch_pre(c) ==
    LET t == target[c]
        agreed == IF t = Idle THEN TRUE ELSE may_run(c, t)
    IN  /\ pc[c] = "switch" /\ ~Locked(t)
        /\ \/ /\ agreed
              /\ sched' = IF t = Idle THEN sched
                          ELSE Check([sched EXCEPT !.active_affinity[t] = c],
                                     t \notin sched.need_requeue \cup sched.exited)
              /\ current' = [current EXCEPT ![c] = t]
              /\ prev' = [prev EXCEPT ![c] = current[c]]
              /\ pc' = [pc EXCEPT ![c] = "switched"]
           \/ /\ ~agreed
              /\ sched' = end_directed_yield(sched, yielded_from[c])
              /\ pc' = [pc EXCEPT ![c] = "schedule"]
              /\ UNCHANGED <<current, prev>>
        /\ target' = [target EXCEPT ![c] = None]
        /\ UNCHANGED <<state, yielded_from, can_idle, timer, yieldVars, changing, dying>>

\* The handler of thread_context_switch_post.
context_switch_post(c) ==
    LET t  == prev[c]
        s1 == [sched EXCEPT !.active_affinity[t] = None, !.need_requeue = @ \ {t}]
        s2 == IF t \in sched.need_requeue /\ can_be_scheduled(s1, t)
              THEN add_thread_to_scheduler(s1, t) ELSE s1
    IN  /\ pc[c] = "switched" /\ ~Locked(t)
        /\ IF t = Idle THEN UNCHANGED <<sched, changing>>
           ELSE IF "affinity_changed" \in s2.block_bits[t]
           THEN StartAffinityChangedEvents(s2, t)
           ELSE sched' = s2 /\ UNCHANGED changing
        /\ prev' = [prev EXCEPT ![c] = None]
        /\ pc' = [pc EXCEPT ![c] = "clear"]
        /\ UNCHANGED <<state, current, target, yielded_from, can_idle, timer, yieldVars, dying>>

\* Mutant: a reschedule asked for during the switch is dropped.
ipi_clear_once(c) ==
    /\ pc[c] = "clear"
    /\ sched' = [sched EXCEPT !.resched[c] = FALSE]
    /\ pc' = [pc EXCEPT ![c] = "run"]
    /\ UNCHANGED <<state, current, prev, target, yielded_from, can_idle, timer,
                   yieldVars, changing, dying>>

\* ipi_clear(IPI_REASON_RESCHEDULE) decides whether the loop runs again.
ipi_clear(c) ==
    /\ pc[c] = "clear"
    /\ sched' = [sched EXCEPT !.resched[c] = FALSE]
    /\ pc' = [pc EXCEPT ![c] = IF sched.resched[c] THEN "schedule" ELSE "run"]
    /\ UNCHANGED <<state, current, prev, target, yielded_from, can_idle, timer,
                   yieldVars, changing, dying>>

-----------------------------------------------------------------------------
Schedule(c) ==
    \/ reschedule(c) \/ pick(c) \/ select_yield_target(c)
    \/ context_switch_pre(c) \/ context_switch_post(c) \/ ipi_clear(c)

Continue(c) == scheduler_yield_to_end(c) \/ update_sched_params_requeue(c) \/ thread_exit_yield(c)

Call(t) ==
    \/ activate(t) \/ block(t) \/ vcpu_wakeup(t) \/ thread_kill(t)
    \/ \E c \in CPU \cup {None} : scheduler_set_affinity(t, c)

CallFrom(c) ==
    \/ wait(c) \/ yield(c) \/ thread_kill_self(c) \/ thread_exit(c)
    \/ \E t \in Thread : scheduler_yield_to(c, t)
    \/ \E t \in Thread, p \in Priority : update_sched_params(c, t, p)

Event(t) == affinity_change_update(t) \/ handle_thread_killed(t)

Next ==
    \/ \E c \in CPU : Schedule(c) \/ Continue(c) \/ CallFrom(c) \/ timeslice_end(c)
    \/ \E t \in Thread : Call(t) \/ Event(t)

Spec == Init /\ [][Next]_vars

\* A core goes on with the scheduler, with what it has begun, and takes its
\* interrupts; grace periods end; a killed thread that is resumed again and
\* again gets as far as its return to user mode.
Fairness ==
    /\ \A c \in CPU :
        /\ WF_vars(Schedule(c)) /\ WF_vars(Continue(c)) /\ SF_vars(timer_reschedule(c))
        /\ SF_vars(exit_killed(c))
    /\ \A t \in Thread : WF_vars(Event(t))

LiveSpec == Spec /\ Fairness

-----------------------------------------------------------------------------
\* The threads whose context core c holds: the one it executes and, until the
\* post handler has run, the one it is switching away from.
Holds(c) == {current[c], prev[c]} \cap Thread

\* No thread is ever executed by two cores, nor taken by one while another has
\* not finished switching away from it, whatever affinity changes, wake-ups
\* and directed yields go on: context_switch_pre tests running under the
\* thread's lock (scheduler_fprr.c:960).
OneCorePerThread ==
    \A c, d \in CPU : c # d => Holds(c) \cap Holds(d) = {}

\* The flags agree with the queues.  A thread is queued exactly if it is the
\* active thread of its affinity's scheduler or stands once in that scheduler's
\* queue for its priority, and in no other place; and a thread that can be
\* scheduled and has an affinity is queued, or will be when the switch away
\* from it ends, or is being requeued.
RunQueuesExact ==
    /\ \A c \in CPU, t \in Thread :
        LET places == [p \in Priority |-> {i \in DOMAIN sched.runqueue[c][p] : sched.runqueue[c][p][i] = t}]
            here   == t \in sched.queued /\ sched.affinity[t] = c
        IN  /\ \A p \in Priority : p # sched.priority[t] => places[p] = {}
            /\ IF here /\ sched.active_thread[c] # t
               THEN Cardinality(places[sched.priority[t]]) = 1
               ELSE places[sched.priority[t]] = {}
            /\ sched.active_thread[c] = t => here
    /\ \A t \in Thread :
        can_be_scheduled(sched, t) /\ sched.affinity[t] # None =>
            t \in sched.queued \cup sched.need_requeue \/ Locked(t)

\* A core on which a more urgent thread waits, or whose idle thread runs while
\* any thread waits, leaves scheduler_schedule only with a reschedule pending:
\* no wake-up falls between a pick and the switch that follows it
\* (scheduler_fprr.c:815).
Behind(c) ==
    LET a == sched.active_thread[c]
    IN  IF a = None THEN current[c] = Idle /\ ~QueueEmpty(sched, c)
        ELSE ~QueueEmpty(sched, c) /\ Urgent(sched, c) > sched.priority[a]
NoLostReschedule ==
    \A c \in CPU : pc[c] = "run" /\ Behind(c) => sched.resched[c]

\* A thread and the thread it yields to never run at the same time: the
\* yielder's pin keeps it on the core that runs its target
\* (scheduler_fprr.c:733, "allowing migration may result in the current thread
\* running simultaneously with its yield target").
YielderWaits ==
    \A c \in CPU :
        pc[c] = "run" /\ yielded_from[c] # None =>
            /\ sched.affinity[yielded_from[c]] = c
            /\ yielded_from[c] \in pinned
            /\ \A d \in CPU : yielded_from[c] \notin Holds(d)


\* Every affinity change ends, so that the thread can be moved again: the
\* switch away from a running thread happens, and the RCU update after it.
AffinityChangeEnds ==
    \A t \in Thread : "affinity_changed" \in sched.block_bits[t] ~>
                       "affinity_changed" \notin sched.block_bits[t]

\* A killed thread that has an affinity exits, whether it was running, queued,
\* waiting or moving.
KilledExits ==
    \A t \in Thread : state[t] = "killed" ~> (state[t] = "exited" \/ sched.affinity[t] = None)

\* A thread that stays ready gets its core again and again, next to others of
\* its priority: round robin (scheduler_fprr.c:541).
ReadyRuns ==
    \A t \in Thread :
        <>[](t \in sched.queued) => []<>(\E c \in CPU : t \in Holds(c))
=============================================================================
