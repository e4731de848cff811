# Gunyah hypervisor: TLA+ models and proofs

This directory models the concurrent core of the Gunyah hypervisor in TLA+. TLC checks each model on
small instances. TLAPS proves the most important invariants for every value of the constants.

Every definition is translated from the C sources. `PROJECT.json` maps each one to its lines and lists
the runs, the mutants (plausible bugs that must break a property), the hazards and the theorems.

## 1. The system and its parts

Gunyah is a type-1 hypervisor made of modules that talk through statically bound events. Each core runs
hypervisor code with preemption disabled in the places modelled here. Cores interact through shared
memory, spinlocks and inter-processor interrupts (IPIs). There is no persistent state, so nothing is
recovered after a crash: an assertion failure or panic stops the machine. Cores, however, go offline and
come back, and that is where much of the difficulty lies.

`src/config/featureset/gunyah-hyp.inc` says which modules a real build has. The inventory below follows it.

| Part | State | Operations | Works with | What is hard |
|---|---|---|---|---|
| rcu_bitmap | current period (generation, cores to wait for), active set, three batches per core | read start/finish, enqueue, expedite, quiesce, notify, update, offline, online | IPIs, thread entry and exit, power, scheduler | lock-free compare-and-swap of the period, cores that become active or inactive while it changes, counts that wrap |
| spinlock_ticket | two 16-bit counters | acquire, trylock, release | everything | wrapping tickets, wait-for-event |
| timer | per-core ordered list, cached timeout, hardware timer | enqueue, dequeue, update, expire, migrate, suspend | power, IPIs, power's own retry timers | a timer that is taken off one core's list while another uses it |
| power, vcpu_power | votes per core, core states, online count, retry timers | vote, withdraw, retry, power off, start, suspend, resume | timer, platform firmware, scheduler affinity | votes that race with a power-off, retries that outlive their reason |
| msgqueue | ring buffer, count, two thresholds, two interrupts | send, receive, flush, configure, bind, unbind | vgic | level checks that read count and threshold without the lock |
| doorbell | flags, two masks, one interrupt | send, receive, reset, mask, bind, unbind | vgic | the same with flags and mask |
| vgic | delivery state and list register of each virtual interrupt | assert, clear, check, acknowledge, end, bind, unbind | scheduler, msgqueue, doorbell, virtual timers | delivery state, list registers and sources change on different cores |
| scheduler_fprr, wait_queue, preempt | run queues, block bits, affinity | block, unblock, yield, set affinity, switch | timer, RCU, IPIs | threads that are woken, moved and switched at once |
| cspace_twolevel, object, partition | capability slots, reference counts, object states | lookup, copy, delete, revoke, activate | RCU | lookups without a lock against revocation and deletion |
| ipi | pending reasons per core | raise, clear, handle | all per-core services | reasons raised while a core goes idle or suspends |
| memextent_sparse, memdb_bitmap, addrspace | ownership and mappings of memory | donate, map, unmap, derive | allocators, page tables | ownership changes in several steps that can fail |
| psci, vcpu | power states of VCPUs and VMs | on, off, suspend, wake up | power, scheduler | suspend votes against wake-ups |
| allocator_list, range maps | free lists, trees | allocate, free, insert, remove | | boundary cases of merging and splitting |

The remaining modules drive hardware, emulate devices, run once at boot, or hold no state.
`PROJECT.json` lists each of them with the reason why it is not modelled.

## 2. The modules

| Module | Models | Kind |
|---|---|---|
| `RcuBitmap` | `hyp/core/rcu_bitmap`, with the part of `ipi` and of thread entry and exit that it needs | specification |
| `RcuBitmapControl`, `RcuBitmapProofs`, `RcuBitmapGrace` | | proofs about it |
| `SpinlockTicket` | `hyp/core/spinlock_ticket` | specification |
| `FifoLock` | what a spinlock promises: one owner, in the order of requests | abstract specification |
| `SpinlockTicketProofs` | | proofs |
| `TimerQueue` | `hyp/core/timer`, with the part of `power` that opens and closes a core's queue | specification |
| `TimerQueueProofs` | | proofs |
| `Power` | `hyp/core/power` and `hyp/vm/vcpu_power`, with the platform's core states and the retry timers | specification |
| `PowerProofs` | | proofs |
| `Virq` | what sources and VMs see of a virtual interrupt | actions that other modules combine |
| `MsgQueue` | `hyp/ipc/msgqueue`, composed with `Virq` for the send and receive interrupts | specification |
| `BoundedFifo` | what a message queue promises: a bounded FIFO that can be flushed | abstract specification |
| `MsgQueueProofs` | | proofs |
| `Doorbell` | `hyp/ipc/doorbell`, composed with `Virq` | specification |
| `DoorbellProofs` | | proofs |
| `SchedulerFprr` | `hyp/core/scheduler_fprr`, with the reschedule reason of `ipi`, the kill and exit path of `thread_standard` and the wake-up of a VCPU | specification |
| `CSpace` | `hyp/core/cspace_twolevel`, with object headers (`object_standard`), object creation and destruction (`partition_standard`) and reference counts | specification |
| `MC...` | instances for TLC | |

The models lean on each other's promises. `CSpace` assumes of RCU what `RcuBitmap` states as
`GracePeriod`, and `SchedulerFprr` assumes that grace periods end, which is `EveryUpdateRuns`. Sections
under a lock are single steps because of `MutualExclusion`, and end because of `EveryTicketServed`.

### RcuBitmap

A variable is a field of `rcu_state` or `rcu_cpu_state`, a local variable of a handler that survives an
access to shared memory, or a history. An action is one access to shared data with the private work
around it, and `pc[c]` names the next access of core `c`. Procedures that call each other
(`rcu_enqueue`, `rcu_bitmap_quiesce`, `rcu_bitmap_notify`, `rcu_bitmap_update`) keep their return labels
in `ret`. The histories are `blockers`, the cores whose critical sections an update still has to wait
for, and `exposed`, the subset of them that a sample of `active_cpus` in flight has missed.

Reductions:
- Accesses are sequentially consistent. The code has seq_cst fences where a store must precede a load.
- A failed compare-and-swap and its retry are one step when the retry does not start a new period.
- The test of `max_target` is merged with the sample of `active_cpus`, and the load of a core's target
  with the IPI that it leads to.
- Update classes and the order in a batch's list are left out: batches are sets.
- A suspend does not fail after RCU has deactivated the core: no later handler can refuse.
- `power_cpu_offline` is taken only by a core without updates, as the idle loop ensures.

### SpinlockTicket

Actions are the loads and stores of the two counters. `armed` is the exclusive monitor that wait-for-event
uses: a store of `now_serving` clears it. The guard `NoTrylockLapped` says that fewer than 2^16 tickets
are taken between the two instructions of a trylock. Debug events and the nesting of the preemption count
are left out.

### TimerQueue

A step is a critical section of one queue's lock. The timer's own lock is a variable, because
`timer_dequeue` and `timer_update` read the queue pointer under it before they take the queue's lock. A
list is a set: timers with equal timeouts may be served in any order. Callers are obliged not to enqueue a
timer that is queued.


### Power

A step is a critical section of a voting lock or of `power_system_lock`; a core that goes offline or
comes online holds its own voting lock over several steps (`lock`). The platform's view of a core is
`powered`, and a start that comes too early is answered with a retry. The retry timer of `power_voting` is
modelled by the core whose queue it is on (`retry_timer`) and the core that has to run its action
(`firing`). Assumption `OffBeforeLastRetry`: the platform completes a power-off before the last retry.
`refused` records cores that a `power_system_idle_enter` handler kept on. Left out: system suspend (no
configuration enables it), `COLD_BOOT` (part of `Init`) and the rule for VCPUs run by a proxy thread.

### Virq, MsgQueue and Doorbell

`Virq` describes an interrupt that is level-triggered, enabled and routed to one VCPU. `level` is
`level_src`. `fresh` means that the VM has not acknowledged the last assertion. `checking` means that the
virtual GIC has read the delivery state and called `virq_check_pending`, and has not yet written the
result with its compare-and-swap. An assertion changes the delivery state, which makes that
compare-and-swap fail. It also sets `reasserted`, so that the repeated check returns true. Both together
are modelled by cancelling the check. An assertion that races with an unbind of its own source is left
out.

In `MsgQueue` and `Doorbell` the lock is held from an operation's first step until the calls of
`virq_assert` and `virq_clear` that it still has to make (`todo`, `call`) are done. The level checks take
no lock and load their two variables in either order. The two stores of `doorbell_mask` are one step: the
check's loads can be separated by it in either order, which gives the same combinations of old and new
values. A message is one slot of the ring. A copy that fails half-way spoils the slot that it was writing
(`send_fault`), and a failed copy to the receiver changes nothing. The histories are `armed` (since the
binding, the condition of the interrupt has been false at least once), `waits` (a sender filled the queue
and has not been interrupted since) and, for doorbells, `overtaken` (see section 4).

### SchedulerFprr

The record `sched` holds what the thread locks and the scheduler locks protect: run queues, active thread,
block bits, affinity and active affinity, priority, the flags of a thread, the pending reschedules, and
`panic`, which an assertion that fails sets. Functions from such records to records (`add_thread_to_scheduler`,
`end_directed_yield`, ...) are the C functions of the same names, and an action applies the ones that its
handler calls. A section under a thread's lock is one step. `update_sched_params` takes the scheduler's
lock twice and is two steps, with the thread locked in between. `pc[c]` is where core `c` is in the loop of
`scheduler_schedule`: reschedule, pick, select the yield target, switch (pre), switched (post), and the clearing of
the reschedule reason, which decides whether the loop runs again.

`changing` are the threads whose RCU entry, which ends an affinity change, is queued: the grace period
ends at some time after. `dying` are the threads whose killed event is still to come. The calls are
bounded by sets of constants (`MayMove`, `MayYieldTo`, `MayBlock`, `MayUpdate`, `MayDie`), not by
counters: everything can happen any number of times.

Left out: the timeslice as a number (it can end at any time while its timer is queued), the total and
active times for the VM, `scheduler_sync`, which nothing calls, and the hypercalls' checks of rights.

### CSpace

One step is one atomic access or one section under a spinlock. `th[p]` is what context `p` is doing: a
call or an RCU callback, the caps and the data it has read, the references it has to put. Dead fields are
reset so that equal situations are equal states. A cap is named by its table and slot, as its address is,
so that memory that is freed and used again is seen as such.

RCU is abstracted to its promise: an entry waits for the contexts that are in a read section when it is
enqueued, and a context that runs a callback counts as one. A cspace's own caps, in whatever cspace they
are, are one reference that can be dropped (`reachable`). Tables and objects are blocks of memory that
callbacks free and later calls allocate.

Left out: the encoding of cap IDs (a random XOR that a lookup undoes), `cspace_configure` (called
once, before activation), the pointer from a thread to its cspace, and the types' own activation
handlers.

## 3. The runs

| Run | Instance | Shows |
|---|---|---|
| `rcu_safety` | 2 cores, 2 updates, 1 reader, generations that wrap, one power-off | no callback runs early, readers are active, counts are exact, ready batches are not lost |
| `rcu_three_cores` | 3 cores, 2 of them update, the third reads | a callback runs early only in the window of section 4 |
| `rcu_live` | 2 cores, 1 update, exits, suspends and context switches | every update runs |
| `spinlock` | 3 cores, 5 tickets, so that tickets wrap | mutual exclusion, FIFO order (refinement of `FifoLock`), no missed wake-up, every ticket served |
| `timer` | 2 cores, 2 timers, 3 calls, 2 power changes, 3 ticks | lists, pointers, cached and hardware timeouts agree; dequeued timers stay off; every timer expires |
| `power` | 2 cores, 2 VCPUs, 5 calls, 2 retries, failing starts and refusing handlers | votes are exact and not forgotten, idle cores without votes are woken, voted cores come online |
| `msgqueue` | 2 slots, both interrupts bound, one threshold change | no sleeper is left without its interrupt, no assertion is withdrawn before it is seen, refinement of `BoundedFifo`, a waiting sender is woken |
| `doorbell` | 2 flags, all masks | enabled flags keep the interrupt asserted, rings are kept and served |
| `sched` | 2 cores, 3 threads, 2 priorities; one thread has no affinity at first and runs in the time that others yield to it | no thread is on two cores, queues and flags agree, no reschedule is lost, a yielder waits, no assertion fails |
| `sched_live` | 2 threads that share a core, yield to each other, wait, move and die | affinity changes end, killed threads exit, ready threads run |
| `cspace` | 2 contexts, 2 cspaces of which one is destroyed, 1 object, 2 blocks for tables of 2 slots | nothing freed is used; references, counts, bitmaps and lists are exact; a looked-up object stays active |
| `rcu_race` | 3 cores | the code disagrees with a statement about it (section 4) |

Why the bounds are enough for the interesting cases:
- Two cores let every pair of handlers race. The third core matters for RCU, where a reader can be
  neither the core that enqueues nor the one that completes a period: `rcu_three_cores` and `rcu_race`
  have it.
- `CountRange` is 16 and `rcu_safety` starts at generation 14, so generations wrap. Five tickets for
  three cores wrap within a few calls.
- Three timer calls suffice for an enqueue, an update and a dequeue that race with a migration.
- Two slots give thresholds of which one leaves a gap and the others do not, and a ring that wraps. One
  message value suffices for the interrupts; that distinct messages keep their order is what
  `QueueIsFifo` proves for every set of messages. An empty or spoiled slot is distinct from a message in
  the run too.
- Three threads on two cores are a yielder on each core and a target that both want. A migration needs
  two cores and can go through every point of a switch, a directed yield and a priority change. One
  thread is re-prioritised, one is blocked by others, and one pair of affinities is asked for, so that
  each kind of call races with all the rest. `sched_live` needs a second priority nowhere.
- In `cspace` the calls are divided between the two contexts (`Divided`), so that each pair of calls that
  can interfere has its two sides in different contexts; both delete. A limit of one cap in the one
  cspace and of two in the other lets both limits be reached, a table become empty and be reclaimed, and
  its memory be used again by the other cspace. The two blocks for tables are symmetric. An instance
  of a finer-grained version of the model in which both contexts make all calls (23 million states)
  passed too; it takes too long to be run each time.
- Two flags let one be masked or acknowledged automatically while the other is not.

Deadlock is checked for RCU, the spinlock and `cspace`. The other instances stop legitimately: calls are bounded, or
the object is deactivated.

### Fairness

- RCU: a core executes its code, critical sections are finite, IPIs reach a core that is not off, and a
  core that keeps passing through the hypervisor eventually leaves it (strong fairness of the exit).
  Nothing makes a core enter the hypervisor or enqueue.
- Spinlock: a core inside a call keeps running and a critical section is finite (preemption is off).
- Timer: time passes, and a core with something to do does it.
- Power: a core finishes what it has begun, and timers and IPIs wake it. A due retry timer is served even
  if its core goes in and out of idle (strong fairness): the interrupt is taken before idle is entered
  again.
- Message queue and doorbell: critical sections end, which the fair ticket lock and disabled preemption
  justify. The virtual GIC checks a level after the end-of-interrupt and delivers what is pending. The VMs
  acknowledge and end their interrupts. A receiver that is interrupted receives: strong fairness, since the
  lock may be taken by others in between, and the only assumption on a VM's behaviour.
- Scheduler: a core goes on with `scheduler_schedule` and with a call it has begun, RCU updates and the
  killed event happen, and a core takes its timeslice interrupt although it passes through the scheduler
  (strong fairness: the timer stays queued or is set again). A killed thread that is resumed again and
  again reaches its return to user mode. Nothing makes a thread wait, yield, or be woken.

## 4. Where the code and statements about it disagree

`rcu_race` has a run and a finding in `PROJECT.json`: `rcu_bitmap_quiesce` samples `active_cpus` before it
publishes the period. A core that becomes active and starts reading in between is not waited for by an
update enqueued in the same window. `rcu_three_cores` shows that this is the only way in which a callback
runs early on that instance, and `rcu_safety` that it needs a third core.

More observations came from the same models. They have no run of their own; where a property above had to
make an exception for one of them, it is named.
- Timer (`timer_queue.c:473`): the search for a migration target visits each core once. With three cores
  it can miss the one that is online at each moment, and panics. Two cores cannot.
- Power (`power.c:392`): a core that has to retry the start of another core can itself be waiting, in its
  power-off, for that core. `VotedCoreComesOnlineOrWaits` shows that this is the only exception.
- Doorbell (`doorbell.c:108`): `doorbell_mask` calls no `virq_assert` if flags were enabled both before
  and after. A level check that loaded the old mask can then clear the interrupt although an enabled flag
  is set. `RingNotified` leaves out just this case, which the history `overtaken` records.
- Scheduler (`scheduler_fprr.c:752`, `:608`): directed yields can nest. A thread that yields and is
  preempted by a more urgent thread, which in turn yields to it, returns from its yield with
  `scheduler_yielding` still set; the next pick fails `assert(yield_to != NULL)`. In `sched` no thread
  that yields is itself yielded to; in `sched_live`, where two threads yield to each other, all have the
  same priority.
- Scheduler: `scheduler_set_affinity` to no core at all, of a running thread that then starts a directed
  yield, fails an assertion about its affinity. `MayMove` moves threads to cores only.
- Cspace (`cspace_twolevel.c:356`): `max_caps` is compared before the lock is dropped to allocate a table
  and not again afterwards (367-375), so that two contexts can take `cap_count` beyond it;
  `docs/api/gunyah_api.md:4360` says "CSpace has reached maximum number of capabilities allowed". In `cspace`
  there is one table index, and a second context that needs a table is refused.
- Cspace (`cspace_twolevel.c:319`): `destroy_cap_table` reads a cap's data before it takes the object's
  `cap_list_lock` and does not read it again. If a revocation and the deletion of the master cap in another
  cspace come in between, both find the list empty and the reference is put twice. In `cspace` masters are
  created in the cspace that is destroyed, where this cannot happen.
- Two cores that wait for different RCU periods may wait until some core enters the hypervisor: an
  inactive core that completes a period starts the next with an empty bitmap and does not notify the
  core whose target is one period later (`rcu_bitmap.c:406`). `rcu_live` therefore has one update.
- A core that goes offline between the sample of `active_cpus` and its publication stays in the new
  period's bitmap (`rcu_bitmap.c:389`); `rcu.tc:97` says that the set excludes offline cores.
- `power_cpu_online` can be triggered on a core while no other core is running (`power.c:154`);
  `power.ev:9` says that this cannot happen.
- Binding an interrupt to a message queue that already holds messages asserts nothing, and later sends
  do not either until the count has been below the threshold. `ReceiverNotified` speaks of armed sources
  for this reason; `docs/api/gunyah_api.md:1251` makes no such exception.
- Flushing a message queue asserts the send interrupt (`msgqueue_common.c:186`);
  `docs/api/gunyah_api.md:1188` says that it is deasserted.

## 5. What is proved

TLAPS proves these theorems for every value of the constants that satisfies the named assumptions of the
modules. Most of them are also checked by TLC as properties of a run, where the mutants show that
they can fail.

| Theorem | States |
|---|---|
| `RcuBitmapProofs!TypeCorrect` | every variable of RCU keeps its type; the counts never go below zero |
| `RcuBitmapProofs!ReadersAreActive` | `ReadersActive` |
| `RcuBitmapProofs!UpdateCountIsExact`, `WaiterCountIsExact` | `UpdateCountExact`, `WaiterCountExact` |
| `RcuBitmapProofs!ReadyBatchIsSignalled` | `ReadyBatchSignalled` |
| `RcuBitmapProofs!OfflineCoresAreDrained` | a core that goes offline has no updates |
| `RcuBitmapGrace!GracePeriodsAreWaitedFor` | `GracePeriodIfSampled`, if no core is held at its compare-and-swap while the count comes round |
| `SpinlockTicketProofs!MutuallyExclusive`, `WakeupsNotMissed` | `MutualExclusion`, `NoMissedWakeup` |
| `SpinlockTicketProofs!LockIsFifo` | `ImplementsFifoLock`: the specification implies `FifoLock`'s |
| `TimerQueueProofs!TimersAreListedWhereQueued`, `NoTimeoutIsLost` | `ListedWhereQueued`, `NoLostTimeout` |
| `TimerQueueProofs!DequeuedTimersStayOff` | `DequeuedStaysOff`, an action property |
| `PowerProofs!VotesAreExact`, `VotesAreNotForgotten`, `UnvotedCoresAreWoken` | `VotesExact`, `NoVoteForgotten`, `UnvotedCoreWoken` |
| `MsgQueueProofs!ReceiverIsNotified`, `SenderIsNotified` | `ReceiverNotified`, `SenderNotified` |
| `MsgQueueProofs!AssertionIsKept` | `AssertionKept`, an action property |
| `MsgQueueProofs!QueueIsFifo` | `ImplementsFifo`: the specification implies `BoundedFifo`'s |
| `DoorbellProofs!RingIsNotified` | `RingNotified` |
| `DoorbellProofs!RingIsKept` | `RingKept`, an action property |

**RCU.** Assumptions: finitely many cores, and an even count range above 7. None of the properties is inductive. `update_count` is exact only
if an entry is in one batch at a time and the batches are finite (`BatchInv`). That needs to know which
procedure a core is in and where it returns to: the code calls `rcu_bitmap_update` from three places, and
a callback may enqueue again (`ControlInv`, with `Stack` for the return labels and `Activity` for the
active set). A ready batch is signalled by an update reason that is pending, taken, or being handled
(`Signalled`), and a core on its way off has no updates (`Drained`). `IInv` is their conjunction.
`RcuBitmapControl` proves the structure and the counts, `RcuBitmapProofs` the types and the rest.

**The grace period.** The compare-and-swap of `rcu_bitmap_quiesce` compares a 32-bit count that wraps. If a core stood
in front of it while the others went through all 2^32 periods, it would publish an old sample of the active set.
So `GracePeriodIfSampled` is not true of every behaviour, although no instance that TLC can check is deep enough to
show it. `RcuBitmapGrace` adds a history variable to the specification, which changes nothing in the behaviour of
the others: `age[c]` counts the periods that began since core `c` loaded what it will compare. The theorem is
`HSpec /\ []Fresh => []GracePeriodIfSampled`, and `Fresh` says that every age stays below the range of the count.
The code justifies it: the loop runs with preemption disabled, and each of the 2^32 periods needs all
active cores to quiesce. All other comparisons of counts are safe against wrapping, and that is part of the proof.
The invariant `GInv` says of each reader that an update has to wait for, until it leaves its critical section: while the
update has no target, the reader is in every sample that could still be published (`Sampled`). When the update gets
its target, two periods ahead, the same holds. After the next period has begun the target is one ahead, and the
reader is in the bitmap of that period. It takes itself out only by quiescing, and it does not quiesce. So no later
period begins, and the batch does not become ready (`Waited`). `Aged` links the count a core has loaded with the
present one through its age. TLC checked `GInv` on the instances of `rcu_safety` and `rcu_three_cores` with the history
variable added.

**Spinlock.** Assumption: fewer cores than tickets. The invariant counts: the tickets between
`now_serving` and `next_ticket` are exactly those of the cores in line, no two cores in line have the same
one, and an owner's is being served. The cardinality of the line bounds the window, so that it
never wraps onto itself. For the refinement, the cores in line stand at the places 0, 1, ... after
`now_serving`. As many places as cores and no two cores at one place make every place taken (an injection
between finite sets of one size is a surjection), so the owner and the queue of `FifoLock` are determined
(`Abstracts`, `AbstractionUnique`); each action is then one step of that pair or leaves it alone.

**Timer queues.** Assumptions: at least one core, a functional boot core, and a null pointer that is neither a timer
nor a core. The numbers of cores, timers, ticks, calls and power transitions are arbitrary. `ListedWhereQueued` is kept
because a core that dequeues or updates a timer holds the timer's lock from the load of its queue pointer on
(`Locks`). Meanwhile the pointer can only become null, when the timer expires (`Pointers`). A core that drains its
queue is offline, so nothing is added to the list, and the timer it is moving is off the list (`Draining`).
`NoLostTimeout` needs that a queued timer has a timeout the clock can reach, and the condition on the hardware timer for
cores that are coming up too (`Timeouts`, `Armed`). The steps rest on lemmas about lists: how the earliest timeout
changes when a timer is inserted, removed or given another timeout. They need a least element of a set of naturals,
which follows from the library's well-foundedness of the naturals.

**Power.** Assumptions: finitely many cores and VCPUs, a null value that is no core, no VCPU and no pair of them, and at
least one retry. Whether the platform and the handlers may refuse is arbitrary. `VotesExact` needs that a VCPU is moved
by one core at a time and keeps its vote meanwhile (`Moves`). `NoVoteForgotten` needs that a core that goes offline has
held its voting lock since it found no votes (`Leaving`), and that a core runs one retry at a time (`Firing`).

**Message queue.** Assumptions: a positive depth and the two sources. A receiver is notified in a state
without an operation under way, because an operation that makes its condition true owes the
assertion (`Notified`). But a check of the level that is under way could clear the interrupt afterwards,
with values it loaded before. `Seen` says that it does not: unless a call on its source is still
owed, which cancels the check, the threshold it has loaded is the present one, and the count it
has loaded answers as the present count does if that one is beyond the threshold. `ClearedRightly` says
that `virq_clear` is called only if the condition is false. `Ring` relates head, tail and count, except
in the middle of a flush, and is what the refinement needs: the messages held are the slots from head on,
and the slot that a send writes is not one of them.

**Doorbell.** Assumptions: the one source, and a value `NotLoaded` that is no set of flags; the set of flags is
arbitrary. `RingNotified` keeps its exception (`overtaken`, section 4) in the theorem. While a check is under way
and no call is owed, flags are only cleared, since `doorbell_send` owes a call, which cancels the check. The
mask does not grow while something rings, unless `overtaken` records it. So what the check has loaded is no less
than what there is (`Seen`), and rings if the doorbell does. `Notified` adds the assertion that is still owed,
`CalledRightly` that a clear or an edge is called only if nothing rings, and `Checks` what a check under way
implies about the interrupt.

## 6. What is only model-checked

- All liveness properties: TLAPS does not reason about fairness here.
- `GracePeriod`, which holds for two cores and is false for three (section 4).
- The safety properties of `SchedulerFprr` and `CSpace`.
- Every result about an assertion or a panic, except where a theorem above implies it.

## 7. What is not modelled, and why

`PROJECT.json` lists every module of the repository. In short:

- **Weak memory.** The models are sequentially consistent. The barriers in the code are read as intended, not
  checked.
- **The virtual GIC.** `Virq` has what its sources and the VM see of one interrupt. The delivery states, the list
  registers, routing to several VCPUs and the ITS are state machines of their own, about 16 000 lines
  over hardware registers whose behaviour the sources do not define.
- **Memory.** Page tables, address spaces, memory extents and `memdb_bitmap` change large structures in
  several steps that may fail. Their algorithms are mostly sequential under locks. The range maps and the
  free-list allocator are sequential too. A model of them would check data structures rather than
  interleavings, and was put behind the concurrent core.
- **PSCI and the VCPUs' power states**, `vcpu_run`, `wait_queue_broadcast`, `task_queue`, `rcu_sync`, virtio and the
  VM's timers are clients of what is modelled. They come next: `wait_queue_broadcast` and `vcpu_run` on top of
  `SchedulerFprr`, PSCI on top of `Power`.
- **Instruction and register emulation, device drivers, firmware calls**: their state is the hardware's.
- **Boot code, parsers, logging, tracing, generated code and build tools**: sequential, run once, or
  without effect on the rest.

Together the models cover a small part of the repository's lines: most of them are drivers, emulation,
generators and tables. The concurrent parts that are missing are named above; of those, the virtual GIC and memory
ownership are the largest.
