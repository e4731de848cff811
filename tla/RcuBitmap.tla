----------------------------- MODULE RcuBitmap -----------------------------
(***************************************************************************)
(* Bitmap RCU: hyp/core/rcu_bitmap/src/rcu_bitmap.c.                       *)
(*                                                                         *)
(* Every CPU runs one thread of control.  Preemption is off in all of the  *)
(* handlers below, so a CPU's own data (batches, update_count, is_active,  *)
(* ready_updates) is touched by that CPU alone, and the steps of one CPU   *)
(* interleave with those of the others at each access to shared data:      *)
(* current_period, max_target, active_cpus, waiter_count, the target of a  *)
(* CPU, and the IPI bits.  An action is one such access together with the  *)
(* private work around it; pc[c] names the access that comes next.         *)
(*                                                                         *)
(* Sequential consistency is assumed between those accesses.  The code     *)
(* places seq_cst fences where a store must be seen before a later load.   *)
(***************************************************************************)
EXTENDS Integers, FiniteSets

CONSTANTS
    CPU,            \* the cores
    Entry,          \* RCU entries; each is enqueued at most once
    MayEnqueue,     \* which core's code may pass which entry to rcu_enqueue
    Readers,        \* cores whose code opens read-side critical sections
    Events,         \* which optional event may happen on which core
    Boot,           \* the core that boots first
    CountRange,     \* count_t wraps here: 2^32 in the code
    FirstGeneration,\* generation when the behaviour starts: 0 at boot, or
                    \* the value an idle system has counted up to since
    MaxOffline      \* bound: how often a core may be taken offline

OptionalEvents == {"exit", "expedite", "offline", "suspend", "switch"}

ASSUME CpuAssumption == IsFiniteSet(CPU) /\ Boot \in CPU
ASSUME UserAssumption == Readers \subseteq CPU /\ MayEnqueue \subseteq CPU \X Entry
ASSUME EventAssumption == Events \subseteq CPU \X OptionalEvents
ASSUME CountAssumption == CountRange \in Nat /\ CountRange > 7 /\ CountRange % 2 = 0
ASSUME GenerationAssumption == FirstGeneration \in 0..CountRange-1
ASSUME OfflineAssumption == MaxOffline \in Nat

Reason == {"quiesce", "notify", "update"}

Count == 0..CountRange-1

Period == [generation : Count, cpu_bitmap : SUBSET CPU]

NoPeriod == [generation |-> 0, cpu_bitmap |-> {}]

Label == {"off", "out", "hyp", "read", "e_active", "e_ipis", "handle", "exit_check",
          "d_clear", "quiesce", "q_cas", "q_needing", "q_ipis", "q_again",
          "notify", "r_store", "r_load", "r_max", "r_max_idle", "u_run",
          "x_notify", "x_quiesce", "x_again", "x_update"}

Procedure == {"enqueue", "quiesce", "notify", "update"}

VARIABLES
    waiter_count, current_period, max_target, active_cpus,     \* rcu_state
    update_count, is_active, ready_updates, target,            \* rcu_cpu_state
    ready_batch, waiting_batch, next_batch,
    pending,        \* IPI bits of each core
    pc, ret,        \* control: next access; where each procedure returns to
    cur, nxt,       \* locals current_period and next_period
    todo, needing,  \* locals: cores left in an IPI loop; cpus_needing_quiesce
    taken, ran,     \* locals: IPI reasons being handled; callbacks run
    adding,         \* the entry that an rcu_enqueue in progress is adding
    enqueued, done, \* entries passed to rcu_enqueue; entries whose callback ran
    blockers,       \* blockers[e]: cores still in a critical section that was
                    \* executing when e was enqueued
    exposed,        \* exposed[e]: those that a new period about to be
                    \* published had already failed to sample
    offlines        \* how often a core went offline

period   == <<waiter_count, current_period, max_target>>
activity == <<active_cpus, is_active>>
batches  == <<ready_batch, waiting_batch, next_batch>>
queues   == <<update_count, ready_updates, target, batches>>
rcu      == <<period, activity, queues>>
locals   == <<cur, nxt, todo, needing>>
ghosts   == <<enqueued, done, blockers, exposed>>
rest     == <<ran, adding, ghosts, offlines>>
work     == <<taken, rest>>
vars == <<rcu, pending, pc, ret, locals, work>>

\* util_is_before: a signed comparison of wrapping counts.
IsBefore(a, b) == (a - b) % CountRange >= CountRange \div 2

\* Counts are count_t: the sum wraps.
Plus(a, n) == (a + n) % CountRange

Init ==
    /\ waiter_count = 0
    /\ current_period = [generation |-> FirstGeneration, cpu_bitmap |-> {}]
    /\ max_target = FirstGeneration
    /\ active_cpus = {Boot}
    /\ update_count = [c \in CPU |-> 0]
    /\ is_active = [c \in CPU |-> c = Boot]
    /\ ready_updates = [c \in CPU |-> FALSE]
    /\ target = [c \in CPU |-> FirstGeneration]
    /\ ready_batch = [c \in CPU |-> {}]
    /\ waiting_batch = [c \in CPU |-> {}]
    /\ next_batch = [c \in CPU |-> {}]
    /\ pending = [c \in CPU |-> {}]
    /\ pc = [c \in CPU |-> IF c = Boot THEN "hyp" ELSE "off"]
    /\ ret = [c \in CPU |-> [p \in Procedure |-> "hyp"]]
    /\ cur = [c \in CPU |-> NoPeriod]
    /\ nxt = [c \in CPU |-> NoPeriod]
    /\ todo = [c \in CPU |-> {}]
    /\ needing = [c \in CPU |-> {}]
    /\ taken = [c \in CPU |-> {}]
    /\ ran = [c \in CPU |-> 0]
    /\ adding = [c \in CPU |-> {}]
    /\ enqueued = {}
    /\ done = {}
    /\ blockers = [e \in Entry |-> {}]
    /\ exposed = [e \in Entry |-> {}]
    /\ offlines = 0

-----------------------------------------------------------------------------
(* Control helpers *)

Goto(c, label) == pc' = [pc EXCEPT ![c] = label]

Call(c, proc, label, back) ==
    /\ Goto(c, label)
    /\ ret' = [ret EXCEPT ![c][proc] = back]

\* Return from proc, forgetting the return label so that it is not state.
Return(c, proc) ==
    /\ Goto(c, ret[c][proc])
    /\ ret' = [ret EXCEPT ![c][proc] = "hyp"]

\* ipi_one and ipi_one_relaxed: raise reasons rs on core d.
Raise(d, rs) == pending' = [pending EXCEPT ![d] = @ \cup rs]

\* ipi_clear on the calling core.
Clear(c, r) == pending' = [pending EXCEPT ![c] = @ \ {r}]

-----------------------------------------------------------------------------
(* Read-side critical sections *)

rcu_read_start(c) ==
    /\ pc[c] = "hyp" /\ c \in Readers
    /\ Goto(c, "read")
    /\ UNCHANGED <<rcu, pending, ret, locals, work>>

rcu_read_finish(c) ==
    /\ pc[c] = "read"
    /\ Goto(c, "hyp")
    /\ blockers' = [e \in Entry |-> blockers[e] \ {c}]
    /\ UNCHANGED <<rcu, pending, ret, locals, taken, ran, adding, enqueued, done, exposed,
                   offlines>>

\* Cores now inside a critical section, or in an rcu_enqueue called from one.
Reading == {c \in CPU : "read" \in {pc[c], ret[c]["enqueue"]}}

\* Core d has computed a new period that its compare-and-swap will publish.
Publishing(d) ==
    /\ pc[d] = "q_cas"
    /\ cur[d] = current_period
    /\ nxt[d].generation # cur[d].generation

\* The readers that such a period has failed to sample.
Unsampled == {c \in Reading : \E d \in CPU : Publishing(d) /\ c \notin nxt[d].cpu_bitmap}

-----------------------------------------------------------------------------
(* rcu_enqueue.  Callers: hypervisor code, in or out of a critical section, *)
(* and update callbacks.                                                   *)

\* The entry joins next_batch and the core notifies itself.
Insert(c, es) ==
    /\ next_batch' = [next_batch EXCEPT ![c] = @ \cup es]
    /\ Raise(c, {"notify"})

rcu_enqueue(c, e) ==
    /\ pc[c] \in {"hyp", "read", "u_run"} /\ <<c, e>> \in MayEnqueue
    /\ e \notin enqueued
    /\ enqueued' = enqueued \cup {e}
    /\ blockers' = [blockers EXCEPT ![e] = Reading]
    /\ exposed' = [exposed EXCEPT ![e] = Unsampled]
    /\ update_count' = [update_count EXCEPT ![c] = @ + 1]
    /\ waiter_count' = IF update_count[c] = 0 THEN waiter_count + 1 ELSE waiter_count
    /\ IF update_count[c] = 0 /\ waiter_count = 0
         THEN /\ Call(c, "enqueue", "e_active", pc[c])
              /\ adding' = [adding EXCEPT ![c] = {e}]
              /\ UNCHANGED <<next_batch, pending>>
         ELSE /\ Insert(c, {e})
              /\ UNCHANGED <<pc, ret, adding>>
    /\ UNCHANGED <<current_period, max_target, activity, ready_updates, target, ready_batch,
                   waiting_batch, locals, taken, ran, done, offlines>>

\* rcu_bitmap_refresh_active: read the active set ...
refresh_active_load(c) ==
    /\ pc[c] = "e_active"
    /\ todo' = [todo EXCEPT ![c] = active_cpus \ {c}]
    /\ Goto(c, "e_ipis")
    /\ UNCHANGED <<rcu, pending, ret, cur, nxt, needing, work>>

\* ... and ask each other core in it to quiesce.
refresh_active_send(c) ==
    /\ pc[c] = "e_ipis"
    /\ \E d \in todo[c] :
         /\ Raise(d, {"quiesce"})
         /\ todo' = [todo EXCEPT ![c] = @ \ {d}]
    /\ UNCHANGED <<rcu, pc, ret, cur, nxt, needing, work>>

rcu_enqueue_finish(c) ==
    /\ pc[c] = "e_ipis" /\ todo[c] = {}
    /\ Insert(c, adding[c])
    /\ adding' = [adding EXCEPT ![c] = {}]
    /\ Return(c, "enqueue")
    /\ UNCHANGED <<period, activity, update_count, ready_updates, target, ready_batch,
                   waiting_batch, locals, taken, ran, ghosts, offlines>>

-----------------------------------------------------------------------------
(* Activation and deactivation *)

\* rcu_bitmap_activate_cpu; idempotent.
Activate(c) ==
    /\ is_active' = [is_active EXCEPT ![c] = TRUE]
    /\ active_cpus' = IF is_active[c] THEN active_cpus ELSE active_cpus \cup {c}

\* A missing reset: is_active survives, so that the next activation does nothing.
DeactivateKeepsFlag(c, back) ==
    /\ UNCHANGED is_active
    /\ active_cpus' = active_cpus \ {c}
    /\ Call(c, "quiesce", "d_clear", back)

\* rcu_bitmap_deactivate_cpu up to the fence; what remains is at "d_clear".
Deactivate(c, back) ==
    /\ is_active' = [is_active EXCEPT ![c] = FALSE]
    /\ active_cpus' = IF is_active[c] THEN active_cpus \ {c} ELSE active_cpus
    /\ Call(c, "quiesce", "d_clear", back)

\* idle_block_finish or thread_entry_from_user, for a reason other than an IPI.
enter_hyp(c) ==
    /\ pc[c] = "out"
    /\ Activate(c)
    /\ Goto(c, "hyp")
    /\ UNCHANGED <<period, queues, pending, ret, locals, work>>

\* An IPI interrupts a core that is outside; the platform handler takes all bits.
ipi_wakeup(c) ==
    /\ pc[c] = "out" /\ pending[c] # {}
    /\ Activate(c)
    /\ taken' = [taken EXCEPT ![c] = pending[c]]
    /\ pending' = [pending EXCEPT ![c] = {}]
    /\ Goto(c, "handle")
    /\ UNCHANGED <<period, queues, ret, locals, rest>>

\* rcu_bitmap_maybe_deactivate_cpu, on exit to a VM or when idle blocks.
maybe_deactivate_cpu(c) ==
    /\ pc[c] = "hyp" /\ <<c, "exit">> \in Events
    /\ IF waiter_count > 0
         THEN Deactivate(c, "exit_check")
         ELSE Goto(c, "exit_check") /\ UNCHANGED <<activity, ret>>
    /\ UNCHANGED <<period, queues, pending, locals, work>>

\* thread_exit_to_user: leave unless an IPI is pending; otherwise re-enter to
\* handle it (ipi_check_relaxed, thread_entry_from_user, ipi_handle_relaxed).
exit_check(c) ==
    /\ pc[c] = "exit_check"
    /\ IF pending[c] = {}
         THEN Goto(c, "out") /\ UNCHANGED <<activity, pending, taken>>
         ELSE \E r \in pending[c] :
                /\ Activate(c)
                /\ Clear(c, r)
                /\ taken' = [taken EXCEPT ![c] = {r}]
                /\ Goto(c, "handle")
    /\ UNCHANGED <<period, queues, ret, locals, rest>>

\* rcu_bitmap_try_deactivate_cpu: suspend, refused while updates are queued.
try_deactivate_cpu(c) ==
    /\ pc[c] = "hyp" /\ <<c, "suspend">> \in Events
    /\ update_count[c] = 0
    /\ Deactivate(c, "out")
    /\ UNCHANGED <<period, queues, pending, locals, work>>

\* rcu_has_pending_updates: asked before a core is taken offline.
rcu_has_pending_updates(c) == waiter_count > 0 /\ update_count[c] # 0

Online(c) == pc[c] # "off" /\ ret[c]["quiesce"] # "off"

\* power_cpu_offline on a core other than the last one online.
power_cpu_offline(c) ==
    /\ pc[c] = "hyp" /\ <<c, "offline">> \in Events /\ offlines < MaxOffline
    /\ ~rcu_has_pending_updates(c)
    /\ \E d \in CPU \ {c} : Online(d)
    /\ offlines' = offlines + 1
    /\ Deactivate(c, "off")
    /\ UNCHANGED <<period, queues, pending, locals, taken, ran, adding, ghosts>>

\* boot_cpu_warm_init on a core that is powered on.
boot_cpu_warm_init(c) ==
    /\ pc[c] = "off"
    /\ Activate(c)
    /\ Goto(c, "hyp")
    /\ UNCHANGED <<period, queues, pending, ret, locals, work>>

-----------------------------------------------------------------------------
(* rcu_bitmap_quiesce *)

\* thread_context_switch_pre and scheduler_quiescent.
scheduler_quiescent(c) ==
    /\ pc[c] = "hyp" /\ <<c, "switch">> \in Events
    /\ waiter_count > 0
    /\ Call(c, "quiesce", "d_clear", "hyp")
    /\ UNCHANGED <<rcu, pending, locals, work>>

\* ipi_clear(QUIESCE), which precedes every direct call of quiesce.
quiesce_clear_ipi(c) ==
    /\ pc[c] = "d_clear"
    /\ Clear(c, "quiesce")
    /\ Goto(c, "quiesce")
    /\ UNCHANGED <<rcu, ret, locals, work>>

\* One attempt of the loop.  While other cores have yet to acknowledge, it is
\* an atomic clear of this core's bit.  The last core to acknowledge first
\* decides from max_target whether a further period is wanted, and samples the
\* active set for it; a target above the generation stays above it until the
\* generation changes, so the decision and the sample can be one step.
quiesce_attempt(c) ==
    /\ pc[c] = "quiesce"
    /\ LET acked == [current_period EXCEPT !.cpu_bitmap = @ \ {c}] IN
         IF acked.cpu_bitmap # {}
           THEN /\ current_period' = acked
                /\ Return(c, "quiesce")
                /\ UNCHANGED <<cur, nxt>>
           ELSE /\ cur' = [cur EXCEPT ![c] = current_period]
                /\ nxt' = [nxt EXCEPT ![c] =
                             IF max_target # current_period.generation
                               THEN [generation |-> Plus(current_period.generation, 1),
                                     cpu_bitmap |-> active_cpus]
                               ELSE acked]
                /\ Goto(c, "q_cas")
                /\ UNCHANGED <<current_period, ret>>
    /\ UNCHANGED <<waiter_count, max_target, activity, queues, pending, todo, needing, work>>

\* The compare-and-swap: publish the new value, or try again.
quiesce_publish(c) ==
    /\ pc[c] = "q_cas"
    /\ cur' = [cur EXCEPT ![c] = NoPeriod]
    /\ IF current_period # cur[c]
         THEN Goto(c, "quiesce") /\ nxt' = [nxt EXCEPT ![c] = NoPeriod]
              /\ UNCHANGED <<current_period, ret>>
         ELSE /\ current_period' = nxt[c]
              /\ IF nxt[c].generation # cur[c].generation
                   THEN Goto(c, "q_needing") /\ UNCHANGED <<nxt, ret>>
                   ELSE Return(c, "quiesce") /\ nxt' = [nxt EXCEPT ![c] = NoPeriod]
    /\ UNCHANGED <<waiter_count, max_target, activity, queues, pending, todo, needing, work>>

\* Cores that left the active set after it was sampled.
quiesce_find_raced(c) ==
    /\ pc[c] = "q_needing"
    /\ needing' = [needing EXCEPT ![c] = nxt[c].cpu_bitmap \ active_cpus]
    /\ todo' = [todo EXCEPT ![c] = CPU \ {c}]
    /\ Goto(c, "q_ipis")
    /\ UNCHANGED <<rcu, pending, ret, cur, nxt, work>>

\* Mutant: the core whose target is reached is not told.
PeriodReasonsNoNotify(c, d) == IF d \in needing[c] THEN {"quiesce"} ELSE {}

\* IPIs for core d: its target is reached; it has to acknowledge after all.
PeriodReasons(c, d) ==
    (IF target[d] = nxt[c].generation THEN {"notify"} ELSE {})
      \cup (IF d \in needing[c] THEN {"quiesce"} ELSE {})

quiesce_send(c) ==
    /\ pc[c] = "q_ipis"
    /\ \E d \in todo[c] :
         /\ Raise(d, PeriodReasons(c, d))
         /\ todo' = [todo EXCEPT ![c] = @ \ {d}]
    /\ UNCHANGED <<rcu, pc, ret, cur, nxt, needing, work>>

\* Mutant: batches are processed on an inactive core too.
CanProcessAlways(c) == TRUE

\* Callbacks may have critical sections, so only an active core may run them.
CanProcess(c) == is_active[c]

\* The new period on the core that started it: an active core checks its own
\* batches and will quiesce again; an inactive one has to be woken for that.
quiesce_finish(c) ==
    /\ pc[c] = "q_ipis" /\ todo[c] = {}
    /\ nxt' = [nxt EXCEPT ![c] = NoPeriod]
    /\ needing' = [needing EXCEPT ![c] = {}]
    /\ IF CanProcess(c)
         THEN Call(c, "notify", "notify", "q_again") /\ UNCHANGED pending
         ELSE /\ Return(c, "quiesce")
              /\ Raise(c, IF update_count[c] # 0 THEN {"notify"} ELSE {})
    /\ UNCHANGED <<rcu, cur, todo, work>>

quiesce_again(c) ==
    /\ pc[c] = "q_again"
    /\ Raise(c, {"quiesce"})
    /\ Return(c, "quiesce")
    /\ UNCHANGED <<rcu, locals, work>>

-----------------------------------------------------------------------------
(* rcu_bitmap_notify and rcu_bitmap_request_grace_period *)

\* Mutant: the update IPI is not raised for the batch that became ready.
AdvanceBatchesSilently(c) ==
    /\ ready_updates' = [ready_updates EXCEPT ![c] = @ \/ waiting_batch[c] # {}]
    /\ next_batch' = [next_batch EXCEPT ![c] = {}]
    /\ waiting_batch' = [waiting_batch EXCEPT ![c] = next_batch[c]]
    /\ ready_batch' = [ready_batch EXCEPT ![c] = waiting_batch[c]]
    /\ UNCHANGED pending

\* Shift the batches, and ask for the one that became ready to be processed.
AdvanceBatches(c) ==
    /\ ready_updates' = [ready_updates EXCEPT ![c] = @ \/ waiting_batch[c] # {}]
    /\ next_batch' = [next_batch EXCEPT ![c] = {}]
    /\ waiting_batch' = [waiting_batch EXCEPT ![c] = next_batch[c]]
    /\ ready_batch' = [ready_batch EXCEPT ![c] = waiting_batch[c]]
    /\ Raise(c, IF waiting_batch[c] # {} THEN {"update"} ELSE {})

\* There are no updates, or the target is not reached yet.
notify_nothing(c) ==
    /\ pc[c] = "notify"
    /\ \/ update_count[c] = 0
       \/ ~ready_updates[c] /\ IsBefore(current_period.generation, target[c])
    /\ Return(c, "notify")
    /\ UNCHANGED <<rcu, pending, locals, work>>

\* A batch that is ready already is processed before another can follow it.
notify_update_first(c) ==
    /\ pc[c] = "notify" /\ update_count[c] # 0
    /\ ready_updates[c]
    /\ Clear(c, "update")
    /\ Call(c, "update", "u_run", "notify")
    /\ UNCHANGED <<rcu, locals, work>>

\* The target is reached; a new one is needed if updates came in meanwhile.
notify_advance(c) ==
    /\ pc[c] = "notify" /\ update_count[c] # 0
    /\ ~ready_updates[c] /\ ~IsBefore(current_period.generation, target[c])
    /\ AdvanceBatches(c)
    /\ IF next_batch[c] # {}
         THEN /\ cur' = [cur EXCEPT ![c] = current_period]
              /\ Goto(c, "r_store") /\ UNCHANGED ret
         ELSE Return(c, "notify") /\ UNCHANGED cur
    /\ UNCHANGED <<period, activity, update_count, target, nxt, todo, needing, work>>

\* Mutant: wait for the period in progress only.
TargetAfterCurrent(g) == Plus(g, 1)

\* Updates may have been enqueued during period g, so they wait for the end of
\* the next one.
TargetAfter(g) == Plus(g, 2)

request_store_target(c) ==
    /\ pc[c] = "r_store"
    /\ target' = [target EXCEPT ![c] = TargetAfter(cur[c].generation)]
    /\ cur' = [cur EXCEPT ![c] = NoPeriod]
    /\ Goto(c, "r_load")
    /\ UNCHANGED <<period, activity, update_count, ready_updates, batches, pending, ret,
                   nxt, todo, needing, work>>

\* The target may have been reached before it was stored; then no IPI is due.
request_reload(c) ==
    /\ pc[c] = "r_load"
    /\ IF IsBefore(current_period.generation, target[c])
         THEN /\ Goto(c, IF current_period.cpu_bitmap = {} THEN "r_max_idle" ELSE "r_max")
              /\ UNCHANGED <<pending, ret>>
         ELSE Raise(c, {"notify"}) /\ Return(c, "notify")
    /\ UNCHANGED <<rcu, locals, work>>

\* Raise max_target; if no period is in progress, quiesce to start one.
request_raise_max(c) ==
    /\ pc[c] \in {"r_max", "r_max_idle"}
    /\ max_target' = IF IsBefore(target[c], max_target) THEN max_target ELSE target[c]
    /\ Raise(c, IF pc[c] = "r_max_idle" THEN {"quiesce"} ELSE {})
    /\ Return(c, "notify")
    /\ UNCHANGED <<waiter_count, current_period, activity, queues, locals, work>>

-----------------------------------------------------------------------------
(* rcu_bitmap_update *)

\* One callback.  It may itself enqueue: rcu_enqueue is possible at "u_run".
update_callback(c) ==
    /\ pc[c] = "u_run"
    /\ \E e \in ready_batch[c] :
         /\ ready_batch' = [ready_batch EXCEPT ![c] = @ \ {e}]
         /\ done' = done \cup {e}
    /\ ran' = [ran EXCEPT ![c] = @ + 1]
    /\ UNCHANGED <<period, activity, update_count, ready_updates, target, waiting_batch,
                   next_batch, pending, pc, ret, locals, taken, adding, enqueued, blockers,
                   exposed, offlines>>

\* Mutant: updates enqueued by the callbacks are forgotten.
UpdatesLeftNone(c) == 0

\* Updates that remain after the callbacks of the batch.
UpdatesLeft(c) == update_count[c] - ran[c]

\* Mutant: the core stops being a waiter whenever it ran callbacks.
NoLongerWaiterAfterAny(c) == ran[c] # 0

NoLongerWaiter(c) == ran[c] # 0 /\ update_count[c] = ran[c]

update_finish(c) ==
    /\ pc[c] = "u_run" /\ ready_batch[c] = {}
    /\ update_count' = [update_count EXCEPT ![c] = UpdatesLeft(c)]
    /\ waiter_count' = IF NoLongerWaiter(c) THEN waiter_count - 1 ELSE waiter_count
    /\ ready_updates' = [ready_updates EXCEPT ![c] = FALSE]
    /\ ran' = [ran EXCEPT ![c] = 0]
    /\ Return(c, "update")
    /\ UNCHANGED <<current_period, max_target, activity, target, batches, pending, locals,
                   taken, adding, ghosts, offlines>>

-----------------------------------------------------------------------------
(* IPI handling and rcu_expedite *)

\* ipi_handle_relaxed (one reason at a time) or the platform IPI (all of them).
take_ipis(c) ==
    /\ pc[c] = "hyp"
    /\ \E rs \in {pending[c]} \cup {{r} : r \in pending[c]} :
         /\ rs # {}
         /\ taken' = [taken EXCEPT ![c] = rs]
         /\ pending' = [pending EXCEPT ![c] = @ \ rs]
    /\ Goto(c, "handle")
    /\ UNCHANGED <<rcu, ret, locals, rest>>

\* The handler of each reason; update returns at once unless a batch is ready.
Dispatch(c, r, back) ==
    \/ r = "quiesce" /\ Call(c, "quiesce", "quiesce", back)
    \/ r = "notify" /\ Call(c, "notify", "notify", back)
    \/ r = "update" /\ ready_updates[c] /\ Call(c, "update", "u_run", back)
    \/ r = "update" /\ ~ready_updates[c] /\ Goto(c, back) /\ UNCHANGED ret

ipi_received(c) ==
    /\ pc[c] = "handle"
    /\ \E r \in taken[c] :
         /\ taken' = [taken EXCEPT ![c] = @ \ {r}]
         /\ Dispatch(c, r, "handle")
    /\ UNCHANGED <<rcu, pending, locals, rest>>

ipis_handled(c) ==
    /\ pc[c] = "handle" /\ taken[c] = {}
    /\ Goto(c, "hyp")
    /\ UNCHANGED <<rcu, pending, ret, locals, work>>

rcu_expedite(c) ==
    /\ pc[c] = "hyp" /\ <<c, "expedite">> \in Events
    /\ Goto(c, "x_notify")
    /\ UNCHANGED <<rcu, pending, ret, locals, work>>

\* The reason each step of rcu_expedite handles, and the step after it.
ExpediteReason == [x_notify |-> "notify", x_quiesce |-> "quiesce",
                   x_again |-> "quiesce", x_update |-> "update"]
ExpediteNext == [x_notify |-> "x_quiesce", x_quiesce |-> "x_again",
                 x_again |-> "x_update", x_update |-> "hyp"]

\* Clear the reason and call its handler if it was pending; the first quiesce
\* is unconditional.
expedite_step(c) ==
    /\ pc[c] \in DOMAIN ExpediteNext
    /\ LET r == ExpediteReason[pc[c]] IN
         /\ Clear(c, r)
         /\ IF r \in pending[c] \/ pc[c] = "x_quiesce"
              THEN Dispatch(c, r, ExpediteNext[pc[c]])
              ELSE Goto(c, ExpediteNext[pc[c]]) /\ UNCHANGED ret
    /\ UNCHANGED <<rcu, locals, work>>

\* A handler asked for a reschedule and scheduler_schedule switched threads.
expedite_give_up(c) ==
    /\ pc[c] \in {"x_quiesce", "x_again", "x_update"}
    /\ Goto(c, "hyp")
    /\ UNCHANGED <<rcu, pending, ret, locals, work>>

-----------------------------------------------------------------------------

\* Steps a core takes without being asked to: it finishes what it has begun.
Continue(c) ==
    \/ refresh_active_load(c) \/ refresh_active_send(c) \/ rcu_enqueue_finish(c)
    \/ exit_check(c)
    \/ quiesce_clear_ipi(c) \/ quiesce_attempt(c) \/ quiesce_publish(c)
    \/ quiesce_find_raced(c) \/ quiesce_send(c) \/ quiesce_finish(c) \/ quiesce_again(c)
    \/ notify_nothing(c) \/ notify_update_first(c) \/ notify_advance(c)
    \/ request_store_target(c) \/ request_reload(c) \/ request_raise_max(c)
    \/ update_callback(c) \/ update_finish(c)
    \/ ipi_received(c) \/ ipis_handled(c)
    \/ expedite_step(c)

\* Steps that the VMs, the scheduler and power management decide on.
Begin(c) ==
    \/ rcu_read_start(c)
    \/ \E e \in Entry : rcu_enqueue(c, e)
    \/ enter_hyp(c) \/ try_deactivate_cpu(c)
    \/ power_cpu_offline(c) \/ boot_cpu_warm_init(c)
    \/ scheduler_quiescent(c) \/ take_ipis(c)
    \/ rcu_expedite(c) \/ expedite_give_up(c)

Next ==
    \E c \in CPU : Continue(c) \/ Begin(c) \/ rcu_read_finish(c)
                     \/ maybe_deactivate_cpu(c) \/ ipi_wakeup(c)

Spec == Init /\ [][Next]_vars

\* A core executes its code; critical sections and passes through the
\* hypervisor are finite; an interrupt is delivered to a core that is not off.
Fairness ==
    \A c \in CPU :
      /\ WF_vars(Continue(c))
      /\ WF_vars(rcu_read_finish(c))
      /\ SF_vars(maybe_deactivate_cpu(c))
      /\ WF_vars(ipi_wakeup(c))

FairSpec == Spec /\ Fairness

-----------------------------------------------------------------------------
(* Properties *)

TypeOK ==
    /\ waiter_count \in Nat
    /\ current_period \in Period
    /\ max_target \in Count
    /\ active_cpus \subseteq CPU
    /\ update_count \in [CPU -> Nat]
    /\ is_active \in [CPU -> BOOLEAN]
    /\ ready_updates \in [CPU -> BOOLEAN]
    /\ target \in [CPU -> Count]
    /\ ready_batch \in [CPU -> SUBSET Entry]
    /\ waiting_batch \in [CPU -> SUBSET Entry]
    /\ next_batch \in [CPU -> SUBSET Entry]
    /\ pending \in [CPU -> SUBSET Reason]
    /\ pc \in [CPU -> Label]
    /\ ret \in [CPU -> [Procedure -> Label]]
    /\ cur \in [CPU -> Period]
    /\ nxt \in [CPU -> Period]
    /\ todo \in [CPU -> SUBSET CPU]
    /\ needing \in [CPU -> SUBSET CPU]
    /\ taken \in [CPU -> SUBSET Reason]
    /\ ran \in [CPU -> Nat]
    /\ adding \in [CPU -> SUBSET Entry]
    /\ enqueued \subseteq Entry
    /\ done \subseteq Entry
    /\ blockers \in [Entry -> SUBSET CPU]
    /\ exposed \in [Entry -> SUBSET CPU]
    /\ offlines \in 0..MaxOffline

\* An update callback never runs before every critical section that was
\* executing when the update was enqueued has finished (rcu.h).
GracePeriod == \A e \in done : blockers[e] = {}

\* The same, except for the critical sections of a core that became active
\* between another core's sample of active_cpus and the compare-and-swap that
\* published the sample (quiesce lines 354 to 361).
GracePeriodIfSampled == \A e \in done : blockers[e] \subseteq exposed[e]

\* Critical sections and update callbacks run only on cores in the active set,
\* so that the next period waits for them (asserted in rcu_read_start).
ReadersActive ==
    \A c \in CPU : pc[c] \in {"read", "u_run"} => is_active[c] /\ c \in active_cpus

\* update_count counts the updates of a core's batches, including one that is
\* being added and those whose callbacks ran but are not yet subtracted.
UpdateCountExact ==
    \A c \in CPU :
      update_count[c] = Cardinality(ready_batch[c]) + Cardinality(waiting_batch[c])
                          + Cardinality(next_batch[c]) + ran[c]
                          + Cardinality(adding[c])

\* waiter_count is the number of cores with updates; it is 0, which stops all
\* quiescent state tracking, only when no core has any.
WaiterCountExact == waiter_count = Cardinality({c \in CPU : update_count[c] > 0})

\* A ready batch is never forgotten or merged with the next one: ready_updates
\* is set for it, and the update IPI is pending or its handler on the way
\* (comment on ready_batch in rcu.tc, assertion in rcu_bitmap_notify).
ReadyBatchSignalled ==
    \A c \in CPU :
      ready_batch[c] # {} =>
        /\ ready_updates[c]
        /\ "update" \in pending[c] \cup taken[c] \/ pc[c] = "u_run"
             \/ ret[c]["enqueue"] = "u_run"

\* A core goes offline only when nothing is queued on it.
OfflineCoresDrained ==
    \A c \in CPU : pc[c] = "off" => ready_batch[c] \cup waiting_batch[c] \cup next_batch[c] = {}

\* The grace period that a waiter needs has no core left to end it: a core
\* published a period that no core has to acknowledge (quiesce lines 354 to
\* 361, 406) although a later one was requested, and every core then left.
Stranded ==
    /\ current_period.cpu_bitmap = {} /\ current_period.generation # max_target
    /\ \A c \in CPU : pc[c] = "out" /\ pending[c] = {}

\* Every update that is enqueued runs (rcu.h: it "will be processed at the end
\* of the next grace period"), with one exception: the grace period is
\* Stranded, and stays so because no core enters the hypervisor again.
EveryUpdateRuns ==
    \A e \in Entry : <>[](e \in enqueued \ done) => <>[]Stranded
=============================================================================
