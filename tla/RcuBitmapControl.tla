-------------------------- MODULE RcuBitmapControl --------------------------
(***************************************************************************)
(* The steps of RcuBitmap preserve the call structure of a core and its    *)
(* place in the active set, the structure of its batches, and the counts.  *)
(***************************************************************************)
EXTENDS RcuBitmap, TLAPS, FiniteSetTheorems

(***************************************************************************)
(* Counts.                                                                 *)
(***************************************************************************)

\* A core has finitely many updates.
BatchesFinite ==
    \A c \in CPU :
      /\ IsFiniteSet(ready_batch[c]) /\ IsFiniteSet(waiting_batch[c])
      /\ IsFiniteSet(next_batch[c]) /\ IsFiniteSet(adding[c])

\* update_count covers the callbacks that ran and are not subtracted yet.
LEMMA UpdateCountBound ==
    ASSUME TypeOK, BatchesFinite, UpdateCountExact, NEW c \in CPU
    PROVE  update_count[c] >= ran[c]
<1>1. /\ Cardinality(ready_batch[c]) \in Nat /\ Cardinality(waiting_batch[c]) \in Nat
      /\ Cardinality(next_batch[c]) \in Nat /\ Cardinality(adding[c]) \in Nat
    BY FS_CardinalityType DEF BatchesFinite
<1> QED
    BY <1>1 DEF TypeOK, UpdateCountExact

\* While some core has updates, RCU is enabled.
LEMMA WaiterCountPositive ==
    ASSUME TypeOK, WaiterCountExact, NEW c \in CPU, update_count[c] # 0
    PROVE  waiter_count > 0
<1> DEFINE W == {d \in CPU : update_count[d] > 0}
<1>1. IsFiniteSet(W)
    BY CpuAssumption, FS_Subset
<1>2. c \in W
    BY DEF TypeOK
<1>3. Cardinality(W) # 0
    BY <1>1, <1>2, FS_EmptySet
<1> QED
    BY <1>3 DEF TypeOK, WaiterCountExact

(***************************************************************************)
(* Control: which procedure a core is in, where it will return to, and     *)
(* when it is in the active set.                                           *)
(***************************************************************************)

InQuiesce == {"d_clear", "quiesce", "q_cas", "q_needing", "q_ipis", "q_again"}
InNotify  == {"notify", "r_store", "r_load", "r_max", "r_max_idle"}
InEnqueue == {"e_active", "e_ipis"}
Leaving   == {"off", "out", "exit_check"}

\* ret[c][p] is "hyp" for every procedure p that core c has not called.
NotCalled(c, ps) == \A p \in ps : ret[c][p] = "hyp"

\* The frames below a call of notify, of update and of rcu_enqueue.
NotifyFrames(c) ==
    \/ ret[c]["notify"] = "q_again"
         /\ ret[c]["quiesce"] \in {"hyp", "handle", "x_again", "x_update"}
    \/ ret[c]["notify"] \in {"handle", "x_quiesce"} /\ NotCalled(c, {"quiesce"})

UpdateFrames(c) ==
    \/ ret[c]["update"] = "notify" /\ NotifyFrames(c)
    \/ ret[c]["update"] \in {"handle", "hyp"} /\ NotCalled(c, {"quiesce", "notify"})

EnqueueFrames(c) ==
    \/ ret[c]["enqueue"] = "u_run" /\ UpdateFrames(c)
    \/ ret[c]["enqueue"] \in {"hyp", "read"} /\ NotCalled(c, {"quiesce", "notify", "update"})

\* The return labels of core c match the procedure it is in.
Stack(c) ==
    /\ pc[c] \notin InQuiesce \cup InNotify \cup InEnqueue \cup {"u_run"} => NotCalled(c, Procedure)
    /\ pc[c] \in InQuiesce =>
         /\ ret[c]["quiesce"] \in {"hyp", "handle", "x_again", "x_update"} \cup Leaving
         /\ NotCalled(c, {"notify", "update", "enqueue"})
    /\ pc[c] \in InNotify => NotifyFrames(c) /\ NotCalled(c, {"update", "enqueue"})
    /\ pc[c] = "u_run" => UpdateFrames(c) /\ NotCalled(c, {"enqueue"})
    /\ pc[c] \in InEnqueue => EnqueueFrames(c)

\* A core is inactive only on its way out of the hypervisor and outside.
Activity(c) ==
    /\ is_active[c] <=> c \in active_cpus
    /\ pc[c] \notin Leaving \cup InQuiesce => is_active[c]
    /\ pc[c] \in InQuiesce => (is_active[c] <=> ret[c]["quiesce"] \notin Leaving)

ControlInv == \A c \in CPU : Stack(c) /\ Activity(c)

\* The steps of rcu_expedite, and the step after each.
LEMMA ExpediteLabels ==
    ASSUME NEW l \in DOMAIN ExpediteNext
    PROVE  /\ l \in {"x_notify", "x_quiesce", "x_again", "x_update"}
           /\ ExpediteNext[l] \in {"x_quiesce", "x_again", "x_update", "hyp"}
    BY SMTT(60) DEF ExpediteNext

\* The steps of a core that quiesce or dispatch interrupts, and those that
\* notify, update and enqueue.
Quiescing(c) ==
    \/ quiesce_clear_ipi(c) \/ quiesce_attempt(c) \/ quiesce_publish(c)
    \/ quiesce_find_raced(c) \/ quiesce_send(c) \/ quiesce_finish(c)
    \/ quiesce_again(c) \/ ipi_received(c) \/ expedite_step(c)

Working(c) ==
    \/ refresh_active_load(c) \/ refresh_active_send(c) \/ rcu_enqueue_finish(c)
    \/ exit_check(c) \/ notify_nothing(c) \/ notify_update_first(c)
    \/ notify_advance(c) \/ request_store_target(c) \/ request_reload(c)
    \/ request_raise_max(c) \/ update_callback(c) \/ update_finish(c)
    \/ ipis_handled(c)

\* Quiescing and the dispatch of interrupts keep the call structure of every core.
LEMMA ControlQuiesce ==
    ASSUME TypeOK, NEW c \in CPU, NEW d \in CPU, Stack(d), Activity(d),
           Quiescing(c)
    PROVE  Stack(d)' /\ Activity(d)'
<1>0. /\ pc \in [CPU -> Label] /\ ret \in [CPU -> [Procedure -> Label]]
      /\ is_active \in [CPU -> BOOLEAN] /\ active_cpus \subseteq CPU
    BY DEF TypeOK
<1> USE <1>0 DEF Goto, Call, Return, Stack, Activity, NotCalled, NotifyFrames, UpdateFrames,
        EnqueueFrames, InQuiesce, InNotify, InEnqueue, Leaving, Procedure
<1>1. CASE quiesce_clear_ipi(c)
    BY <1>1, SMTT(60) DEF quiesce_clear_ipi, rcu, activity
<1>2. CASE quiesce_attempt(c)
    BY <1>2, SMTT(60) DEF quiesce_attempt, rcu, activity
<1>3. CASE quiesce_publish(c)
    BY <1>3, SMTT(60) DEF quiesce_publish, rcu, activity
<1>4. CASE quiesce_find_raced(c)
    BY <1>4, SMTT(60) DEF quiesce_find_raced, rcu, activity
<1>5. CASE quiesce_send(c)
    BY <1>5, SMTT(60) DEF quiesce_send, rcu, activity
<1>6. CASE quiesce_finish(c)
    BY <1>6, SMTT(60) DEF quiesce_finish, rcu, activity, CanProcess
<1>7. CASE quiesce_again(c)
    BY <1>7, SMTT(60) DEF quiesce_again, rcu, activity
<1>8. CASE ipi_received(c)
    BY <1>8, SMTT(60) DEF ipi_received, rcu, activity, Dispatch
<1>9. CASE expedite_step(c)
    BY <1>9, SMTT(60) DEF expedite_step, rcu, activity, Dispatch, ExpediteReason, ExpediteNext
<1> QED
    BY <1>1, <1>2, <1>3, <1>4, <1>5, <1>6, <1>7, <1>8, <1>9, ZenonT(60) DEF Quiescing

\* Notifying, updating and enqueueing keep the call structure of every core.
LEMMA ControlWork ==
    ASSUME TypeOK, NEW c \in CPU, NEW d \in CPU, Stack(d), Activity(d),
           Working(c)
    PROVE  Stack(d)' /\ Activity(d)'
<1>0. /\ pc \in [CPU -> Label] /\ ret \in [CPU -> [Procedure -> Label]]
      /\ is_active \in [CPU -> BOOLEAN] /\ active_cpus \subseteq CPU
    BY DEF TypeOK
<1> USE <1>0 DEF Goto, Call, Return, Stack, Activity, NotCalled, NotifyFrames, UpdateFrames,
        EnqueueFrames, InQuiesce, InNotify, InEnqueue, Leaving, Procedure
<1>1. CASE refresh_active_load(c)
    BY <1>1, SMTT(60) DEF refresh_active_load, rcu, activity
<1>2. CASE refresh_active_send(c)
    BY <1>2, SMTT(60) DEF refresh_active_send, rcu, activity
<1>3. CASE rcu_enqueue_finish(c)
    BY <1>3, SMTT(60) DEF rcu_enqueue_finish, activity
<1>4. CASE exit_check(c)
    BY <1>4, SMTT(60) DEF exit_check, Activate, activity
<1>5. CASE notify_nothing(c)
    BY <1>5, SMTT(60) DEF notify_nothing, rcu, activity
<1>6. CASE notify_update_first(c)
    BY <1>6, SMTT(60) DEF notify_update_first, rcu, activity
<1>7. CASE notify_advance(c)
    BY <1>7, SMTT(60) DEF notify_advance, rcu, activity
<1>8. CASE request_store_target(c)
    BY <1>8, SMTT(60) DEF request_store_target, rcu, activity
<1>9. CASE request_reload(c)
    BY <1>9, SMTT(60) DEF request_reload, rcu, activity
<1>10. CASE request_raise_max(c)
    BY <1>10, SMTT(60) DEF request_raise_max, rcu, activity
<1>11. CASE update_callback(c)
    BY <1>11, SMTT(60) DEF update_callback, rcu, activity
<1>12. CASE update_finish(c)
    BY <1>12, SMTT(60) DEF update_finish, rcu, activity
<1>13. CASE ipis_handled(c)
    BY <1>13, SMTT(60) DEF ipis_handled, rcu, activity
<1> QED
    BY <1>1, <1>2, <1>3, <1>4, <1>5, <1>6, <1>7, <1>8, <1>9, <1>10, <1>11, <1>12, <1>13,
        ZenonT(60) DEF Working

\* So do the steps that enter and leave the hypervisor or begin work there.
LEMMA ControlBegin ==
    ASSUME TypeOK, NEW c \in CPU, NEW d \in CPU, Stack(d), Activity(d),
           Begin(c) \/ rcu_read_finish(c) \/ maybe_deactivate_cpu(c) \/ ipi_wakeup(c)
    PROVE  Stack(d)' /\ Activity(d)'
<1>0. /\ pc \in [CPU -> Label] /\ ret \in [CPU -> [Procedure -> Label]]
      /\ is_active \in [CPU -> BOOLEAN] /\ active_cpus \subseteq CPU
    BY DEF TypeOK
<1> USE <1>0 DEF Goto, Call, Return, Stack, Activity, NotCalled, NotifyFrames, UpdateFrames,
        EnqueueFrames, InQuiesce, InNotify, InEnqueue, Leaving, Procedure
<1>1. CASE rcu_read_start(c)
    BY <1>1, SMTT(60) DEF rcu_read_start, rcu, activity
<1>2. CASE rcu_read_finish(c)
    BY <1>2, SMTT(60) DEF rcu_read_finish, rcu, activity
<1>3. CASE enter_hyp(c)
    BY <1>3, SMTT(60) DEF enter_hyp, Activate
<1>4. CASE ipi_wakeup(c)
    BY <1>4, SMTT(60) DEF ipi_wakeup, Activate
<1>5. CASE maybe_deactivate_cpu(c)
    BY <1>5, SMTT(60) DEF maybe_deactivate_cpu, Deactivate, activity
<1>6. CASE try_deactivate_cpu(c)
    BY <1>6, SMTT(60) DEF try_deactivate_cpu, Deactivate
<1>7. CASE power_cpu_offline(c)
    BY <1>7, SMTT(60) DEF power_cpu_offline, Deactivate
<1>8. CASE boot_cpu_warm_init(c)
    BY <1>8, SMTT(60) DEF boot_cpu_warm_init, Activate
<1>9. CASE scheduler_quiescent(c)
    BY <1>9, SMTT(60) DEF scheduler_quiescent, rcu, activity
<1>10. CASE take_ipis(c)
    BY <1>10, SMTT(60) DEF take_ipis, rcu, activity
<1>11. CASE rcu_expedite(c)
    BY <1>11, SMTT(60) DEF rcu_expedite, rcu, activity
<1>12. CASE expedite_give_up(c)
    BY <1>12, SMTT(60) DEF expedite_give_up, rcu, activity
<1>13. CASE \E e \in Entry : rcu_enqueue(c, e)
    BY <1>13, SMTT(60) DEF rcu_enqueue, activity
<1> QED
    BY <1>1, <1>2, <1>3, <1>4, <1>5, <1>6, <1>7, <1>8, <1>9, <1>10, <1>11, <1>12, <1>13,
        ZenonT(60) DEF Begin

\* Every step preserves the call structure, and the link between it and the
\* active set: only a core on its way out is inactive.
LEMMA ControlNext == TypeOK /\ ControlInv /\ [Next]_vars => ControlInv'
<1> SUFFICES ASSUME TypeOK, ControlInv, [Next]_vars, NEW d \in CPU
             PROVE  Stack(d)' /\ Activity(d)'
    BY ZenonT(60) DEF ControlInv
<1>0. Stack(d) /\ Activity(d)
    BY ZenonT(60) DEF ControlInv
<1>1. CASE UNCHANGED vars
    BY <1>0, <1>1, ZenonT(60) DEF vars, rcu, activity, Stack, Activity, NotCalled, NotifyFrames,
        UpdateFrames, EnqueueFrames
<1>2. ASSUME NEW c \in CPU, Continue(c) PROVE Stack(d)' /\ Activity(d)'
    BY <1>0, <1>2, ControlQuiesce, ControlWork, ZenonT(60) DEF Continue, Quiescing, Working
<1>3. ASSUME NEW c \in CPU, Begin(c) \/ rcu_read_finish(c) \/ maybe_deactivate_cpu(c) \/ ipi_wakeup(c)
      PROVE  Stack(d)' /\ Activity(d)'
    BY <1>0, <1>3, ControlBegin, ZenonT(60)
<1> QED
    BY <1>1, <1>2, <1>3, ZenonT(60) DEF Next

(***************************************************************************)
(* The batches of a core and what counts them.                             *)
(***************************************************************************)

\* What core c has queued was enqueued once; an entry in the middle of being
\* added is in no batch yet; ready_updates is set for a ready batch.
BatchInv(c) ==
    /\ ready_batch[c] \cup waiting_batch[c] \cup next_batch[c] \cup adding[c] \subseteq enqueued
    /\ adding[c] # {} => pc[c] \in InEnqueue
    /\ adding[c] \cap next_batch[c] = {}
    /\ ready_batch[c] # {} => ready_updates[c]

\* A step of rcu_expedite is not in the middle of adding an entry, and leaves
\* the batches alone.
LEMMA BatchExpedite ==
    ASSUME pc \in [CPU -> Label], NEW c \in CPU, expedite_step(c), NEW d \in CPU, BatchInv(d)
    PROVE  BatchInv(d)'
<1>1. pc[c] \in {"x_notify", "x_quiesce", "x_again", "x_update"}
    BY ExpediteLabels, ZenonT(60) DEF expedite_step
<1>2. \E l : pc' = [pc EXCEPT ![c] = l]
    BY ZenonT(60) DEF expedite_step, Dispatch, Goto, Call
<1>3. UNCHANGED <<ready_batch, waiting_batch, next_batch, adding, ready_updates, enqueued>>
    BY ZenonT(60) DEF expedite_step, rcu, queues, batches, work, rest, ghosts
<1>4. CASE d = c
    <2>1. adding[c] = {}
        BY <1>1, <1>4 DEF BatchInv, InEnqueue
    <2> QED
        BY <1>3, <1>4, <2>1, ZenonT(60) DEF BatchInv
<1>5. CASE d # c
    <2>1. pc'[d] = pc[d]
        BY <1>2, <1>5, ZenonT(60)
    <2> QED
        BY <1>3, <2>1, ZenonT(60) DEF BatchInv
<1> QED
    BY <1>4, <1>5

\* rcu_enqueue adds an entry no core has queued, to the next batch or, when it
\* must first refresh the active set, to what is being added.
LEMMA BatchEnqueue ==
    ASSUME pc \in [CPU -> Label], ready_updates \in [CPU -> BOOLEAN],
           next_batch \in [CPU -> SUBSET Entry], adding \in [CPU -> SUBSET Entry],
           NEW c \in CPU, NEW e \in Entry, rcu_enqueue(c, e), NEW d \in CPU, BatchInv(d)
    PROVE  BatchInv(d)'
<1>1. /\ pc[c] \notin InEnqueue /\ e \notin enqueued /\ enqueued' = enqueued \cup {e}
      /\ UNCHANGED <<ready_batch, waiting_batch, ready_updates>>
    BY ZenonT(60) DEF rcu_enqueue, InEnqueue
<1>2. \/ /\ pc' = [pc EXCEPT ![c] = "e_active"] /\ adding' = [adding EXCEPT ![c] = {e}]
         /\ UNCHANGED next_batch
      \/ /\ next_batch' = [next_batch EXCEPT ![c] = @ \cup {e}]
         /\ UNCHANGED <<pc, adding>>
    BY ZenonT(60) DEF rcu_enqueue, Insert, Call, Goto
<1>3. CASE d # c
    <2>1. pc'[d] = pc[d] /\ adding'[d] = adding[d] /\ next_batch'[d] = next_batch[d]
        BY <1>2, <1>3, ZenonT(60)
    <2> QED
        BY <1>1, <2>1, ZenonT(60) DEF BatchInv
<1>4. CASE d = c
    <2>1. adding[c] = {}
        BY <1>1, <1>4, ZenonT(60) DEF BatchInv
    <2>2. \/ pc'[c] \in InEnqueue /\ adding'[c] = {e} /\ next_batch'[c] = next_batch[c]
          \/ adding'[c] = {} /\ next_batch'[c] = next_batch[c] \cup {e}
        BY <1>2, <2>1, ZenonT(60) DEF InEnqueue
    <2>3. next_batch[c] \subseteq enqueued
        BY <1>4, ZenonT(60) DEF BatchInv
    <2>4. adding'[c] \cap next_batch'[c] = {}
        BY <1>1, <2>2, <2>3
    <2>5. ready_batch[c] \cup waiting_batch[c] \subseteq enqueued
        BY <1>4, ZenonT(60) DEF BatchInv
    <2>6. ready_batch'[c] \cup waiting_batch'[c] \cup next_batch'[c] \cup adding'[c] \subseteq enqueued'
        BY <1>1, <2>2, <2>3, <2>5
    <2>7. adding'[c] # {} => pc'[c] \in InEnqueue
        BY <2>2
    <2> QED
        BY <1>1, <1>4, <2>4, <2>6, <2>7, ZenonT(60) DEF BatchInv
<1> QED
    BY <1>3, <1>4
\* Every step preserves the structure of the batches; notify in particular
\* shifts them only when the ready batch is empty.
LEMMA BatchNext ==
    TypeOK /\ (\A c \in CPU : BatchInv(c)) /\ [Next]_vars => (\A c \in CPU : BatchInv(c)')
<1> SUFFICES ASSUME TypeOK, \A c \in CPU : BatchInv(c), [Next]_vars, NEW d \in CPU
             PROVE  BatchInv(d)'
    BY ZenonT(60)
<1>0. /\ pc \in [CPU -> Label] /\ ret \in [CPU -> [Procedure -> Label]]
      /\ ready_updates \in [CPU -> BOOLEAN]
      /\ ready_batch \in [CPU -> SUBSET Entry] /\ waiting_batch \in [CPU -> SUBSET Entry]
      /\ next_batch \in [CPU -> SUBSET Entry] /\ adding \in [CPU -> SUBSET Entry]
    BY DEF TypeOK
<1> USE <1>0 DEF Goto, Call, Return, BatchInv, InEnqueue, vars, rcu, queues, batches, work,
   rest, ghosts
<1>1. CASE UNCHANGED vars
    BY <1>1
<1>2. ASSUME NEW c \in CPU, rcu_read_start(c) PROVE BatchInv(d)'
    BY <1>2, ZenonT(60) DEF rcu_read_start
<1>3. ASSUME NEW c \in CPU, rcu_read_finish(c) PROVE BatchInv(d)'
    BY <1>3, ZenonT(60) DEF rcu_read_finish
<1>4. ASSUME NEW c \in CPU, refresh_active_load(c) PROVE BatchInv(d)'
    BY <1>4, ZenonT(60) DEF refresh_active_load
<1>5. ASSUME NEW c \in CPU, refresh_active_send(c) PROVE BatchInv(d)'
    BY <1>5, ZenonT(60) DEF refresh_active_send
<1>6. ASSUME NEW c \in CPU, rcu_enqueue_finish(c) PROVE BatchInv(d)'
    BY <1>6, SMTT(60) DEF rcu_enqueue_finish, Insert
<1>7. ASSUME NEW c \in CPU, enter_hyp(c) PROVE BatchInv(d)'
    BY <1>7, ZenonT(60) DEF enter_hyp
<1>8. ASSUME NEW c \in CPU, ipi_wakeup(c) PROVE BatchInv(d)'
    BY <1>8, ZenonT(60) DEF ipi_wakeup
<1>9. ASSUME NEW c \in CPU, maybe_deactivate_cpu(c) PROVE BatchInv(d)'
    BY <1>9, ZenonT(60) DEF maybe_deactivate_cpu, Deactivate
<1>10. ASSUME NEW c \in CPU, exit_check(c) PROVE BatchInv(d)'
    BY <1>10, ZenonT(60) DEF exit_check
<1>11. ASSUME NEW c \in CPU, try_deactivate_cpu(c) PROVE BatchInv(d)'
    BY <1>11, ZenonT(60) DEF try_deactivate_cpu, Deactivate
<1>12. ASSUME NEW c \in CPU, power_cpu_offline(c) PROVE BatchInv(d)'
    BY <1>12, ZenonT(60) DEF power_cpu_offline, Deactivate
<1>13. ASSUME NEW c \in CPU, boot_cpu_warm_init(c) PROVE BatchInv(d)'
    BY <1>13, ZenonT(60) DEF boot_cpu_warm_init
<1>14. ASSUME NEW c \in CPU, scheduler_quiescent(c) PROVE BatchInv(d)'
    BY <1>14, ZenonT(60) DEF scheduler_quiescent
<1>15. ASSUME NEW c \in CPU, quiesce_clear_ipi(c) PROVE BatchInv(d)'
    BY <1>15, SMTT(90) DEF quiesce_clear_ipi
<1>16. ASSUME NEW c \in CPU, quiesce_attempt(c) PROVE BatchInv(d)'
    BY <1>16, ZenonT(60) DEF quiesce_attempt
<1>17. ASSUME NEW c \in CPU, quiesce_publish(c) PROVE BatchInv(d)'
    BY <1>17, SMTT(60) DEF quiesce_publish
<1>18. ASSUME NEW c \in CPU, quiesce_find_raced(c) PROVE BatchInv(d)'
    BY <1>18, ZenonT(60) DEF quiesce_find_raced
<1>19. ASSUME NEW c \in CPU, quiesce_send(c) PROVE BatchInv(d)'
    BY <1>19, ZenonT(60) DEF quiesce_send
<1>20. ASSUME NEW c \in CPU, quiesce_finish(c) PROVE BatchInv(d)'
    BY <1>20, ZenonT(60) DEF quiesce_finish
<1>21. ASSUME NEW c \in CPU, quiesce_again(c) PROVE BatchInv(d)'
    BY <1>21, ZenonT(60) DEF quiesce_again
<1>22. ASSUME NEW c \in CPU, notify_nothing(c) PROVE BatchInv(d)'
    BY <1>22, ZenonT(60) DEF notify_nothing
<1>23. ASSUME NEW c \in CPU, notify_update_first(c) PROVE BatchInv(d)'
    BY <1>23, SMTT(90) DEF notify_update_first
<1>24. ASSUME NEW c \in CPU, notify_advance(c) PROVE BatchInv(d)'
    BY <1>24, ZenonT(60) DEF notify_advance, AdvanceBatches
<1>25. ASSUME NEW c \in CPU, request_store_target(c) PROVE BatchInv(d)'
    BY <1>25, ZenonT(60) DEF request_store_target
<1>26. ASSUME NEW c \in CPU, request_reload(c) PROVE BatchInv(d)'
    BY <1>26, ZenonT(60) DEF request_reload
<1>27. ASSUME NEW c \in CPU, request_raise_max(c) PROVE BatchInv(d)'
    BY <1>27, ZenonT(60) DEF request_raise_max
<1>28. ASSUME NEW c \in CPU, update_callback(c) PROVE BatchInv(d)'
    BY <1>28, SMTT(60) DEF update_callback
<1>29. ASSUME NEW c \in CPU, update_finish(c) PROVE BatchInv(d)'
    BY <1>29, ZenonT(60) DEF update_finish
<1>30. ASSUME NEW c \in CPU, take_ipis(c) PROVE BatchInv(d)'
    BY <1>30, ZenonT(60) DEF take_ipis
<1>31. ASSUME NEW c \in CPU, ipi_received(c) PROVE BatchInv(d)'
    BY <1>31, SMTT(60) DEF ipi_received, Dispatch
<1>32. ASSUME NEW c \in CPU, ipis_handled(c) PROVE BatchInv(d)'
    BY <1>32, ZenonT(60) DEF ipis_handled
<1>33. ASSUME NEW c \in CPU, rcu_expedite(c) PROVE BatchInv(d)'
    BY <1>33, ZenonT(60) DEF rcu_expedite
<1>34. ASSUME NEW c \in CPU, expedite_step(c) PROVE BatchInv(d)'
    <2> HIDE DEF BatchInv
    <2> QED
        BY <1>34, BatchExpedite, ZenonT(60)
<1>35. ASSUME NEW c \in CPU, expedite_give_up(c) PROVE BatchInv(d)'
    BY <1>35, ZenonT(60) DEF expedite_give_up
<1>36. ASSUME NEW c \in CPU, NEW e \in Entry, rcu_enqueue(c, e) PROVE BatchInv(d)'
    <2> HIDE DEF BatchInv
    <2> QED
        BY <1>36, BatchEnqueue, ZenonT(60)
<1> QED
     BY <1>1, <1>2, <1>3, <1>4, <1>5, <1>6, <1>7, <1>8, <1>9, <1>10, <1>11, <1>12, <1>13, <1>14,
       <1>15, <1>16, <1>17, <1>18, <1>19, <1>20, <1>21, <1>22, <1>23, <1>24, <1>25, <1>26,
       <1>27, <1>28, <1>29, <1>30, <1>31, <1>32, <1>33, <1>34, <1>35, <1>36, ZenonT(60) DEF Next, Continue,
       Begin

\* What update_count and waiter_count count.
counted == <<update_count, ready_batch, waiting_batch, next_batch, ran, adding>>

\* Only five actions touch the batches and their counts.
LEMMA CountedSteps ==
    ASSUME [Next]_vars
    PROVE  \/ UNCHANGED <<counted, waiter_count>>
           \/ \E c \in CPU :
                \/ \E e \in Entry : rcu_enqueue(c, e)
                \/ rcu_enqueue_finish(c) \/ notify_advance(c)
                \/ update_callback(c) \/ update_finish(c)
<1> USE DEF counted, vars, rcu, period, queues, batches, work, rest
<1>1. CASE UNCHANGED vars
    BY <1>1, ZenonT(60)
<1>2. ASSUME NEW c \in CPU, Continue(c) 
      PROVE  \/ UNCHANGED <<counted, waiter_count>>
             \/ rcu_enqueue_finish(c) \/ notify_advance(c)
             \/ update_callback(c) \/ update_finish(c)
    BY <1>2, ZenonT(60) DEF Continue, refresh_active_load, refresh_active_send, exit_check, quiesce_clear_ipi,
        quiesce_attempt, quiesce_publish, quiesce_find_raced, quiesce_send, quiesce_finish,
        quiesce_again, notify_nothing, notify_update_first, request_store_target,
        request_reload, request_raise_max, ipi_received, ipis_handled, expedite_step
<1>3. ASSUME NEW c \in CPU, Begin(c) \/ rcu_read_finish(c) \/ maybe_deactivate_cpu(c) \/
   ipi_wakeup(c)
      PROVE  UNCHANGED <<counted, waiter_count>> \/ \E e \in Entry : rcu_enqueue(c, e)
    BY <1>3, ZenonT(60) DEF Begin, rcu_read_start, rcu_read_finish, enter_hyp, try_deactivate_cpu,
        maybe_deactivate_cpu, ipi_wakeup, power_cpu_offline, boot_cpu_warm_init,
        scheduler_quiescent, take_ipis, rcu_expedite, expedite_give_up
<1> QED
    BY <1>1, <1>2, <1>3, ZenonT(60) DEF Next

\* update_count stays exact: what a step adds to or takes from the batches it
\* adds to or takes from the count.
LEMMA CountNext ==
    ASSUME TypeOK, \A c \in CPU : BatchInv(c), BatchesFinite, UpdateCountExact, [Next]_vars
    PROVE  BatchesFinite' /\ UpdateCountExact'
<1> SUFFICES ASSUME NEW d \in CPU
             PROVE  /\ IsFiniteSet(ready_batch'[d]) /\ IsFiniteSet(waiting_batch'[d])
                    /\ IsFiniteSet(next_batch'[d]) /\ IsFiniteSet(adding'[d])
                     /\ update_count'[d] = Cardinality(ready_batch'[d]) +
                       Cardinality(waiting_batch'[d])
                                            + Cardinality(next_batch'[d]) + ran'[d]
                                            + Cardinality(adding'[d])
    BY ZenonT(60) DEF BatchesFinite, UpdateCountExact
<1>0. /\ update_count \in [CPU -> Nat] /\ ran \in [CPU -> Nat]
      /\ ready_batch \in [CPU -> SUBSET Entry] /\ waiting_batch \in [CPU -> SUBSET Entry]
      /\ next_batch \in [CPU -> SUBSET Entry] /\ adding \in [CPU -> SUBSET Entry]
    BY ZenonT(60) DEF TypeOK
<1>1. /\ IsFiniteSet(ready_batch[d]) /\ IsFiniteSet(waiting_batch[d])
      /\ IsFiniteSet(next_batch[d]) /\ IsFiniteSet(adding[d])
      /\ Cardinality(ready_batch[d]) \in Nat /\ Cardinality(waiting_batch[d]) \in Nat
      /\ Cardinality(next_batch[d]) \in Nat /\ Cardinality(adding[d]) \in Nat
      /\ update_count[d] = Cardinality(ready_batch[d]) + Cardinality(waiting_batch[d])
                             + Cardinality(next_batch[d]) + ran[d] + Cardinality(adding[d])
    BY FS_CardinalityType, ZenonT(60) DEF BatchesFinite, UpdateCountExact
<1> DEFINE r == Cardinality(ready_batch[d])
           w == Cardinality(waiting_batch[d])
           n == Cardinality(next_batch[d])
           a == Cardinality(adding[d])
<1>R. /\ r + w + n + ran[d] + a = r + w + (n + a) + ran[d] + 0
      /\ 0 + w + n + ran[d] + a = w + n + 0 + ran[d] + a
      /\ r + w + n + ran[d] + a = (r - 1) + w + n + (ran[d] + 1) + a
      /\ (r + w + n + ran[d] + a) - ran[d] = r + w + n + 0 + a
      /\ n + a - 0 = n + a
      /\ n + 1 + 0 = n + 1
    <2>1. ran[d] \in Nat
        BY <1>0, ZenonT(60)
    <2>2. r \in Nat /\ w \in Nat /\ n \in Nat /\ a \in Nat
        BY <1>1, ZenonT(60)
    <2> DEFINE k == ran[d]
    <2>3. k \in Nat
        BY <2>1
    <2> HIDE DEF r, w, n, a, k
    <2>4. /\ r + w + n + k + a = r + w + (n + a) + k + 0
          /\ 0 + w + n + k + a = w + n + 0 + k + a
          /\ r + w + n + k + a = (r - 1) + w + n + (k + 1) + a
          /\ (r + w + n + k + a) - k = r + w + n + 0 + a
          /\ n + a - 0 = n + a
          /\ n + 1 + 0 = n + 1
        BY ONLY <2>2, <2>3, SMTT(60)
    <2> QED
        BY <2>4, ZenonT(60) DEF k
<1>2. IsFiniteSet({}) /\ Cardinality({}) = 0
    BY FS_EmptySet, ZenonT(60)
<1>3. BatchInv(d)
    BY ZenonT(60)
<1>4. CASE UNCHANGED counted
    BY <1>1, <1>4, ZenonT(60) DEF counted
<1>5. ASSUME NEW c \in CPU, c # d, 
             \/ \E e \in Entry : rcu_enqueue(c, e)
             \/ rcu_enqueue_finish(c) \/ notify_advance(c)
             \/ update_callback(c) \/ update_finish(c)
      PROVE  /\ ready_batch'[d] = ready_batch[d] /\ waiting_batch'[d] = waiting_batch[d]
             /\ next_batch'[d] = next_batch[d] /\ adding'[d] = adding[d]
             /\ ran'[d] = ran[d] /\ update_count'[d] = update_count[d]
     BY <1>0, <1>5, ZenonT(60) DEF rcu_enqueue, rcu_enqueue_finish, notify_advance, update_callback,
       update_finish,
        Insert, AdvanceBatches, batches, rest, work
<1>6. ASSUME NEW e \in Entry, rcu_enqueue(d, e)
      PROVE  /\ UNCHANGED <<ready_batch, waiting_batch, ran>>
             /\ update_count'[d] = update_count[d] + 1
             /\ adding[d] = {}
             /\ \/ next_batch'[d] = next_batch[d] \cup {e} /\ adding'[d] = adding[d]
                \/ next_batch'[d] = next_batch[d] /\ adding'[d] = {e}
             /\ e \notin next_batch[d]
    BY <1>0, <1>3, <1>6, ZenonT(60) DEF rcu_enqueue, Insert, BatchInv, InEnqueue
<1>7. ASSUME NEW e \in Entry, rcu_enqueue(d, e)
      PROVE  /\ IsFiniteSet({e}) /\ Cardinality({e}) = 1
             /\ IsFiniteSet(next_batch[d] \cup {e})
             /\ Cardinality(next_batch[d] \cup {e}) = Cardinality(next_batch[d]) + 1
    BY <1>1, <1>2, <1>6, <1>7, FS_AddElement, FS_Singleton, ZenonT(60)
<1>8. CASE rcu_enqueue_finish(d)
    <2>1. /\ UNCHANGED <<ready_batch, waiting_batch, ran, update_count>>
          /\ next_batch'[d] = next_batch[d] \cup adding[d] /\ adding'[d] = {}
        BY <1>0, <1>8, ZenonT(60) DEF rcu_enqueue_finish, Insert
    <2>2. next_batch[d] \cap adding[d] = {}
        BY <1>3, ZenonT(60) DEF BatchInv
    <2>3. /\ IsFiniteSet(next_batch[d] \cup adding[d])
          /\ Cardinality(next_batch[d] \cup adding[d])
               = Cardinality(next_batch[d]) + Cardinality(adding[d])
        <3>1. Cardinality(next_batch[d] \cap adding[d]) = 0
            BY <1>2, <2>2, ZenonT(60)
        <3>2. /\ IsFiniteSet(next_batch[d] \cup adding[d])
              /\ Cardinality(next_batch[d] \cup adding[d])
                   = Cardinality(next_batch[d]) + Cardinality(adding[d])
                       - Cardinality(next_batch[d] \cap adding[d])
            BY <1>1, FS_Union, ZenonT(60)
        <3> QED
            BY <1>R, <3>1, <3>2, ZenonT(60)
    <2>4. /\ IsFiniteSet(ready_batch'[d]) /\ IsFiniteSet(waiting_batch'[d])
          /\ IsFiniteSet(next_batch'[d]) /\ IsFiniteSet(adding'[d])
          /\ Cardinality(ready_batch'[d]) = Cardinality(ready_batch[d])
          /\ Cardinality(waiting_batch'[d]) = Cardinality(waiting_batch[d])
          /\ Cardinality(next_batch'[d]) = Cardinality(next_batch[d]) + Cardinality(adding[d])
          /\ Cardinality(adding'[d]) = 0 /\ ran'[d] = ran[d] /\ update_count'[d] = update_count[d]
        BY <1>1, <1>2, <2>1, <2>3, ZenonT(60)
    <2> QED
        BY <1>1, <1>R, <2>4, ZenonT(60)
<1>9. CASE notify_advance(d)
    <2>1. /\ UNCHANGED <<ran, update_count, adding>> /\ ready_batch[d] = {}
          /\ next_batch'[d] = {} /\ waiting_batch'[d] = next_batch[d]
          /\ ready_batch'[d] = waiting_batch[d]
        BY <1>0, <1>3, <1>9, ZenonT(60) DEF notify_advance, AdvanceBatches, BatchInv, work, rest
    <2>2. /\ IsFiniteSet(ready_batch'[d]) /\ IsFiniteSet(waiting_batch'[d])
          /\ IsFiniteSet(next_batch'[d]) /\ IsFiniteSet(adding'[d])
          /\ Cardinality(ready_batch[d]) = 0
          /\ Cardinality(ready_batch'[d]) = Cardinality(waiting_batch[d])
          /\ Cardinality(waiting_batch'[d]) = Cardinality(next_batch[d])
          /\ Cardinality(next_batch'[d]) = 0 /\ Cardinality(adding'[d]) = Cardinality(adding[d])
          /\ ran'[d] = ran[d] /\ update_count'[d] = update_count[d]
        BY <1>1, <1>2, <2>1, ZenonT(60)
    <2> QED
        BY <1>1, <1>R, <2>2, ZenonT(60)
<1>10. CASE update_callback(d)
    <2>1. PICK e \in ready_batch[d] : ready_batch' = [ready_batch EXCEPT ![d] = @ \ {e}]
        BY <1>10, ZenonT(60) DEF update_callback
    <2>2. /\ UNCHANGED <<waiting_batch, next_batch, update_count, adding>>
          /\ ready_batch'[d] = ready_batch[d] \ {e} /\ ran'[d] = ran[d] + 1
        BY <1>0, <1>10, <2>1, ZenonT(60) DEF update_callback
    <2>3. /\ IsFiniteSet(ready_batch[d] \ {e})
          /\ Cardinality(ready_batch[d] \ {e}) = Cardinality(ready_batch[d]) - 1
        BY <1>1, <2>1, FS_RemoveElement, ZenonT(60)
    <2>4. /\ IsFiniteSet(ready_batch'[d]) /\ IsFiniteSet(waiting_batch'[d])
          /\ IsFiniteSet(next_batch'[d]) /\ IsFiniteSet(adding'[d])
          /\ Cardinality(ready_batch'[d]) = Cardinality(ready_batch[d]) - 1
          /\ Cardinality(waiting_batch'[d]) = Cardinality(waiting_batch[d])
          /\ Cardinality(next_batch'[d]) = Cardinality(next_batch[d])
          /\ Cardinality(adding'[d]) = Cardinality(adding[d])
          /\ ran'[d] = ran[d] + 1 /\ update_count'[d] = update_count[d]
        BY <1>1, <2>2, <2>3, ZenonT(60)
    <2> QED
        BY <1>1, <1>R, <2>4, ZenonT(60)
<1>11. CASE update_finish(d)
    <2>1. /\ UNCHANGED <<ready_batch, waiting_batch, next_batch, adding>>
          /\ ready_batch[d] = {} /\ ran'[d] = 0 /\ update_count'[d] = update_count[d] - ran[d]
        BY <1>0, <1>11, ZenonT(60) DEF update_finish, UpdatesLeft, batches
    <2>2. Cardinality(ready_batch[d]) = 0
        BY <1>2, <2>1, ZenonT(60)
    <2>3. /\ ready_batch'[d] = ready_batch[d] /\ waiting_batch'[d] = waiting_batch[d]
          /\ next_batch'[d] = next_batch[d] /\ adding'[d] = adding[d]
        BY <2>1, ZenonT(60)
    <2>4. update_count'[d] = (r + w + n + ran[d] + a) - ran[d]
        BY <1>1, <2>1, ZenonT(60)
    <2> QED
        BY <1>1, <1>R, <2>1, <2>3, <2>4, ZenonT(60)
<1>12. ASSUME NEW e \in Entry, rcu_enqueue(d, e)
       PROVE  /\ IsFiniteSet(ready_batch'[d]) /\ IsFiniteSet(waiting_batch'[d])
              /\ IsFiniteSet(next_batch'[d]) /\ IsFiniteSet(adding'[d])
              /\ update_count'[d] = Cardinality(ready_batch'[d]) + Cardinality(waiting_batch'[d])
                                      + Cardinality(next_batch'[d]) + ran'[d]
                                      + Cardinality(adding'[d])
    <2>1. Cardinality(adding[d]) = 0
        BY <1>2, <1>6, <1>12, ZenonT(60)
    <2>2. /\ ready_batch'[d] = ready_batch[d] /\ waiting_batch'[d] = waiting_batch[d]
          /\ ran'[d] = ran[d] /\ update_count'[d] = update_count[d] + 1
        BY <1>6, <1>12, ZenonT(60)
    <2>3. /\ IsFiniteSet(next_batch'[d]) /\ IsFiniteSet(adding'[d])
          /\ Cardinality(next_batch'[d]) + Cardinality(adding'[d]) = Cardinality(next_batch[d]) + 1
        <3>0. \/ next_batch'[d] = next_batch[d] \cup {e} /\ adding'[d] = adding[d]
              \/ next_batch'[d] = next_batch[d] /\ adding'[d] = {e}
            BY <1>6, <1>12, ZenonT(60)
        <3>1. CASE next_batch'[d] = next_batch[d] \cup {e} /\ adding'[d] = adding[d]
            <4>1. /\ IsFiniteSet(next_batch'[d]) /\ IsFiniteSet(adding'[d])
                  /\ Cardinality(next_batch'[d]) = Cardinality(next_batch[d]) + 1
                  /\ Cardinality(adding'[d]) = 0
                BY <1>1, <1>7, <1>12, <2>1, <3>1, ZenonT(60)
            <4> QED
                BY <1>R, <4>1, ZenonT(60)
        <3>2. CASE next_batch'[d] = next_batch[d] /\ adding'[d] = {e}
            BY <1>1, <1>7, <1>12, <3>2, ZenonT(60)
        <3> QED
            BY <3>0, <3>1, <3>2, ZenonT(60)
    <2>4. Cardinality(next_batch'[d]) \in Nat /\ Cardinality(adding'[d]) \in Nat
        BY <2>3, FS_CardinalityType, ZenonT(60)
    <2>5. /\ IsFiniteSet(ready_batch'[d]) /\ IsFiniteSet(waiting_batch'[d])
          /\ IsFiniteSet(next_batch'[d]) /\ IsFiniteSet(adding'[d])
          /\ Cardinality(ready_batch'[d]) = Cardinality(ready_batch[d])
          /\ Cardinality(waiting_batch'[d]) = Cardinality(waiting_batch[d])
        BY <1>1, <2>2, <2>3, ZenonT(60)
    <2>6. /\ r \in Nat /\ w \in Nat /\ n \in Nat /\ ran[d] \in Nat
          /\ update_count[d] = r + w + n + ran[d] + 0
        BY <1>0, <1>1, <2>1, ZenonT(60)
    <2>7. (r + w + n + ran[d] + 0) + 1
            = r + w + Cardinality(next_batch'[d]) + ran[d] + Cardinality(adding'[d])
        <3> DEFINE k == ran[d]
                   m == Cardinality(next_batch'[d])
                   b == Cardinality(adding'[d])
        <3>1. /\ r \in Nat /\ w \in Nat /\ n \in Nat /\ k \in Nat /\ m \in Nat /\ b \in Nat
              /\ m + b = n + 1
            BY <2>3, <2>4, <2>6, ZenonT(60)
        <3> HIDE DEF r, w, n, k, m, b
        <3>2. (r + w + n + k + 0) + 1 = r + w + m + k + b
            BY ONLY <3>1, SMTT(60)
        <3> QED
            BY <3>2, ZenonT(60) DEF k, m, b
    <2>8. update_count'[d] = r + w + Cardinality(next_batch'[d]) + ran[d] + Cardinality(adding'[d])
        BY <2>2, <2>6, <2>7, ZenonT(60)
    <2> QED
        BY <2>2, <2>5, <2>8, ZenonT(60)
<1> QED
    BY CountedSteps, <1>1, <1>4, <1>5, <1>8, <1>9, <1>10, <1>11, <1>12, ZenonT(60)

\* waiter_count stays the number of cores with updates.
LEMMA WaiterNext ==
    ASSUME TypeOK, BatchesFinite, UpdateCountExact, WaiterCountExact, [Next]_vars
    PROVE  WaiterCountExact'
<1> DEFINE W == {d \in CPU : update_count[d] > 0}
<1>0. /\ update_count \in [CPU -> Nat] /\ ran \in [CPU -> Nat] /\ waiter_count = Cardinality(W)
    BY ZenonT(60) DEF TypeOK, WaiterCountExact
<1>1. IsFiniteSet(W) /\ Cardinality(W) \in Nat
    BY CpuAssumption, FS_Subset, FS_CardinalityType, ZenonT(60)
<1>2. CASE UNCHANGED <<counted, waiter_count>>
    BY <1>0, <1>2, ZenonT(60) DEF counted, WaiterCountExact
<1>3. ASSUME NEW c \in CPU, NEW e \in Entry, rcu_enqueue(c, e)
      PROVE  WaiterCountExact'
    <2>0. /\ update_count' = [update_count EXCEPT ![c] = @ + 1]
          /\ waiter_count' = IF update_count[c] = 0 THEN waiter_count + 1 ELSE waiter_count
        BY <1>3, ZenonT(60) DEF rcu_enqueue
    <2>1. W' = W \cup {c}
        BY <1>0, <2>0, SMTT(60)
    <2>2. waiter_count' = IF c \in W THEN waiter_count ELSE waiter_count + 1
        BY <1>0, <2>0, SMTT(60)
    <2>3. Cardinality(W \cup {c}) = IF c \in W THEN Cardinality(W) ELSE Cardinality(W) + 1
        BY <1>1, FS_AddElement, ZenonT(60)
    <2> QED
        BY <1>0, <2>1, <2>2, <2>3, ZenonT(60) DEF WaiterCountExact
<1>4. ASSUME NEW c \in CPU, update_finish(c)
      PROVE  WaiterCountExact'
    <2>1. update_count[c] >= ran[c]
        BY UpdateCountBound, ZenonT(60)
    <2>2. update_count' = [update_count EXCEPT ![c] = update_count[c] - ran[c]]
        BY <1>4, ZenonT(60) DEF update_finish, UpdatesLeft
    <2>3. CASE NoLongerWaiter(c)
        <3>0. waiter_count' = waiter_count - 1 /\ ran[c] # 0 /\ update_count[c] = ran[c]
            BY <1>4, <2>3, ZenonT(60) DEF update_finish, NoLongerWaiter
        <3>3. update_count'[c] = 0 /\ update_count[c] > 0
            BY <1>0, <2>2, <3>0, SMTT(60)
        <3>1. c \in W /\ W' = W \ {c}
            BY <1>0, <2>2, <3>3, SMTT(60)
        <3>2. Cardinality(W \ {c}) = Cardinality(W) - 1
            BY <1>1, <3>1, FS_RemoveElement, ZenonT(60)
        <3> QED
            BY <1>0, <3>0, <3>1, <3>2, ZenonT(60) DEF WaiterCountExact
    <2>4. CASE ~NoLongerWaiter(c)
        <3>0. waiter_count' = waiter_count /\ (ran[c] = 0 \/ update_count[c] # ran[c])
            BY <1>4, <2>4, ZenonT(60) DEF update_finish, NoLongerWaiter
        <3>2. update_count'[c] > 0 <=> update_count[c] > 0
            BY <1>0, <2>1, <2>2, <3>0, SMTT(60)
        <3>1. W' = W /\ waiter_count' = waiter_count
            BY <1>0, <2>2, <3>0, <3>2, SMTT(60)
        <3> QED
            BY <1>0, <3>1, ZenonT(60) DEF WaiterCountExact
    <2> QED BY <2>3, <2>4, ZenonT(60)
<1>5. ASSUME NEW c \in CPU, rcu_enqueue_finish(c) \/ notify_advance(c) \/ update_callback(c)
      PROVE  WaiterCountExact'
    BY <1>0, <1>5, ZenonT(60) DEF rcu_enqueue_finish, notify_advance, update_callback, period, WaiterCountExact
<1> QED
    BY CountedSteps, <1>2, <1>3, <1>4, <1>5, ZenonT(60)
=============================================================================
