-------------------------- MODULE RcuBitmapProofs --------------------------
(***************************************************************************)
(* Invariants of RcuBitmap for every set of cores and entries.             *)
(*                                                                         *)
(* The inductive invariant is the conjunction IInv at the end: types, the  *)
(* call structure of a core and when it is active (ControlInv), what a     *)
(* core's batches hold (BatchInv), the two counts, the signalling of ready *)
(* batches, and the state of cores that go offline.                        *)
(***************************************************************************)
EXTENDS RcuBitmapControl

(***************************************************************************)
(* A ready batch is signalled; a core that goes offline has no updates.    *)
(***************************************************************************)

\* The update IPI of a ready batch is pending, taken or being handled, and a
\* reason that was taken is not dropped.
Signalled(c) ==
    /\ ready_batch[c] # {} =>
         "update" \in pending[c] \cup taken[c] \/ pc[c] = "u_run" \/ ret[c]["enqueue"] = "u_run"
    /\ taken[c] # {} =>
         pc[c] = "handle" \/ \E p \in {"quiesce", "notify", "update"} : ret[c][p] = "handle"

\* A core that is off, or about to be, has no updates.
Drained(c) == pc[c] = "off" \/ ret[c]["quiesce"] = "off" => update_count[c] = 0

\* What the call structure says of the return labels: a procedure is called
\* only when it is not active, and only quiesce can return to "off".
LEMMA CallFrames ==
    ASSUME ControlInv, NEW c \in CPU
    PROVE  /\ pc[c] \in {"hyp", "read", "handle", "exit_check", "out", "off",
                         "x_notify", "x_quiesce", "x_again", "x_update"}
                => \A p \in Procedure : ret[c][p] = "hyp"
           /\ pc[c] = "q_ipis" => ret[c]["notify"] = "hyp"
           /\ pc[c] = "notify" => ret[c]["update"] = "hyp"
           /\ pc[c] = "u_run" => ret[c]["enqueue"] = "hyp" /\ ret[c]["quiesce"] # "off"
           /\ ret[c]["enqueue"] \notin {"off", "handle"}
           /\ ret[c]["notify"] # "off" /\ ret[c]["update"] # "off"
<1>1. Stack(c)
    BY ZenonT(60) DEF ControlInv
<1> QED
    BY <1>1, ZenonT(60) DEF Stack, NotCalled, NotifyFrames, UpdateFrames, EnqueueFrames, InQuiesce,
        InNotify, InEnqueue, Leaving, Procedure

\* Every step preserves the signalling of ready batches.
LEMMA SignalNext ==
    ASSUME TypeOK, ControlInv, \A c \in CPU : BatchInv(c), \A c \in CPU : Signalled(c), [Next]_vars
    PROVE  \A c \in CPU : Signalled(c)'
<1> SUFFICES ASSUME NEW d \in CPU PROVE Signalled(d)'
    BY ZenonT(60)
<1>0. /\ pc \in [CPU -> Label] /\ ret \in [CPU -> [Procedure -> Label]]
      /\ pending \in [CPU -> SUBSET Reason] /\ taken \in [CPU -> SUBSET Reason]
      /\ ready_batch \in [CPU -> SUBSET Entry]
      /\ Signalled(d) /\ (ready_batch[d] # {} => ready_updates[d])
    BY DEF TypeOK, BatchInv
<1>F. /\ pc[d] \in {"hyp", "read", "handle", "exit_check", "out", "off",
                    "x_notify", "x_quiesce", "x_again", "x_update"}
           => \A p \in Procedure : ret[d][p] = "hyp"
      /\ pc[d] = "q_ipis" => ret[d]["notify"] = "hyp"
      /\ pc[d] = "notify" => ret[d]["update"] = "hyp"
      /\ pc[d] = "u_run" => ret[d]["enqueue"] = "hyp"
      /\ ret[d]["enqueue"] # "handle"
    BY CallFrames, ZenonT(60)
<1> USE <1>0, <1>F DEF Goto, Call, Return, Raise, Clear, Signalled, Procedure, vars, rcu, queues,
        batches, work
<1>1. CASE UNCHANGED vars
    BY <1>1, ZenonT(60)
<1>2. ASSUME NEW c \in CPU, rcu_read_start(c) PROVE Signalled(d)'
    BY <1>2, ZenonT(60) DEF rcu_read_start
<1>3. ASSUME NEW c \in CPU, rcu_read_finish(c) PROVE Signalled(d)'
    BY <1>3, ZenonT(60) DEF rcu_read_finish
<1>4. ASSUME NEW c \in CPU, refresh_active_load(c) PROVE Signalled(d)'
    BY <1>4, ZenonT(60) DEF refresh_active_load
<1>5. ASSUME NEW c \in CPU, refresh_active_send(c) PROVE Signalled(d)'
    BY <1>5, SMTT(60) DEF refresh_active_send
<1>6. ASSUME NEW c \in CPU, rcu_enqueue_finish(c) PROVE Signalled(d)'
    BY <1>6, SMTT(60) DEF rcu_enqueue_finish, Insert
<1>7. ASSUME NEW c \in CPU, enter_hyp(c) PROVE Signalled(d)'
    BY <1>7, ZenonT(60) DEF enter_hyp
<1>8. ASSUME NEW c \in CPU, ipi_wakeup(c) PROVE Signalled(d)'
    BY <1>8, ZenonT(60) DEF ipi_wakeup
<1>9. ASSUME NEW c \in CPU, maybe_deactivate_cpu(c) PROVE Signalled(d)'
    BY <1>9, SMTT(60) DEF maybe_deactivate_cpu, Deactivate
<1>10. ASSUME NEW c \in CPU, exit_check(c) PROVE Signalled(d)'
    BY <1>10, SMTT(60) DEF exit_check
<1>11. ASSUME NEW c \in CPU, try_deactivate_cpu(c) PROVE Signalled(d)'
    BY <1>11, ZenonT(60) DEF try_deactivate_cpu, Deactivate
<1>12. ASSUME NEW c \in CPU, power_cpu_offline(c) PROVE Signalled(d)'
    BY <1>12, SMTT(60) DEF power_cpu_offline, Deactivate
<1>13. ASSUME NEW c \in CPU, boot_cpu_warm_init(c) PROVE Signalled(d)'
    BY <1>13, SMTT(60) DEF boot_cpu_warm_init
<1>14. ASSUME NEW c \in CPU, scheduler_quiescent(c) PROVE Signalled(d)'
    BY <1>14, ZenonT(60) DEF scheduler_quiescent
<1>15. ASSUME NEW c \in CPU, quiesce_clear_ipi(c) PROVE Signalled(d)'
    BY <1>15, SMTT(60) DEF quiesce_clear_ipi
<1>16. ASSUME NEW c \in CPU, quiesce_attempt(c) PROVE Signalled(d)'
    <2>1. /\ pc[c] = "quiesce" /\ UNCHANGED <<ready_batch, taken, pending>>
          /\ Return(c, "quiesce") \/ (Goto(c, "q_cas") /\ UNCHANGED ret)
        BY <1>16, ZenonT(60) DEF quiesce_attempt
    <2> QED
        BY <2>1, SMTT(60)
<1>17. ASSUME NEW c \in CPU, quiesce_publish(c) PROVE Signalled(d)'
    BY <1>17, SMTT(60) DEF quiesce_publish
<1>18. ASSUME NEW c \in CPU, quiesce_find_raced(c) PROVE Signalled(d)'
    BY <1>18, SMTT(60) DEF quiesce_find_raced
<1>19. ASSUME NEW c \in CPU, quiesce_send(c) PROVE Signalled(d)'
    BY <1>19, SMTT(60) DEF quiesce_send
<1>20. ASSUME NEW c \in CPU, quiesce_finish(c) PROVE Signalled(d)'
    <2>1. /\ pc[c] = "q_ipis" /\ UNCHANGED <<ready_batch, taken>>
          /\ \/ Call(c, "notify", "notify", "q_again") /\ UNCHANGED pending
             \/ /\ Return(c, "quiesce")
                /\ pending' = [pending EXCEPT ![c] = @ \cup IF update_count[c] # 0 THEN {"notify"} ELSE {}]
        BY <1>20, ZenonT(60) DEF quiesce_finish
    <2>2. CASE Call(c, "notify", "notify", "q_again") /\ UNCHANGED pending
        BY <2>1, <2>2, SMTT(60)
    <2>3. CASE /\ Return(c, "quiesce")
               /\ pending' = [pending EXCEPT ![c] = @ \cup IF update_count[c] # 0 THEN {"notify"} ELSE {}]
        BY <2>1, <2>3, SMTT(60)
    <2> QED
        BY <2>1, <2>2, <2>3
<1>21. ASSUME NEW c \in CPU, quiesce_again(c) PROVE Signalled(d)'
    BY <1>21, SMTT(60) DEF quiesce_again
<1>22. ASSUME NEW c \in CPU, notify_nothing(c) PROVE Signalled(d)'
    BY <1>22, SMTT(60) DEF notify_nothing
<1>23. ASSUME NEW c \in CPU, notify_update_first(c) PROVE Signalled(d)'
    BY <1>23, SMTT(60) DEF notify_update_first
<1>24. ASSUME NEW c \in CPU, notify_advance(c) PROVE Signalled(d)'
    BY <1>24, SMTT(60) DEF notify_advance, AdvanceBatches
<1>25. ASSUME NEW c \in CPU, request_store_target(c) PROVE Signalled(d)'
    BY <1>25, SMTT(60) DEF request_store_target
<1>26. ASSUME NEW c \in CPU, request_reload(c) PROVE Signalled(d)'
    BY <1>26, SMTT(60) DEF request_reload
<1>27. ASSUME NEW c \in CPU, request_raise_max(c) PROVE Signalled(d)'
    BY <1>27, SMTT(60) DEF request_raise_max
<1>28. ASSUME NEW c \in CPU, update_callback(c) PROVE Signalled(d)'
    BY <1>28, ZenonT(60) DEF update_callback
<1>29. ASSUME NEW c \in CPU, update_finish(c) PROVE Signalled(d)'
    BY <1>29, SMTT(60) DEF update_finish
<1>30. ASSUME NEW c \in CPU, take_ipis(c) PROVE Signalled(d)'
    BY <1>30, SMTT(60) DEF take_ipis
<1>31. ASSUME NEW c \in CPU, ipi_received(c) PROVE Signalled(d)'
    BY <1>31, SMTT(60) DEF ipi_received, Dispatch
<1>32. ASSUME NEW c \in CPU, ipis_handled(c) PROVE Signalled(d)'
    BY <1>32, SMTT(60) DEF ipis_handled
<1>33. ASSUME NEW c \in CPU, rcu_expedite(c) PROVE Signalled(d)'
    BY <1>33, SMTT(60) DEF rcu_expedite
<1>34. ASSUME NEW c \in CPU, expedite_step(c) PROVE Signalled(d)'
    BY <1>34, SMTT(60) DEF expedite_step, Dispatch, ExpediteReason, ExpediteNext
<1>35. ASSUME NEW c \in CPU, expedite_give_up(c) PROVE Signalled(d)'
    BY <1>35, SMTT(60) DEF expedite_give_up
<1>36. ASSUME NEW c \in CPU, NEW e \in Entry, rcu_enqueue(c, e) PROVE Signalled(d)'
    BY <1>36, SMTT(90) DEF rcu_enqueue, Insert
<1> QED
     BY <1>1, <1>2, <1>3, <1>4, <1>5, <1>6, <1>7, <1>8, <1>9, <1>10, <1>11, <1>12, <1>13, <1>14,
       <1>15, <1>16, <1>17, <1>18, <1>19, <1>20, <1>21, <1>22, <1>23, <1>24, <1>25, <1>26,
       <1>27, <1>28, <1>29, <1>30, <1>31, <1>32, <1>33, <1>34, <1>35, <1>36, ZenonT(60) DEF Next, Continue,
       Begin

\* A core that goes offline has no updates and gets none until it is back.
LEMMA DrainedNext ==
    ASSUME TypeOK, ControlInv, BatchesFinite, UpdateCountExact, WaiterCountExact,
           \A c \in CPU : Drained(c), [Next]_vars
    PROVE  \A c \in CPU : Drained(c)'
<1> SUFFICES ASSUME NEW d \in CPU PROVE Drained(d)'
    BY ZenonT(60)
<1>0. /\ pc \in [CPU -> Label] /\ ret \in [CPU -> [Procedure -> Label]]
      /\ update_count \in [CPU -> Nat] /\ ran \in [CPU -> Nat] /\ waiter_count \in Nat
      /\ Drained(d)
      /\ update_count[d] # 0 => waiter_count > 0
      /\ update_count[d] >= ran[d]
    BY WaiterCountPositive, UpdateCountBound, ZenonT(60) DEF TypeOK
<1>F. /\ pc[d] \in {"hyp", "read", "u_run"} => ret[d]["quiesce"] # "off"
      /\ ret[d]["enqueue"] # "off" /\ ret[d]["notify"] # "off" /\ ret[d]["update"] # "off"
    BY CallFrames, ZenonT(60) DEF Procedure
<1> USE <1>0, <1>F DEF Goto, Call, Return, Drained, Procedure, vars, rcu, queues
<1>1. CASE UNCHANGED vars
    BY <1>1, ZenonT(60)
<1>2. ASSUME NEW c \in CPU, rcu_read_start(c) PROVE Drained(d)'
    BY <1>2, ZenonT(60) DEF rcu_read_start
<1>3. ASSUME NEW c \in CPU, rcu_read_finish(c) PROVE Drained(d)'
    BY <1>3, ZenonT(60) DEF rcu_read_finish
<1>4. ASSUME NEW c \in CPU, refresh_active_load(c) PROVE Drained(d)'
    BY <1>4, ZenonT(60) DEF refresh_active_load
<1>5. ASSUME NEW c \in CPU, refresh_active_send(c) PROVE Drained(d)'
    BY <1>5, ZenonT(60) DEF refresh_active_send
<1>6. ASSUME NEW c \in CPU, rcu_enqueue_finish(c) PROVE Drained(d)'
    BY <1>6, ZenonT(60) DEF rcu_enqueue_finish
<1>7. ASSUME NEW c \in CPU, enter_hyp(c) PROVE Drained(d)'
    BY <1>7, ZenonT(60) DEF enter_hyp
<1>8. ASSUME NEW c \in CPU, ipi_wakeup(c) PROVE Drained(d)'
    BY <1>8, ZenonT(60) DEF ipi_wakeup
<1>9. ASSUME NEW c \in CPU, maybe_deactivate_cpu(c) PROVE Drained(d)'
    BY <1>9, SMTT(60) DEF maybe_deactivate_cpu, Deactivate
<1>10. ASSUME NEW c \in CPU, exit_check(c) PROVE Drained(d)'
    BY <1>10, ZenonT(60) DEF exit_check
<1>11. ASSUME NEW c \in CPU, try_deactivate_cpu(c) PROVE Drained(d)'
    BY <1>11, ZenonT(60) DEF try_deactivate_cpu, Deactivate
<1>12. ASSUME NEW c \in CPU, power_cpu_offline(c) PROVE Drained(d)'
    BY <1>12, ZenonT(60) DEF power_cpu_offline, Deactivate, rcu_has_pending_updates
<1>13. ASSUME NEW c \in CPU, boot_cpu_warm_init(c) PROVE Drained(d)'
    BY <1>13, ZenonT(60) DEF boot_cpu_warm_init
<1>14. ASSUME NEW c \in CPU, scheduler_quiescent(c) PROVE Drained(d)'
    BY <1>14, ZenonT(60) DEF scheduler_quiescent
<1>15. ASSUME NEW c \in CPU, quiesce_clear_ipi(c) PROVE Drained(d)'
    BY <1>15, ZenonT(60) DEF quiesce_clear_ipi
<1>16. ASSUME NEW c \in CPU, quiesce_attempt(c) PROVE Drained(d)'
    BY <1>16, SMTT(60) DEF quiesce_attempt
<1>17. ASSUME NEW c \in CPU, quiesce_publish(c) PROVE Drained(d)'
    BY <1>17, SMTT(60) DEF quiesce_publish
<1>18. ASSUME NEW c \in CPU, quiesce_find_raced(c) PROVE Drained(d)'
    BY <1>18, ZenonT(60) DEF quiesce_find_raced
<1>19. ASSUME NEW c \in CPU, quiesce_send(c) PROVE Drained(d)'
    BY <1>19, ZenonT(60) DEF quiesce_send
<1>20. ASSUME NEW c \in CPU, quiesce_finish(c) PROVE Drained(d)'
    BY <1>20, SMTT(60) DEF quiesce_finish, CanProcess
<1>21. ASSUME NEW c \in CPU, quiesce_again(c) PROVE Drained(d)'
    BY <1>21, ZenonT(60) DEF quiesce_again
<1>22. ASSUME NEW c \in CPU, notify_nothing(c) PROVE Drained(d)'
    BY <1>22, ZenonT(60) DEF notify_nothing
<1>23. ASSUME NEW c \in CPU, notify_update_first(c) PROVE Drained(d)'
    BY <1>23, ZenonT(60) DEF notify_update_first
<1>24. ASSUME NEW c \in CPU, notify_advance(c) PROVE Drained(d)'
    BY <1>24, SMTT(60) DEF notify_advance
<1>25. ASSUME NEW c \in CPU, request_store_target(c) PROVE Drained(d)'
    BY <1>25, ZenonT(60) DEF request_store_target
<1>26. ASSUME NEW c \in CPU, request_reload(c) PROVE Drained(d)'
    BY <1>26, SMTT(60) DEF request_reload
<1>27. ASSUME NEW c \in CPU, request_raise_max(c) PROVE Drained(d)'
    BY <1>27, ZenonT(60) DEF request_raise_max
<1>28. ASSUME NEW c \in CPU, update_callback(c) PROVE Drained(d)'
    BY <1>28, ZenonT(60) DEF update_callback
<1>29. ASSUME NEW c \in CPU, update_finish(c) PROVE Drained(d)'
    BY <1>29, ZenonT(60) DEF update_finish, UpdatesLeft
<1>30. ASSUME NEW c \in CPU, take_ipis(c) PROVE Drained(d)'
    BY <1>30, ZenonT(60) DEF take_ipis
<1>31. ASSUME NEW c \in CPU, ipi_received(c) PROVE Drained(d)'
    BY <1>31, SMTT(60) DEF ipi_received, Dispatch
<1>32. ASSUME NEW c \in CPU, ipis_handled(c) PROVE Drained(d)'
    BY <1>32, ZenonT(60) DEF ipis_handled
<1>33. ASSUME NEW c \in CPU, rcu_expedite(c) PROVE Drained(d)'
    BY <1>33, ZenonT(60) DEF rcu_expedite
<1>34. ASSUME NEW c \in CPU, expedite_step(c) PROVE Drained(d)'
    BY <1>34, SMTT(60) DEF expedite_step, Dispatch, ExpediteReason, ExpediteNext
<1>35. ASSUME NEW c \in CPU, expedite_give_up(c) PROVE Drained(d)'
    BY <1>35, ZenonT(60) DEF expedite_give_up
<1>36. ASSUME NEW c \in CPU, NEW e \in Entry, rcu_enqueue(c, e) PROVE Drained(d)'
    BY <1>36, SMTT(60) DEF rcu_enqueue
<1> QED
     BY <1>1, <1>2, <1>3, <1>4, <1>5, <1>6, <1>7, <1>8, <1>9, <1>10, <1>11, <1>12, <1>13, <1>14,
       <1>15, <1>16, <1>17, <1>18, <1>19, <1>20, <1>21, <1>22, <1>23, <1>24, <1>25, <1>26,
       <1>27, <1>28, <1>29, <1>30, <1>31, <1>32, <1>33, <1>34, <1>35, <1>36, ZenonT(60) DEF Next, Continue,
       Begin

(***************************************************************************)
(* Types.                                                                  *)
(***************************************************************************)

\* A wrapped sum is a count.
LEMMA PlusType == \A a \in Count, n \in Nat : Plus(a, n) \in Count
    BY CountAssumption DEF Plus, Count

\* The cleared local is a period.
LEMMA NoPeriodType == NoPeriod \in Period
    BY CountAssumption DEF NoPeriod, Period, Count

\* The fields of a period, and the periods that quiesce computes.
LEMMA PeriodType ==
    /\ \A p \in Period : p.generation \in Count /\ p.cpu_bitmap \in SUBSET CPU
    /\ \A g \in Count, s \in SUBSET CPU : [generation |-> g, cpu_bitmap |-> s] \in Period
    /\ \A p \in Period, c \in CPU : [p EXCEPT !.cpu_bitmap = @ \ {c}] \in Period
    BY DEF Period

\* Control helpers keep the types of what they assign.
LEMMA GotoType ==
    ASSUME TypeOK, NEW c \in CPU, NEW l \in Label, Goto(c, l)
    PROVE  pc' \in [CPU -> Label]
    BY DEF TypeOK, Goto

\* Calling a procedure.
LEMMA CallType ==
    ASSUME TypeOK, NEW c \in CPU, NEW p \in Procedure, NEW l \in Label, NEW back \in Label,
           Call(c, p, l, back)
    PROVE  pc' \in [CPU -> Label] /\ ret' \in [CPU -> [Procedure -> Label]]
    BY DEF TypeOK, Goto, Call

\* Returning from one.
LEMMA ReturnType ==
    ASSUME TypeOK, NEW c \in CPU, NEW p \in Procedure, Return(c, p)
    PROVE  pc' \in [CPU -> Label] /\ ret' \in [CPU -> [Procedure -> Label]]
    BY DEF TypeOK, Goto, Return, Label

\* Raising IPI reasons.
LEMMA RaiseType ==
    ASSUME TypeOK, NEW d \in CPU, NEW rs \in SUBSET Reason, Raise(d, rs)
    PROVE  pending' \in [CPU -> SUBSET Reason]
    BY DEF TypeOK, Raise

\* Clearing one.
LEMMA ClearType ==
    ASSUME TypeOK, NEW c \in CPU, NEW r, Clear(c, r)
    PROVE  pending' \in [CPU -> SUBSET Reason]
    BY DEF TypeOK, Clear

\* rcu_bitmap_activate_cpu.
LEMMA ActivateType ==
    ASSUME TypeOK, NEW c \in CPU, Activate(c)
    PROVE  is_active' \in [CPU -> BOOLEAN] /\ active_cpus' \subseteq CPU
    BY DEF TypeOK, Activate

\* The labels that the callers of rcu_bitmap_deactivate_cpu return to.
LEMMA LabelsUsed == "exit_check" \in Label /\ "out" \in Label /\ "off" \in Label
    BY DEF Label

\* rcu_bitmap_deactivate_cpu.
LEMMA DeactivateType ==
    ASSUME TypeOK, NEW c \in CPU, NEW back \in Label, Deactivate(c, back)
    PROVE  /\ is_active' \in [CPU -> BOOLEAN] /\ active_cpus' \subseteq CPU
           /\ pc' \in [CPU -> Label] /\ ret' \in [CPU -> [Procedure -> Label]]
<1>1. "d_clear" \in Label /\ "quiesce" \in Procedure
    BY DEF Label, Procedure
<1> QED
    BY <1>1, CallType DEF TypeOK, Deactivate

\* Calling the handler of a reason.
LEMMA DispatchType ==
    ASSUME TypeOK, NEW c \in CPU, NEW r \in Reason, NEW back \in Label, Dispatch(c, r, back)
    PROVE  pc' \in [CPU -> Label] /\ ret' \in [CPU -> [Procedure -> Label]]
<1>1. {"quiesce", "notify", "u_run"} \subseteq Label /\ {"quiesce", "notify", "update"}
   \subseteq Procedure
    BY DEF Label, Procedure
<1> QED
    BY <1>1, CallType, GotoType DEF TypeOK, Dispatch

\* The IPI loop of rcu_bitmap_quiesce.
LEMMA SendType ==
    ASSUME TypeOK, NEW c \in CPU, quiesce_send(c)
    PROVE  pending' \in [CPU -> SUBSET Reason] /\ todo' \in [CPU -> SUBSET CPU]
<1>1. PICK d \in todo[c] : /\ Raise(d, PeriodReasons(c, d))
                           /\ todo' = [todo EXCEPT ![c] = @ \ {d}]
    BY ZenonT(60) DEF quiesce_send
<1>2. PeriodReasons(c, d) \in SUBSET Reason
    BY DEF PeriodReasons, Reason
<1> QED
    BY <1>1, <1>2 DEF TypeOK, Raise

\* Taking pending IPIs.
LEMMA TakeIpisType ==
    ASSUME TypeOK, NEW c \in CPU, take_ipis(c)
    PROVE  pending' \in [CPU -> SUBSET Reason] /\ taken' \in [CPU -> SUBSET Reason]
<1>1. PICK rs \in {pending[c]} \cup {{r} : r \in pending[c]} :
            /\ taken' = [taken EXCEPT ![c] = rs]
            /\ pending' = [pending EXCEPT ![c] = @ \ rs]
    BY ZenonT(60) DEF take_ipis
<1>2. pending[c] \in SUBSET Reason
    BY DEF TypeOK
<1>3. rs \in SUBSET Reason
    BY <1>1, <1>2
<1> QED
    BY <1>1, <1>3 DEF TypeOK

\* The compare-and-swap of rcu_bitmap_quiesce.
LEMMA PublishType ==
    ASSUME TypeOK, NEW c \in CPU, quiesce_publish(c)
    PROVE  /\ pc' \in [CPU -> Label] /\ ret' \in [CPU -> [Procedure -> Label]]
           /\ cur' \in [CPU -> Period] /\ nxt' \in [CPU -> Period] /\ current_period' \in Period
<1>1. {"quiesce", "q_needing"} \subseteq Label /\ "quiesce" \in Procedure
    BY DEF Label, Procedure
<1>2. cur' = [cur EXCEPT ![c] = NoPeriod]
    BY DEF quiesce_publish
<1>3. CASE current_period # cur[c]
     <2>1. nxt' = [nxt EXCEPT ![c] = NoPeriod] /\ Goto(c, "quiesce") /\ UNCHANGED
       <<current_period, ret>>
        BY <1>3, ZenonT(60) DEF quiesce_publish
    <2> QED
        BY <1>1, <1>2, <2>1, GotoType, NoPeriodType, ZenonT(60) DEF TypeOK
<1>4. CASE current_period = cur[c] /\ nxt[c].generation # cur[c].generation
    <2>1. current_period' = nxt[c] /\ Goto(c, "q_needing") /\ UNCHANGED <<nxt, ret>>
        BY <1>4, ZenonT(60) DEF quiesce_publish
    <2> QED
        BY <1>1, <1>2, <2>1, GotoType, NoPeriodType, ZenonT(60) DEF TypeOK
<1>5. CASE current_period = cur[c] /\ nxt[c].generation = cur[c].generation
    <2>1. current_period' = nxt[c] /\ Return(c, "quiesce") /\ nxt' = [nxt EXCEPT ![c] = NoPeriod]
        BY <1>5, ZenonT(60) DEF quiesce_publish
    <2> QED
        BY <1>1, <1>2, <2>1, ReturnType, NoPeriodType, ZenonT(60) DEF TypeOK
<1> QED BY <1>3, <1>4, <1>5

\* The steps of rcu_expedite.
LEMMA ExpediteType ==
    ASSUME TypeOK, NEW c \in CPU, expedite_step(c)
    PROVE  pc' \in [CPU -> Label] /\ ret' \in [CPU -> [Procedure -> Label]]
<1>1. PICK r \in Reason, l \in Label :
          \/ Dispatch(c, r, l)
          \/ Goto(c, l) /\ UNCHANGED ret
    <2>1. CASE pc[c] = "x_notify"
        BY <2>1 DEF expedite_step, ExpediteReason, ExpediteNext, Reason, Label
    <2>2. CASE pc[c] = "x_quiesce"
        BY <2>2 DEF expedite_step, ExpediteReason, ExpediteNext, Reason, Label
    <2>3. CASE pc[c] = "x_again"
        BY <2>3 DEF expedite_step, ExpediteReason, ExpediteNext, Reason, Label
    <2>4. CASE pc[c] = "x_update"
        BY <2>4 DEF expedite_step, ExpediteReason, ExpediteNext, Reason, Label
    <2> QED
        BY <2>1, <2>2, <2>3, <2>4, ZenonT(60) DEF expedite_step, ExpediteNext
<1> QED
    BY <1>1, DispatchType, GotoType, ZenonT(60) DEF TypeOK

\* rcu_enqueue.
LEMMA EnqueueType ==
    ASSUME TypeOK, NEW c \in CPU, NEW e \in Entry, rcu_enqueue(c, e)
    PROVE  /\ pc' \in [CPU -> Label] /\ ret' \in [CPU -> [Procedure -> Label]]
           /\ pending' \in [CPU -> SUBSET Reason]
           /\ next_batch' \in [CPU -> SUBSET Entry] /\ adding' \in [CPU -> SUBSET Entry]
           /\ waiter_count' \in Nat /\ update_count' \in [CPU -> Nat]
           /\ enqueued' \subseteq Entry
           /\ blockers' \in [Entry -> SUBSET CPU] /\ exposed' \in [Entry -> SUBSET CPU]
<1>1. waiter_count' \in Nat /\ update_count' \in [CPU -> Nat] /\ enqueued' \subseteq Entry
    BY DEF TypeOK, rcu_enqueue
<1>2. blockers' \in [Entry -> SUBSET CPU] /\ exposed' \in [Entry -> SUBSET CPU]
    <2>1. Reading \in SUBSET CPU /\ Unsampled \in SUBSET CPU
        BY DEF Reading, Unsampled
    <2> QED
        BY <2>1 DEF TypeOK, rcu_enqueue
<1>3. CASE update_count[c] = 0 /\ waiter_count = 0
    <2>1. /\ pc' = [pc EXCEPT ![c] = "e_active"]
          /\ ret' = [ret EXCEPT ![c]["enqueue"] = pc[c]]
          /\ adding' = [adding EXCEPT ![c] = {e}]
          /\ UNCHANGED <<next_batch, pending>>
        BY <1>3 DEF rcu_enqueue, Call, Goto
    <2>2. "e_active" \in Label /\ "enqueue" \in Procedure
        BY DEF Label, Procedure
    <2> QED
        BY <1>1, <1>2, <2>1, <2>2 DEF TypeOK
<1>4. CASE ~(update_count[c] = 0 /\ waiter_count = 0)
    <2>1. Insert(c, {e}) /\ UNCHANGED <<pc, ret, adding>>
        BY <1>4 DEF rcu_enqueue
    <2>2. {"notify"} \in SUBSET Reason
        BY DEF Reason
    <2> QED
        BY <1>1, <1>2, <2>1, <2>2, RaiseType, ZenonT(60) DEF TypeOK, Insert
<1> QED BY <1>3, <1>4

\* rcu_bitmap_update subtracts no more than was counted.
LEMMA UpdateFinishType ==
     ASSUME TypeOK, BatchesFinite, UpdateCountExact, WaiterCountExact, NEW c \in CPU,
       update_finish(c)
    PROVE  /\ pc' \in [CPU -> Label] /\ ret' \in [CPU -> [Procedure -> Label]]
           /\ update_count' \in [CPU -> Nat] /\ waiter_count' \in Nat
           /\ ready_updates' \in [CPU -> BOOLEAN] /\ ran' \in [CPU -> Nat]
<1>1. update_count[c] - ran[c] \in Nat
    BY UpdateCountBound DEF TypeOK
<1>2. NoLongerWaiter(c) => waiter_count - 1 \in Nat
    BY WaiterCountPositive DEF NoLongerWaiter, TypeOK
<1>3. "update" \in Procedure
    BY DEF Procedure
<1>4. update_count' \in [CPU -> Nat] /\ waiter_count' \in Nat
    BY <1>1, <1>2 DEF TypeOK, update_finish, UpdatesLeft
<1> QED
    BY <1>3, <1>4, ReturnType, ZenonT(60) DEF TypeOK, update_finish

\* power_cpu_offline counts within its bound.
LEMMA OfflineType ==
    ASSUME TypeOK, NEW c \in CPU, power_cpu_offline(c)
    PROVE  offlines' \in 0..MaxOffline
<1>1. offlines < MaxOffline /\ offlines' = offlines + 1
    BY ZenonT(60) DEF power_cpu_offline
<1>2. offlines \in 0..MaxOffline
    BY ZenonT(60) DEF TypeOK
<1> QED
    BY <1>1, <1>2, OfflineAssumption, SMTT(60)

\* A callback that ran is counted.
LEMMA CallbackType ==
    ASSUME TypeOK, NEW c \in CPU, update_callback(c)
    PROVE  ran' \in [CPU -> Nat]
<1>1. ran' = [ran EXCEPT ![c] = @ + 1]
    BY ZenonT(60) DEF update_callback
<1>2. ran \in [CPU -> Nat]
    BY ZenonT(60) DEF TypeOK
<1> QED
    BY <1>1, <1>2, SMTT(60)

\* Every step preserves the types.
LEMMA TypeNext ==
    ASSUME TypeOK, BatchesFinite, UpdateCountExact, WaiterCountExact, [Next]_vars
    PROVE  TypeOK'
<1> USE DEF TypeOK, vars, rcu, period, activity, batches, queues, locals, ghosts, rest, work,
        Label, Procedure, Reason
<1>1. CASE UNCHANGED vars
    <2>1. UNCHANGED <<waiter_count, current_period, max_target>>
          /\ UNCHANGED <<active_cpus, is_active, update_count, ready_updates>>
          /\ UNCHANGED <<target, ready_batch, waiting_batch, next_batch>>
          /\ UNCHANGED <<pending, pc, ret, cur, nxt>>
          /\ UNCHANGED <<todo, needing, taken, ran, adding>>
          /\ UNCHANGED <<enqueued, done, blockers, exposed, offlines>>
        BY <1>1, ZenonT(60)
    <2> HIDE DEF Label, Procedure, Reason, vars
    <2> QED
        BY <2>1, ZenonT(60)
<1>2. ASSUME NEW c \in CPU, rcu_read_start(c) PROVE TypeOK'
    BY <1>2, GotoType, ZenonT(60) DEF rcu_read_start
<1>3. ASSUME NEW c \in CPU, rcu_read_finish(c) PROVE TypeOK'
    BY <1>3, GotoType, ZenonT(60) DEF rcu_read_finish
<1>4. ASSUME NEW c \in CPU, refresh_active_load(c) PROVE TypeOK'
    BY <1>4, GotoType, ZenonT(60) DEF refresh_active_load
<1>5. ASSUME NEW c \in CPU, refresh_active_send(c) PROVE TypeOK'
    <2>1. PICK d \in todo[c] : Raise(d, {"quiesce"}) /\ todo' = [todo EXCEPT ![c] = @ \ {d}]
        BY <1>5, ZenonT(60) DEF refresh_active_send
    <2>2. d \in CPU /\ todo' \in [CPU -> SUBSET CPU]
        BY <2>1, ZenonT(60)
    <2>3. {"quiesce"} \in SUBSET Reason
        BY ZenonT(60)
    <2>4. pending' \in [CPU -> SUBSET Reason]
        BY <2>1, <2>2, <2>3, RaiseType, ZenonT(60)
    <2> QED
        BY <1>5, <2>2, <2>4, ZenonT(60) DEF refresh_active_send
<1>6. ASSUME NEW c \in CPU, rcu_enqueue_finish(c) PROVE TypeOK'
    BY <1>6, RaiseType, ReturnType, ZenonT(60) DEF rcu_enqueue_finish, Insert
<1>7. ASSUME NEW c \in CPU, enter_hyp(c) PROVE TypeOK'
    BY <1>7, ActivateType, GotoType, ZenonT(60) DEF enter_hyp
<1>8. ASSUME NEW c \in CPU, ipi_wakeup(c) PROVE TypeOK'
    BY <1>8, ActivateType, GotoType, ZenonT(60) DEF ipi_wakeup
<1>9. ASSUME NEW c \in CPU, maybe_deactivate_cpu(c) PROVE TypeOK'
    <2>1. /\ is_active' \in [CPU -> BOOLEAN] /\ active_cpus' \subseteq CPU
          /\ pc' \in [CPU -> Label] /\ ret' \in [CPU -> [Procedure -> Label]]
        <3>1. CASE Deactivate(c, "exit_check")
            BY <3>1, LabelsUsed, DeactivateType, ZenonT(60)
        <3>2. CASE Goto(c, "exit_check") /\ UNCHANGED <<activity, ret>>
            BY <3>2, LabelsUsed, GotoType, ZenonT(60)
        <3> QED BY <1>9, <3>1, <3>2, ZenonT(60) DEF maybe_deactivate_cpu
    <2> QED
        BY <1>9, <2>1, ZenonT(60) DEF maybe_deactivate_cpu
<1>10. ASSUME NEW c \in CPU, exit_check(c) PROVE TypeOK'
    <2>1. CASE pending[c] = {}
        BY <1>10, <2>1, GotoType, ZenonT(60) DEF exit_check
    <2>2. CASE pending[c] # {}
        <3>1. PICK r \in pending[c] : /\ Activate(c) /\ Clear(c, r) /\ Goto(c, "handle")
                                      /\ taken' = [taken EXCEPT ![c] = {r}]
            BY <1>10, <2>2, ZenonT(60) DEF exit_check
        <3> QED
            BY <1>10, <3>1, ActivateType, ClearType, GotoType, ZenonT(60) DEF exit_check
    <2> QED BY <2>1, <2>2, ZenonT(60)
<1>11. ASSUME NEW c \in CPU, try_deactivate_cpu(c) PROVE TypeOK'
    <2>1. /\ is_active' \in [CPU -> BOOLEAN] /\ active_cpus' \subseteq CPU
          /\ pc' \in [CPU -> Label] /\ ret' \in [CPU -> [Procedure -> Label]]
        BY <1>11, LabelsUsed, DeactivateType, ZenonT(60) DEF try_deactivate_cpu
    <2> QED
        BY <1>11, <2>1, ZenonT(60) DEF try_deactivate_cpu
<1>12. ASSUME NEW c \in CPU, power_cpu_offline(c) PROVE TypeOK'
    <2>1. offlines' \in 0..MaxOffline
        BY <1>12, OfflineType, ZenonT(60)
    <2>2. /\ is_active' \in [CPU -> BOOLEAN] /\ active_cpus' \subseteq CPU
          /\ pc' \in [CPU -> Label] /\ ret' \in [CPU -> [Procedure -> Label]]
        BY <1>12, LabelsUsed, DeactivateType, ZenonT(60) DEF power_cpu_offline
    <2> QED
        BY <1>12, <2>1, <2>2, ZenonT(60) DEF power_cpu_offline
<1>13. ASSUME NEW c \in CPU, boot_cpu_warm_init(c) PROVE TypeOK'
    BY <1>13, ActivateType, GotoType, ZenonT(60) DEF boot_cpu_warm_init
<1>14. ASSUME NEW c \in CPU, scheduler_quiescent(c) PROVE TypeOK'
    BY <1>14, CallType, ZenonT(60) DEF scheduler_quiescent
<1>15. ASSUME NEW c \in CPU, quiesce_clear_ipi(c) PROVE TypeOK'
    BY <1>15, GotoType, ClearType, ZenonT(60) DEF quiesce_clear_ipi
<1>16. ASSUME NEW c \in CPU, quiesce_attempt(c) PROVE TypeOK'
    <2> DEFINE acked == [current_period EXCEPT !.cpu_bitmap = @ \ {c}]
    <2>1. acked \in Period
        BY PeriodType, ZenonT(60)
    <2>2. CASE acked.cpu_bitmap # {}
        BY <1>16, <2>1, <2>2, ReturnType, ZenonT(60) DEF quiesce_attempt
    <2>3. CASE acked.cpu_bitmap = {}
         <3>1. [generation |-> Plus(current_period.generation, 1), cpu_bitmap |-> active_cpus]
           \in Period
            BY PeriodType, PlusType, ZenonT(60)
        <3>2. cur' \in [CPU -> Period]
            BY <1>16, <2>3, ZenonT(60) DEF quiesce_attempt
        <3>4. nxt' \in [CPU -> Period]
            BY <1>16, <2>1, <2>3, <3>1, ZenonT(60) DEF quiesce_attempt
        <3>3. pc' \in [CPU -> Label] /\ ret' = ret /\ current_period' = current_period
            BY <1>16, <2>3, GotoType, ZenonT(60) DEF quiesce_attempt
        <3> QED
            BY <1>16, <3>2, <3>3, <3>4, ZenonT(60) DEF quiesce_attempt
    <2> QED BY <2>2, <2>3, ZenonT(60)
<1>17. ASSUME NEW c \in CPU, quiesce_publish(c) PROVE TypeOK'
    BY <1>17, PublishType, ZenonT(60) DEF quiesce_publish
<1>18. ASSUME NEW c \in CPU, quiesce_find_raced(c) PROVE TypeOK'
    BY <1>18, GotoType, PeriodType, ZenonT(60) DEF quiesce_find_raced
<1>19. ASSUME NEW c \in CPU, quiesce_send(c) PROVE TypeOK'
    BY <1>19, SendType, ZenonT(60) DEF quiesce_send
<1>20. ASSUME NEW c \in CPU, quiesce_finish(c) PROVE TypeOK'
    <2>1. pc' \in [CPU -> Label] /\ ret' \in [CPU -> [Procedure -> Label]]
        BY <1>20, CallType, ReturnType, ZenonT(60) DEF quiesce_finish
    <2>2. pending' \in [CPU -> SUBSET Reason]
        BY <1>20, RaiseType, ZenonT(60) DEF quiesce_finish
    <2> QED
        BY <1>20, <2>1, <2>2, NoPeriodType, ZenonT(60) DEF quiesce_finish
<1>21. ASSUME NEW c \in CPU, quiesce_again(c) PROVE TypeOK'
    <2>1. pending' \in [CPU -> SUBSET Reason]
        BY <1>21, RaiseType, ZenonT(60) DEF quiesce_again
    <2>2. pc' \in [CPU -> Label] /\ ret' \in [CPU -> [Procedure -> Label]]
        BY <1>21, ReturnType, ZenonT(60) DEF quiesce_again
    <2> QED
        BY <1>21, <2>1, <2>2, ZenonT(60) DEF quiesce_again
<1>22. ASSUME NEW c \in CPU, notify_nothing(c) PROVE TypeOK'
    BY <1>22, ReturnType, ZenonT(60) DEF notify_nothing
<1>23. ASSUME NEW c \in CPU, notify_update_first(c) PROVE TypeOK'
    BY <1>23, CallType, ClearType, ZenonT(60) DEF notify_update_first
<1>24. ASSUME NEW c \in CPU, notify_advance(c) PROVE TypeOK'
    <2>1. pending' \in [CPU -> SUBSET Reason]
        <3>1. Raise(c, IF waiting_batch[c] # {} THEN {"update"} ELSE {})
            BY <1>24, ZenonT(60) DEF notify_advance, AdvanceBatches
        <3>2. (IF waiting_batch[c] # {} THEN {"update"} ELSE {}) \in SUBSET Reason
            BY ZenonT(60) DEF Reason
        <3> QED BY <3>1, <3>2, RaiseType, ZenonT(60)
    <2>2. pc' \in [CPU -> Label] /\ ret' \in [CPU -> [Procedure -> Label]]
        BY <1>24, GotoType, ReturnType, ZenonT(60) DEF notify_advance
    <2>4. cur' \in [CPU -> Period]
        BY <1>24, ZenonT(60) DEF notify_advance
    <2>3. ready_updates' \in [CPU -> BOOLEAN]
        BY <1>24, ZenonT(60) DEF notify_advance, AdvanceBatches
    <2> QED
        BY <1>24, <2>1, <2>2, <2>3, <2>4, ZenonT(60) DEF notify_advance, AdvanceBatches
<1>25. ASSUME NEW c \in CPU, request_store_target(c) PROVE TypeOK'
    BY <1>25, GotoType, PlusType, PeriodType, NoPeriodType, ZenonT(60)
    DEF request_store_target, TargetAfter
<1>26. ASSUME NEW c \in CPU, request_reload(c) PROVE TypeOK'
    BY <1>26, GotoType, ReturnType, RaiseType, ZenonT(60) DEF request_reload
<1>27. ASSUME NEW c \in CPU, request_raise_max(c) PROVE TypeOK'
    BY <1>27, ReturnType, RaiseType, ZenonT(60) DEF request_raise_max
<1>28. ASSUME NEW c \in CPU, update_callback(c) PROVE TypeOK'
    <2>1. PICK e \in ready_batch[c] : /\ ready_batch' = [ready_batch EXCEPT ![c] = @ \ {e}]
                                      /\ done' = done \cup {e}
        BY <1>28, ZenonT(60) DEF update_callback
    <2>2. ready_batch' \in [CPU -> SUBSET Entry] /\ done' \subseteq Entry
        BY <2>1, ZenonT(60)
    <2>3. ran' \in [CPU -> Nat]
        BY <1>28, CallbackType, ZenonT(60)
    <2> QED
        BY <1>28, <2>2, <2>3, ZenonT(60) DEF update_callback
<1>29. ASSUME NEW c \in CPU, update_finish(c) PROVE TypeOK'
    BY <1>29, UpdateFinishType, ZenonT(60) DEF update_finish
<1>30. ASSUME NEW c \in CPU, take_ipis(c) PROVE TypeOK'
    BY <1>30, TakeIpisType, GotoType, ZenonT(60) DEF take_ipis
<1>31. ASSUME NEW c \in CPU, ipi_received(c) PROVE TypeOK'
    <2>1. PICK r \in taken[c] : /\ taken' = [taken EXCEPT ![c] = @ \ {r}]
                                /\ Dispatch(c, r, "handle")
        BY <1>31, ZenonT(60) DEF ipi_received
    <2>2. r \in Reason
        BY <2>1, ZenonT(60)
    <2>3. pc' \in [CPU -> Label] /\ ret' \in [CPU -> [Procedure -> Label]]
        BY <2>1, <2>2, DispatchType, ZenonT(60)
    <2> QED
        BY <1>31, <2>1, <2>3, ZenonT(60) DEF ipi_received
<1>32. ASSUME NEW c \in CPU, ipis_handled(c) PROVE TypeOK'
    BY <1>32, GotoType, ZenonT(60) DEF ipis_handled
<1>33. ASSUME NEW c \in CPU, rcu_expedite(c) PROVE TypeOK'
    BY <1>33, GotoType, ZenonT(60) DEF rcu_expedite
<1>34. ASSUME NEW c \in CPU, expedite_step(c) PROVE TypeOK'
    BY <1>34, ExpediteType, ClearType, ZenonT(60) DEF expedite_step, ExpediteReason
<1>35. ASSUME NEW c \in CPU, expedite_give_up(c) PROVE TypeOK'
    BY <1>35, GotoType, ZenonT(60) DEF expedite_give_up
<1>36. ASSUME NEW c \in CPU, NEW e \in Entry, rcu_enqueue(c, e) PROVE TypeOK'
    BY <1>36, EnqueueType, ZenonT(60) DEF rcu_enqueue
<1> QED
     BY <1>1, <1>2, <1>3, <1>4, <1>5, <1>6, <1>7, <1>8, <1>9, <1>10, <1>11, <1>12, <1>13, <1>14,
       <1>15, <1>16, <1>17, <1>18, <1>19, <1>20, <1>21, <1>22, <1>23, <1>24, <1>25, <1>26,
       <1>27, <1>28, <1>29, <1>30, <1>31, <1>32, <1>33, <1>34, <1>35, <1>36, ZenonT(60)
     DEF Next, Continue, Begin

(***************************************************************************)
(* The theorems.                                                           *)
(***************************************************************************)

\* The inductive invariant.
IInv ==
    /\ TypeOK
    /\ ControlInv
    /\ \A c \in CPU : BatchInv(c) /\ Signalled(c) /\ Drained(c)
    /\ BatchesFinite
    /\ UpdateCountExact
    /\ WaiterCountExact

\* The state at boot satisfies it.
LEMMA IInvInit == Init => IInv
<1> SUFFICES ASSUME Init PROVE IInv
    OBVIOUS
<1>1. TypeOK
    <2>1. NoPeriod \in Period /\ [generation |-> FirstGeneration, cpu_bitmap |-> {}] \in Period
        BY NoPeriodType, PeriodType, GenerationAssumption, ZenonT(60) DEF Count
    <2>2. 0 \in Nat /\ 0 \in 0..MaxOffline /\ FirstGeneration \in Count
        BY GenerationAssumption, OfflineAssumption DEF Count
    <2>3. "hyp" \in Label /\ "off" \in Label
        BY DEF Label
    <2>4. /\ pc \in [CPU -> Label] /\ ret \in [CPU -> [Procedure -> Label]]
          /\ is_active \in [CPU -> BOOLEAN]
        BY <2>3, SMTT(60) DEF Init
    <2> QED
        BY <2>1, <2>2, <2>4, CpuAssumption, ZenonT(60) DEF Init, TypeOK
<1>2. ControlInv
    BY ZenonT(60) DEF Init, ControlInv, Stack, Activity, NotCalled, InQuiesce, InNotify, InEnqueue, Leaving
<1>3. \A c \in CPU : BatchInv(c) /\ Signalled(c) /\ Drained(c)
    BY DEF Init, BatchInv, Signalled, Drained
<1>4. IsFiniteSet({}) /\ Cardinality({}) = 0
    BY FS_EmptySet, ZenonT(60)
<1>5. BatchesFinite /\ UpdateCountExact
    BY <1>4 DEF Init, BatchesFinite, UpdateCountExact
<1>6. WaiterCountExact
    <2>1. {c \in CPU : update_count[c] > 0} = {}
        BY DEF Init
    <2> QED
        BY <1>4, <2>1, ZenonT(60) DEF Init, WaiterCountExact
<1> QED
    BY <1>1, <1>2, <1>3, <1>5, <1>6 DEF IInv

\* Every step preserves it.
LEMMA IInvNext == IInv /\ [Next]_vars => IInv'
<1> SUFFICES ASSUME IInv, [Next]_vars PROVE IInv'
    OBVIOUS
<1>0. /\ TypeOK /\ ControlInv /\ BatchesFinite /\ UpdateCountExact /\ WaiterCountExact
      /\ \A c \in CPU : BatchInv(c)
      /\ \A c \in CPU : Signalled(c)
      /\ \A c \in CPU : Drained(c)
    BY DEF IInv
<1>1. TypeOK'
    BY <1>0, TypeNext
<1>2. ControlInv'
    BY <1>0, ControlNext
<1>3. \A c \in CPU : BatchInv(c)'
    BY <1>0, BatchNext
<1>4. BatchesFinite' /\ UpdateCountExact'
    BY <1>0, CountNext
<1>5. WaiterCountExact'
    BY <1>0, WaiterNext
<1>6. \A c \in CPU : Signalled(c)'
    BY <1>0, SignalNext
<1>7. \A c \in CPU : Drained(c)'
    BY <1>0, DrainedNext
<1> QED
    BY <1>1, <1>2, <1>3, <1>4, <1>5, <1>6, <1>7, ZenonT(60) DEF IInv

\* It holds in every state of every behaviour.
THEOREM Invariance == Spec => []IInv
    BY IInvInit, IInvNext, PTL DEF Spec

\* Every variable keeps its type; in particular the two counts of
\* rcu_bitmap.c never go below zero.
THEOREM TypeCorrect == Spec => []TypeOK
<1>1. IInv => TypeOK
    BY ZenonT(60) DEF IInv
<1> QED
    BY <1>1, Invariance, PTL

\* Critical sections and callbacks run only on cores that the next period will
\* wait for (the assertion in rcu_read_start).
THEOREM ReadersAreActive == Spec => []ReadersActive
<1>1. IInv => ReadersActive
    BY DEF IInv, ControlInv, Activity, ReadersActive, Leaving, InQuiesce
<1> QED
    BY <1>1, Invariance, PTL

\* update_count is the number of updates that are queued, being added, or run
\* and not yet subtracted.
THEOREM UpdateCountIsExact == Spec => []UpdateCountExact
<1>1. IInv => UpdateCountExact
    BY DEF IInv
<1> QED
    BY <1>1, Invariance, PTL

\* waiter_count is the number of cores that have updates, so quiescent states
\* are tracked exactly as long as somebody waits for them.
THEOREM WaiterCountIsExact == Spec => []WaiterCountExact
<1>1. IInv => WaiterCountExact
    BY ZenonT(60) DEF IInv
<1> QED
    BY <1>1, Invariance, PTL

\* A ready batch is never merged with the next one or forgotten (the comments
\* on ready_batch and ready_updates in rcu.tc).
THEOREM ReadyBatchIsSignalled == Spec => []ReadyBatchSignalled
<1>1. IInv => ReadyBatchSignalled
    BY ZenonT(60) DEF IInv, BatchInv, Signalled, ReadyBatchSignalled
<1> QED
    BY <1>1, Invariance, PTL

\* No update is stranded on a core that is offline (the assertion in
\* rcu_bitmap_handle_power_cpu_offline).
THEOREM OfflineCoresAreDrained == Spec => []OfflineCoresDrained
<1>1. ASSUME IInv, NEW c \in CPU, pc[c] = "off"
      PROVE  ready_batch[c] \cup waiting_batch[c] \cup next_batch[c] = {}
    <2>1. update_count[c] = 0
        BY <1>1, ZenonT(60) DEF IInv, Drained
    <2>2. /\ IsFiniteSet(ready_batch[c]) /\ IsFiniteSet(waiting_batch[c])
          /\ IsFiniteSet(next_batch[c]) /\ IsFiniteSet(adding[c])
        BY <1>1, ZenonT(60) DEF IInv, BatchesFinite
    <2>3. /\ Cardinality(ready_batch[c]) \in Nat /\ Cardinality(waiting_batch[c]) \in Nat
          /\ Cardinality(next_batch[c]) \in Nat /\ Cardinality(adding[c]) \in Nat
        BY <2>2, FS_CardinalityType
    <2>4. /\ Cardinality(ready_batch[c]) = 0 /\ Cardinality(waiting_batch[c]) = 0
          /\ Cardinality(next_batch[c]) = 0
        <3>1. /\ ran[c] \in Nat
              /\ update_count[c] = Cardinality(ready_batch[c]) + Cardinality(waiting_batch[c])
                                     + Cardinality(next_batch[c]) + ran[c] + Cardinality(adding[c])
            BY <1>1, ZenonT(60) DEF IInv, TypeOK, UpdateCountExact
        <3>2. Cardinality(ready_batch[c]) + Cardinality(waiting_batch[c]) + Cardinality(next_batch[c])
                + ran[c] + Cardinality(adding[c]) = 0
            BY <2>1, <3>1
        <3>3. \A i, j, k, l, m \in Nat : i + j + k + l + m = 0 => i = 0 /\ j = 0 /\ k = 0
            BY SMTT(60)
        <3>4. ran[c] \in Nat
            BY <3>1, ZenonT(60)
        <3> QED
            BY <2>3, <3>2, <3>3, <3>4, Zenon
    <2> QED
        BY <2>2, <2>4, FS_EmptySet, ZenonT(60)
<1>2. IInv => OfflineCoresDrained
    BY <1>1, ZenonT(60) DEF OfflineCoresDrained
<1> QED
    BY <1>2, Invariance, PTL
=============================================================================
