-------------------------- MODULE RcuBitmapGrace ---------------------------
(***************************************************************************)
(* The grace period, for every set of cores and entries.                   *)
(*                                                                         *)
(* The compare-and-swap of rcu_bitmap_quiesce compares a count that wraps. *)
(* It would succeed with a stale sample of the active set if a core stood  *)
(* in front of it while the others counted through the whole range of      *)
(* count_t.  The history variable age counts the periods that have begun   *)
(* since a core loaded what it will compare, and the theorem is about the  *)
(* behaviours in which that number stays below CountRange.                 *)
(*                                                                         *)
(* The argument: the readers that an update has to wait for are sampled by *)
(* every period that can still be published (Sampled), as long as the      *)
(* update has no target or the generation is the one its target was made   *)
(* from.  The period after that has them in its bitmap, and they leave it  *)
(* only by quiescing, which a reader does not do.                          *)
(***************************************************************************)
EXTENDS RcuBitmapProofs

VARIABLE age

hvars == <<vars, age>>

HInit == Init /\ age = [c \in CPU |-> 0]

HNext ==
    /\ Next
    /\ age' = [c \in CPU |->
          IF pc[c] # "q_cas" \/ pc'[c] # "q_cas" THEN 0
          ELSE IF current_period'.generation # current_period.generation THEN age[c] + 1
          ELSE age[c]]

HSpec == HInit /\ [][HNext]_hvars

\* No core is held up between its load of current_period and its
\* compare-and-swap for as long as it takes the count to come round.
Fresh == \A c \in CPU : age[c] < CountRange

\* The readers that the callback of e has to wait for.
Late(e) == blockers[e] \ exposed[e]

\* Reader r is in the bitmap of every period that can be published now.
Sampled(r) == \A d \in CPU : Publishing(d) => r \in nxt[d].cpu_bitmap

\* The target of the waiting batch, also before it is stored.
Target(c) == IF pc[c] = "r_store" THEN TargetAfter(cur[c].generation) ELSE target[c]

\* What a core in front of its compare-and-swap knows of the current period.
Aged(c) ==
    pc[c] = "q_cas" =>
       /\ cur[c].cpu_bitmap \subseteq {c}
       /\ \/ nxt[c] = [cur[c] EXCEPT !.cpu_bitmap = @ \ {c}]
          \/ nxt[c].generation = Plus(cur[c].generation, 1)
       /\ age[c] = 0 => /\ current_period.generation = cur[c].generation
                        /\ current_period.cpu_bitmap \subseteq cur[c].cpu_bitmap
       /\ age[c] < CountRange =>
             current_period.generation - cur[c].generation \in {age[c], age[c] - CountRange}

\* An update that reader r holds up is not ready, and its target is at least
\* one whole period away, or the period in progress waits for r.
Waited(c, e, r) ==
    /\ e \in adding[c] \cup next_batch[c] => Sampled(r)
    /\ e \in waiting_batch[c] =>
          \/ Target(c) = Plus(current_period.generation, 2) /\ Sampled(r)
          \/ Target(c) = Plus(current_period.generation, 1) /\ r \in current_period.cpu_bitmap
    /\ e \notin ready_batch[c] \cup done

GInv ==
    /\ age \in [CPU -> Nat]
    /\ \A c \in CPU : Aged(c)
    /\ \A e \in Entry : blockers[e] \subseteq Reading
    /\ \A c \in CPU, e \in Entry : \A r \in Late(e) : Waited(c, e, r)
    /\ done \subseteq enqueued

-----------------------------------------------------------------------------
(* Counts *)

\* A count that wraps, one or two ahead.
LEMMA PlusSmall ==
    ASSUME NEW g \in Count, NEW n \in {1, 2}
    PROVE  Plus(g, n) = IF g + n < CountRange THEN g + n ELSE g + n - CountRange
    BY CountAssumption, SMTT(60) DEF Count, Plus

\* util_is_before sees that a target one or two periods ahead is not reached.
LEMMA AheadIsBefore ==
    ASSUME NEW g \in Count, NEW n \in {1, 2}
    PROVE  IsBefore(g, Plus(g, n))
    BY PlusSmall, CountAssumption, SMTT(60) DEF Count, IsBefore

\* The count of the next period differs, and twice one is two.
LEMMA PlusTwice ==
    ASSUME NEW g \in Count
    PROVE  /\ Plus(g, 1) \in Count /\ Plus(g, 1) # g
           /\ Plus(Plus(g, 1), 1) = Plus(g, 2)
<1>1. Plus(g, 1) = IF g + 1 < CountRange THEN g + 1 ELSE g + 1 - CountRange
    BY PlusSmall, ZenonT(60)
<1>2. Plus(g, 2) = IF g + 2 < CountRange THEN g + 2 ELSE g + 2 - CountRange
    BY PlusSmall, ZenonT(60)
<1>3. Plus(g, 1) \in Count /\ Plus(g, 1) # g
    BY <1>1, CountAssumption, SMTT(60) DEF Count
<1>4. Plus(Plus(g, 1), 1) = IF Plus(g, 1) + 1 < CountRange THEN Plus(g, 1) + 1
                            ELSE Plus(g, 1) + 1 - CountRange
    BY <1>3, PlusSmall, ZenonT(60)
<1> QED
    BY <1>1, <1>2, <1>3, <1>4, CountAssumption, SMTT(60) DEF Count

-----------------------------------------------------------------------------
(* Steps and the current period *)

Ticks ==
    age' = [c \in CPU |->
              IF pc[c] # "q_cas" \/ pc'[c] # "q_cas" THEN 0
              ELSE IF current_period'.generation # current_period.generation THEN age[c] + 1
              ELSE age[c]]

\* Only core c moves.
Actor(c) ==
    \A d \in CPU \ {c} :
       pc'[d] = pc[d] /\ cur'[d] = cur[d] /\ nxt'[d] = nxt[d] /\ target'[d] = target[d]

\* The period stays, cores other than readers leave its bitmap, or core c
\* publishes the next one.
PeriodStep(c) ==
    \/ /\ current_period'.generation = current_period.generation
       /\ current_period'.cpu_bitmap \subseteq current_period.cpu_bitmap
       /\ current_period.cpu_bitmap \cap Reading \subseteq current_period'.cpu_bitmap
    \/ /\ Publishing(c) /\ current_period' = nxt[c]
       /\ current_period'.generation = Plus(current_period.generation, 1)
       /\ current_period.cpu_bitmap \cap Reading = {}

\* Periods are records of a count and a set of cores.
LEMMA Fields ==
    ASSUME TypeOK
    PROVE  /\ current_period.generation \in Count
           /\ current_period = [generation |-> current_period.generation,
                                cpu_bitmap |-> current_period.cpu_bitmap]
           /\ \A d \in CPU : /\ cur[d].generation \in Count
                             /\ cur[d] = [generation |-> cur[d].generation,
                                          cpu_bitmap |-> cur[d].cpu_bitmap]
    BY ZenonT(60) DEF TypeOK, Period

\* How the history variable moves.
LEMMA AgeType ==
    ASSUME GInv, Ticks
    PROVE  /\ age' \in [CPU -> Nat]
           /\ \A d \in CPU : pc[d] = "q_cas" /\ pc'[d] = "q_cas" =>
                age'[d] = IF current_period'.generation # current_period.generation THEN age[d] + 1
                          ELSE age[d]
           /\ \A d \in CPU : pc[d] # "q_cas" => age'[d] = 0
    BY SMTT(60) DEF GInv, Ticks

\* A core whose load is of an earlier period does not find it again.
LEMMA OldIsDifferent ==
    ASSUME TypeOK, GInv, Fresh, NEW d \in CPU, pc[d] = "q_cas", age[d] # 0
    PROVE  current_period.generation # cur[d].generation
<1>1. /\ age[d] \in Nat /\ age[d] < CountRange
      /\ current_period.generation - cur[d].generation \in {age[d], age[d] - CountRange}
    BY ZenonT(60) DEF GInv, Aged, Fresh
<1>2. current_period.generation \in Count /\ cur[d].generation \in Count
    BY Fields, ZenonT(60)
<1> QED
    BY <1>1, <1>2, CountAssumption, SMTT(60) DEF Count

\* A core that waits at its compare-and-swap: what it knows stays true, and one
\* that could not publish cannot do so later.
LEMMA Waits ==
    ASSUME TypeOK, TypeOK', GInv, Fresh, Fresh', Ticks, NEW c \in CPU, PeriodStep(c),
           NEW d \in CPU, pc[d] = "q_cas", pc'[d] = "q_cas", cur'[d] = cur[d], nxt'[d] = nxt[d]
    PROVE  Aged(d)' /\ (Publishing(d)' => Publishing(d))
<1> DEFINE g == current_period.generation
           h == current_period'.generation
           k == cur[d].generation
           b == current_period.cpu_bitmap
           s == cur[d].cpu_bitmap
<1>1. /\ g \in Count /\ h \in Count /\ k \in Count /\ age[d] \in Nat /\ age'[d] \in Nat
      /\ age[d] < CountRange /\ age'[d] < CountRange
    <2>1. g \in Count /\ k \in Count
        BY Fields, ZenonT(60)
    <2>2. h \in Count
        BY ZenonT(60) DEF TypeOK, Period
    <2>3. age[d] \in Nat /\ age'[d] \in Nat
        BY AgeType DEF GInv
    <2> QED
        BY <2>1, <2>2, <2>3 DEF Fresh
<1>2. age'[d] = IF h # g THEN age[d] + 1 ELSE age[d]
    BY AgeType
<1>3. /\ s \subseteq {d}
      /\ \/ nxt[d] = [cur[d] EXCEPT !.cpu_bitmap = @ \ {d}]
         \/ nxt[d].generation = Plus(k, 1)
      /\ age[d] = 0 => g = k /\ b \subseteq s
      /\ g - k \in {age[d], age[d] - CountRange}
    BY <1>1, ZenonT(60) DEF GInv, Aged
<1>4. CASE h = g /\ current_period'.cpu_bitmap \subseteq b
    <2>1. age'[d] = age[d]
        BY <1>2, <1>4
    <2>2. Aged(d)'
        BY <1>3, <1>4, <2>1, ZenonT(60) DEF Aged
    <2>3. ASSUME Publishing(d)'
          PROVE  Publishing(d)
        <3>1. /\ cur[d] = current_period' /\ nxt[d].generation # cur[d].generation
            BY <2>3, ZenonT(60) DEF Publishing
        <3>2. g = k
            BY <1>4, <3>1
        <3>3. age[d] = 0
            BY <3>2, OldIsDifferent
        <3>4. b = s
            BY <1>3, <1>4, <3>1, <3>3, ZenonT(60)
        <3>5. cur[d] = current_period
            <4> HIDE DEF g, k, b, s
            <4>1. current_period = [generation |-> g, cpu_bitmap |-> b]
                BY Fields DEF g, b
            <4>2. cur[d] = [generation |-> k, cpu_bitmap |-> s]
                BY Fields DEF k, s
            <4> QED
                BY <3>2, <3>4, <4>1, <4>2
        <3> QED
            BY <3>1, <3>5 DEF Publishing
    <2> QED
        BY <2>2, <2>3
<1>5. CASE h = Plus(g, 1)
    <2>1. h # g /\ h = IF g + 1 < CountRange THEN g + 1 ELSE g + 1 - CountRange
        BY <1>1, <1>5, PlusTwice, PlusSmall
    <2>2. age'[d] = age[d] + 1
        BY <1>2, <2>1
    <2>3. h - k \in {age'[d], age'[d] - CountRange}
        <3> HIDE DEF g, h, k
        <3> QED
            BY <1>1, <1>3, <2>1, <2>2, CountAssumption, SMTT(60) DEF Count
    <2>4. age'[d] # 0
        BY <1>1, <2>2, SMTT(60)
    <2>5. Aged(d)'
        BY <1>3, <2>3, <2>4, ZenonT(60) DEF Aged
    <2>6. h # k
        <3> HIDE DEF g, h, k
        <3> QED
            BY <1>1, <2>3, <2>4, CountAssumption, SMTT(60) DEF Count
    <2>7. ~ Publishing(d)'
        BY <2>6, ZenonT(60) DEF Publishing
    <2> QED
        BY <2>5, <2>7
<1> QED
    BY <1>4, <1>5, ZenonT(60) DEF PeriodStep

\* A step of core c keeps what the cores know, and the samples of readers.
LEMMA Moved ==
    ASSUME TypeOK, TypeOK', GInv, Fresh, Fresh', Ticks, NEW c \in CPU, Actor(c), PeriodStep(c),
           pc'[c] = "q_cas" => Aged(c)' /\ (Publishing(c)' => Reading \subseteq nxt'[c].cpu_bitmap)
    PROVE  /\ age' \in [CPU -> Nat]
           /\ \A d \in CPU : Aged(d)'
           /\ \A r \in Reading : Sampled(r) => Sampled(r)'
<1>1. ASSUME NEW d \in CPU, pc'[d] = "q_cas"
      PROVE  /\ Aged(d)'
             /\ \A r \in Reading : Sampled(r) /\ Publishing(d)' => r \in nxt'[d].cpu_bitmap
    <2>1. CASE d = c
        BY <1>1, <2>1, ZenonT(60)
    <2>2. CASE d # c
        <3>1. pc[d] = "q_cas" /\ cur'[d] = cur[d] /\ nxt'[d] = nxt[d]
            BY <1>1, <2>2, ZenonT(60) DEF Actor
        <3>2. Aged(d)' /\ (Publishing(d)' => Publishing(d))
            BY <1>1, <3>1, Waits
        <3> QED
            BY <3>1, <3>2, ZenonT(60) DEF Sampled
    <2> QED
        BY <2>1, <2>2
<1>2. ASSUME NEW d \in CPU, pc'[d] # "q_cas"
      PROVE  Aged(d)' /\ ~ Publishing(d)'
    BY <1>2, ZenonT(60) DEF Aged, Publishing
<1>3. \A d \in CPU : Aged(d)'
    BY <1>1, <1>2, ZenonT(60)
<1>4. ASSUME NEW r \in Reading, Sampled(r)
      PROVE  Sampled(r)'
    BY <1>1, <1>2, <1>4, ZenonT(60) DEF Sampled
<1> QED
    BY <1>3, <1>4, AgeType, ZenonT(60)

\* A batch that waits for a reader goes on waiting when the period moves on.
LEMMA StillWaiting ==
    ASSUME TypeOK, NEW c \in CPU, PeriodStep(c), NEW r \in Reading, Sampled(r) => Sampled(r)',
           NEW t \in Count,
           \/ t = Plus(current_period.generation, 2) /\ Sampled(r)
           \/ t = Plus(current_period.generation, 1) /\ r \in current_period.cpu_bitmap
    PROVE  \/ t = Plus(current_period'.generation, 2) /\ Sampled(r)'
           \/ t = Plus(current_period'.generation, 1) /\ r \in current_period'.cpu_bitmap
<1>1. CASE /\ current_period'.generation = current_period.generation
           /\ current_period.cpu_bitmap \cap Reading \subseteq current_period'.cpu_bitmap
    BY <1>1, ZenonT(60)
<1>2. CASE /\ Publishing(c) /\ current_period' = nxt[c]
           /\ current_period'.generation = Plus(current_period.generation, 1)
           /\ current_period.cpu_bitmap \cap Reading = {}
    <2>1. r \notin current_period.cpu_bitmap
        BY <1>2, ZenonT(60)
    <2>2. t = Plus(current_period.generation, 2) /\ r \in current_period'.cpu_bitmap
        BY <1>2, <2>1, ZenonT(60) DEF Sampled
    <2>3. t = Plus(current_period'.generation, 1)
        BY <1>2, <2>2, Fields, PlusTwice, ZenonT(60)
    <2> QED
        BY <2>2, <2>3
<1> QED
    BY <1>1, <1>2, ZenonT(60) DEF PeriodStep

\* A step that changes no batch, no target and no update.
LEMMA Frame ==
    ASSUME TypeOK, TypeOK', GInv, Fresh, Fresh', Ticks, NEW c \in CPU, Actor(c), PeriodStep(c),
           pc'[c] = "q_cas" => Aged(c)' /\ (Publishing(c)' => Reading \subseteq nxt'[c].cpu_bitmap),
           Target(c)' = Target(c), Reading \subseteq Reading',
           UNCHANGED <<ready_batch, waiting_batch, next_batch, adding, enqueued, done, blockers, exposed>>
    PROVE  GInv'
<1>1. /\ age' \in [CPU -> Nat]
      /\ \A d \in CPU : Aged(d)'
      /\ \A r \in Reading : Sampled(r) => Sampled(r)'
    BY Moved
<1>2. \A d \in CPU : Target(d)' = Target(d) /\ Target(d) \in Count
    <2> TAKE d \in CPU
    <2>1. Target(d)' = Target(d)
        BY ZenonT(60) DEF Actor, Target
    <2>2. target[d] \in Count /\ cur[d].generation \in Count
        BY Fields DEF TypeOK
    <2>3. TargetAfter(cur[d].generation) \in Count
        BY <2>2, PlusType, ZenonT(60) DEF TargetAfter
    <2> QED
        BY <2>1, <2>2, <2>3, ZenonT(60) DEF Target
<1>3. ASSUME NEW d \in CPU, NEW e \in Entry, NEW r \in Late(e)'
      PROVE  Waited(d, e, r)'
    <2>1. r \in Late(e) /\ r \in Reading
        BY <1>3, ZenonT(60) DEF Late, GInv
    <2>2. Waited(d, e, r) /\ (Sampled(r) => Sampled(r)')
        BY <1>1, <2>1, ZenonT(60) DEF GInv
    <2>3. ASSUME e \in waiting_batch[d]
          PROVE  \/ Target(d)' = Plus(current_period'.generation, 2) /\ Sampled(r)'
                 \/ Target(d)' = Plus(current_period'.generation, 1) /\ r \in current_period'.cpu_bitmap
        <3>1. PICK t \in Count : t = Target(d)
            BY <1>2, ZenonT(60)
        <3>2. \/ t = Plus(current_period.generation, 2) /\ Sampled(r)
              \/ t = Plus(current_period.generation, 1) /\ r \in current_period.cpu_bitmap
            BY <2>2, <2>3, <3>1, ZenonT(60) DEF Waited
        <3>3. \/ t = Plus(current_period'.generation, 2) /\ Sampled(r)'
              \/ t = Plus(current_period'.generation, 1) /\ r \in current_period'.cpu_bitmap
            BY <2>1, <2>2, <3>2, StillWaiting, ZenonT(60)
        <3> QED
            BY <1>2, <3>1, <3>3, ZenonT(60)
    <2> QED
        BY <2>2, <2>3, ZenonT(60) DEF Waited
<1>4. \A e \in Entry : blockers'[e] \subseteq Reading'
    BY ZenonT(60) DEF GInv
<1>5. done' \subseteq enqueued'
    BY ZenonT(60) DEF GInv
<1> QED
    BY <1>1, <1>3, <1>4, <1>5, ZenonT(60) DEF GInv

-----------------------------------------------------------------------------
(* The actions *)

\* A reader is in the active set, and quiesces only after it has finished.
LEMMA ReaderFacts ==
    ASSUME IInv, NEW r \in Reading
    PROVE  r \in CPU /\ pc[r] \in {"read", "e_active", "e_ipis"} /\ r \in active_cpus
<1>1. r \in CPU /\ (pc[r] = "read" \/ ret[r]["enqueue"] = "read")
    BY ZenonT(60) DEF Reading
<1>2. Stack(r) /\ Activity(r)
    BY <1>1, ZenonT(60) DEF IInv, ControlInv
<1>3. pc[r] \in {"read", "e_active", "e_ipis"}
    BY <1>1, <1>2, ZenonT(60) DEF Stack, NotCalled, InQuiesce, InNotify, InEnqueue, Procedure
<1> QED
    BY <1>1, <1>2, <1>3, ZenonT(60) DEF Activity, Leaving, InQuiesce

\* Steps that leave the period, the targets, the batches and the updates alone.
Quiet(c) ==
    /\ UNCHANGED <<current_period, target, ready_batch, waiting_batch, next_batch, adding, enqueued,
                   done, blockers, exposed>>
    /\ \A d \in CPU \ {c} : pc'[d] = pc[d] /\ ret'[d] = ret[d] /\ cur'[d] = cur[d] /\ nxt'[d] = nxt[d]
    /\ pc[c] # "r_store" /\ pc'[c] # "r_store" /\ pc'[c] # "q_cas"
    /\ pc[c] = "read" \/ ret[c]["enqueue"] = "read" => pc'[c] = "read" \/ ret'[c]["enqueue"] = "read"

\* Quiet steps preserve the invariant.
LEMMA QuietStep ==
    ASSUME IInv, TypeOK', GInv, Fresh, Fresh', Ticks, NEW c \in CPU, Quiet(c)
    PROVE  GInv'
<1>1. TypeOK
    BY DEF IInv
<1>2. Actor(c) /\ PeriodStep(c) /\ pc'[c] # "q_cas"
    BY ZenonT(60) DEF Quiet, Actor, PeriodStep
<1>3. Target(c)' = Target(c)
    BY ZenonT(60) DEF Quiet, Target
<1>4. Reading \subseteq Reading'
    <2> SUFFICES ASSUME NEW d \in CPU, pc[d] = "read" \/ ret[d]["enqueue"] = "read"
                 PROVE  pc'[d] = "read" \/ ret'[d]["enqueue"] = "read"
        BY ZenonT(60) DEF Reading
    <2> QED
        BY ZenonT(60) DEF Quiet
<1>5. UNCHANGED <<ready_batch, waiting_batch, next_batch, adding, enqueued, done, blockers, exposed>>
    BY ZenonT(60) DEF Quiet
<1> QED
    BY <1>1, <1>2, <1>3, <1>4, <1>5, Frame, ZenonT(60)

\* The steps outside the compare-and-swap that move no update.
LEMMA QuietActions ==
    ASSUME IInv, NEW c \in CPU,
           \/ rcu_read_start(c)
           \/ refresh_active_load(c)
           \/ refresh_active_send(c)
           \/ enter_hyp(c)
           \/ ipi_wakeup(c)
           \/ maybe_deactivate_cpu(c)
           \/ exit_check(c)
           \/ try_deactivate_cpu(c)
           \/ power_cpu_offline(c)
           \/ boot_cpu_warm_init(c)
           \/ scheduler_quiescent(c)
           \/ quiesce_clear_ipi(c)
           \/ quiesce_find_raced(c)
           \/ quiesce_send(c)
           \/ quiesce_finish(c)
           \/ quiesce_again(c)
           \/ notify_nothing(c)
           \/ notify_update_first(c)
           \/ request_reload(c)
           \/ request_raise_max(c)
           \/ update_finish(c)
           \/ take_ipis(c)
           \/ ipi_received(c)
           \/ ipis_handled(c)
           \/ rcu_expedite(c)
           \/ expedite_step(c)
           \/ expedite_give_up(c)
    PROVE  Quiet(c)
<1>0. /\ pc \in [CPU -> Label] /\ ret \in [CPU -> [Procedure -> Label]]
      /\ cur \in [CPU -> Period] /\ nxt \in [CPU -> Period]
    BY ZenonT(60) DEF IInv, TypeOK
<1>28. /\ \A p \in Procedure : ret[c][p] # "q_cas" /\ ret[c][p] # "r_store"
       /\ pc[c] = "read" \/ ret[c]["enqueue"] = "read" => pc[c] \in {"read", "e_active", "e_ipis"}
    <2>1. Stack(c)
        BY DEF IInv, ControlInv
    <2> QED
        BY <2>1, ZenonT(60) DEF Stack, NotCalled, NotifyFrames, UpdateFrames, EnqueueFrames, InQuiesce,
                              InNotify, InEnqueue, Leaving, Procedure
<1> USE <1>0, <1>28 DEF Goto, Call, Return, Quiet, Procedure, rcu, period, queues, batches, locals, work,
        rest, ghosts
<1>1. CASE rcu_read_start(c)
    BY <1>1, ZenonT(60) DEF rcu_read_start
<1>2. CASE refresh_active_load(c)
    BY <1>2, ZenonT(60) DEF refresh_active_load
<1>3. CASE refresh_active_send(c)
    BY <1>3, ZenonT(60) DEF refresh_active_send
<1>4. CASE enter_hyp(c)
    BY <1>4, ZenonT(60) DEF enter_hyp, Activate
<1>5. CASE ipi_wakeup(c)
    BY <1>5, ZenonT(60) DEF ipi_wakeup, Activate
<1>6. CASE maybe_deactivate_cpu(c)
    BY <1>6, ZenonT(60) DEF maybe_deactivate_cpu, Deactivate
<1>7. CASE exit_check(c)
    BY <1>7, ZenonT(60) DEF exit_check, Activate
<1>8. CASE try_deactivate_cpu(c)
    BY <1>8, ZenonT(60) DEF try_deactivate_cpu, Deactivate
<1>9. CASE power_cpu_offline(c)
    BY <1>9, ZenonT(60) DEF power_cpu_offline, Deactivate
<1>10. CASE boot_cpu_warm_init(c)
    BY <1>10, ZenonT(60) DEF boot_cpu_warm_init, Activate
<1>11. CASE scheduler_quiescent(c)
    BY <1>11, ZenonT(60) DEF scheduler_quiescent
<1>12. CASE quiesce_clear_ipi(c)
    BY <1>12, ZenonT(60) DEF quiesce_clear_ipi
<1>13. CASE quiesce_find_raced(c)
    BY <1>13, ZenonT(60) DEF quiesce_find_raced
<1>14. CASE quiesce_send(c)
    BY <1>14, ZenonT(60) DEF quiesce_send
<1>15. CASE quiesce_finish(c)
    BY <1>15, ZenonT(60) DEF quiesce_finish
<1>16. CASE quiesce_again(c)
    BY <1>16, ZenonT(60) DEF quiesce_again
<1>17. CASE notify_nothing(c)
    BY <1>17, ZenonT(60) DEF notify_nothing
<1>18. CASE notify_update_first(c)
    BY <1>18, ZenonT(60) DEF notify_update_first
<1>19. CASE request_reload(c)
    BY <1>19, ZenonT(60) DEF request_reload
<1>20. CASE request_raise_max(c)
    BY <1>20, ZenonT(60) DEF request_raise_max
<1>21. CASE update_finish(c)
    BY <1>21, ZenonT(60) DEF update_finish
<1>22. CASE take_ipis(c)
    BY <1>22, ZenonT(60) DEF take_ipis
<1>23. CASE ipi_received(c)
    BY <1>23, ZenonT(60) DEF ipi_received, Dispatch
<1>24. CASE ipis_handled(c)
    BY <1>24, ZenonT(60) DEF ipis_handled
<1>25. CASE rcu_expedite(c)
    BY <1>25, ZenonT(60) DEF rcu_expedite
<1>26. CASE expedite_step(c)
    <2>1. /\ pc[c] \in {"x_notify", "x_quiesce", "x_again", "x_update"}
          /\ ExpediteNext[pc[c]] \in {"x_quiesce", "x_again", "x_update", "hyp"}
        BY <1>26, ExpediteLabels, ZenonT(60) DEF expedite_step
    <2>2. \/ \E l \in {"quiesce", "notify", "u_run"}, p \in {"quiesce", "notify", "update"} :
                Call(c, p, l, ExpediteNext[pc[c]])
          \/ Goto(c, ExpediteNext[pc[c]]) /\ UNCHANGED ret
        BY <1>26, ZenonT(60) DEF expedite_step, Dispatch
    <2>3. UNCHANGED <<rcu, locals, work>>
        BY <1>26, ZenonT(60) DEF expedite_step
    <2> QED
        BY <2>1, <2>2, <2>3, ZenonT(60)
<1>27. CASE expedite_give_up(c)
    BY <1>27, ZenonT(60) DEF expedite_give_up
<1> QED
    BY <1>1, <1>2, <1>3, <1>4, <1>5, <1>6, <1>7, <1>8, <1>9, <1>10, <1>11, <1>12, <1>13, <1>14, <1>15,
       <1>16, <1>17, <1>18, <1>19, <1>20, <1>21, <1>22, <1>23, <1>24, <1>25, <1>26, <1>27, ZenonT(60)

\* A step that leaves the period alone and is not at the compare-and-swap.
LEMMA Settled ==
    ASSUME IInv, TypeOK', GInv, Fresh, Fresh', Ticks, NEW c \in CPU, Actor(c),
           UNCHANGED current_period, pc'[c] # "q_cas"
    PROVE  /\ age' \in [CPU -> Nat]
           /\ \A d \in CPU : Aged(d)'
           /\ \A r \in Reading : Sampled(r) => Sampled(r)'
           /\ \A d \in CPU \ {c} : Target(d)' = Target(d)
<1>1. TypeOK
    BY DEF IInv
<1>2. PeriodStep(c)
    BY ZenonT(60) DEF PeriodStep
<1>3. \A d \in CPU \ {c} : Target(d)' = Target(d)
    BY ZenonT(60) DEF Actor, Target
<1> QED
    BY <1>1, <1>2, <1>3, Moved, ZenonT(60)

\* The end of a critical section.
LEMMA ReadFinishStep ==
    ASSUME IInv, TypeOK', GInv, Fresh, Fresh', Ticks, NEW c \in CPU, rcu_read_finish(c)
    PROVE  GInv'
<1> USE DEF rcu, period, queues, batches, locals
<1>0. TypeOK
    BY ZenonT(60) DEF IInv
<1>1. /\ pc[c] = "read" /\ pc' = [pc EXCEPT ![c] = "hyp"]
      /\ blockers' = [e \in Entry |-> blockers[e] \ {c}]
      /\ UNCHANGED <<current_period, target, ready_batch, waiting_batch, next_batch, adding, enqueued,
                     done, exposed, ret, cur, nxt>>
    BY ZenonT(60) DEF rcu_read_finish, Goto
<1>2. pc'[c] = "hyp" /\ \A d \in CPU \ {c} : pc'[d] = pc[d]
    BY <1>0, <1>1, ZenonT(60) DEF TypeOK
<1>3. Actor(c) /\ pc'[c] # "q_cas"
    BY <1>1, <1>2, ZenonT(60) DEF Actor
<1>4. /\ age' \in [CPU -> Nat]
      /\ \A d \in CPU : Aged(d)'
      /\ \A r \in Reading : Sampled(r) => Sampled(r)'
      /\ \A d \in CPU \ {c} : Target(d)' = Target(d)
    BY <1>1, <1>3, Settled, ZenonT(60)
<1>5. Target(c)' = Target(c)
    BY <1>1, <1>2, ZenonT(60) DEF Target
<1>6. \A e \in Entry : blockers'[e] \subseteq Reading'
    BY <1>1, <1>2, ZenonT(60) DEF GInv, Reading
<1>7. ASSUME NEW d \in CPU, NEW e \in Entry, NEW r \in Late(e)'
      PROVE  Waited(d, e, r)'
    <2>1. r \in Late(e) /\ r \in Reading
        BY <1>1, <1>7, ZenonT(60) DEF Late, GInv
    <2>2. Waited(d, e, r) /\ (Sampled(r) => Sampled(r)') /\ Target(d)' = Target(d)
        BY <1>4, <1>5, <2>1, ZenonT(60) DEF GInv
    <2> QED
        BY <1>1, <2>2, ZenonT(60) DEF Waited
<1>8. done' \subseteq enqueued'
    BY <1>1, ZenonT(60) DEF GInv
<1> QED
    BY <1>4, <1>6, <1>7, <1>8, ZenonT(60) DEF GInv

\* An update is enqueued: the readers that it has to wait for have been sampled.
LEMMA EnqueueStep ==
    ASSUME IInv, TypeOK', GInv, Fresh, Fresh', Ticks, NEW c \in CPU, NEW n \in Entry, rcu_enqueue(c, n)
    PROVE  GInv'
<1> USE DEF rcu, period, queues, batches, locals
<1>0. TypeOK
    BY ZenonT(60) DEF IInv
<1>1. /\ pc[c] \in {"hyp", "read", "u_run"} /\ n \notin enqueued
      /\ enqueued' = enqueued \cup {n}
      /\ blockers' = [blockers EXCEPT ![n] = Reading]
      /\ exposed' = [exposed EXCEPT ![n] = Unsampled]
      /\ UNCHANGED <<current_period, target, ready_batch, waiting_batch, done, cur, nxt>>
      /\ \/ /\ pc' = [pc EXCEPT ![c] = "e_active"] /\ ret' = [ret EXCEPT ![c]["enqueue"] = pc[c]]
            /\ adding' = [adding EXCEPT ![c] = {n}] /\ next_batch' = next_batch
         \/ /\ next_batch' = [next_batch EXCEPT ![c] = @ \cup {n}]
            /\ UNCHANGED <<pc, ret, adding>>
    BY ZenonT(60) DEF rcu_enqueue, Insert, Call, Goto
<1>2. /\ pc'[c] = "e_active" \/ pc'[c] = pc[c]
      /\ \A d \in CPU \ {c} : pc'[d] = pc[d]
    <2>1. pc \in [CPU -> Label]
        BY <1>0, ZenonT(60) DEF TypeOK
    <2>2. pc' = [pc EXCEPT ![c] = "e_active"] \/ pc' = pc
        BY <1>1, ZenonT(60)
    <2> QED
        BY <2>1, <2>2, ZenonT(60)
<1>3. Actor(c) /\ pc'[c] # "q_cas" /\ pc[c] # "r_store" /\ pc'[c] # "r_store"
    <2>1. Actor(c)
        BY <1>1, <1>2, ZenonT(60) DEF Actor
    <2> QED
        BY <1>1, <1>2, <2>1, ZenonT(60)
<1>4. /\ age' \in [CPU -> Nat]
      /\ \A d \in CPU : Aged(d)'
      /\ \A r \in Reading : Sampled(r) => Sampled(r)'
      /\ \A d \in CPU : Target(d)' = Target(d)
    <2>1. Target(c)' = Target(c)
        BY <1>1, <1>3, ZenonT(60) DEF Target
    <2> QED
        BY <1>1, <1>3, <2>1, Settled, ZenonT(60)
<1>5. Reading \subseteq Reading'
    <2> SUFFICES ASSUME NEW d \in CPU, pc[d] = "read" \/ ret[d]["enqueue"] = "read"
                 PROVE  pc'[d] = "read" \/ ret'[d]["enqueue"] = "read"
        BY ZenonT(60) DEF Reading
    <2>1. d = c => pc[c] = "read"
        <3> SUFFICES ASSUME d = c PROVE pc[c] = "read"
            OBVIOUS
        <3>1. c \in Reading
            BY ZenonT(60) DEF Reading
        <3>2. pc[c] \in {"read", "e_active", "e_ipis"}
            BY <3>1, ReaderFacts
        <3> QED
            BY <1>1, <3>2, ZenonT(60)
    <2>2. ret \in [CPU -> [Procedure -> Label]] /\ "enqueue" \in Procedure
        BY <1>0 DEF TypeOK, Procedure
    <2>3. CASE d = c
        <3>1. pc' = pc \/ ret' = [ret EXCEPT ![c]["enqueue"] = pc[c]]
            BY <1>1, ZenonT(60)
        <3> QED
            BY <2>1, <2>2, <2>3, <3>1, ZenonT(60)
    <2>4. CASE d # c
        <3>1. ret'[d] = ret[d]
            BY <1>1, <2>2, <2>4, ZenonT(60)
        <3> QED
            BY <1>2, <2>4, <3>1, ZenonT(60)
    <2> QED
        BY <2>3, <2>4
<1>T. blockers \in [Entry -> SUBSET CPU] /\ exposed \in [Entry -> SUBSET CPU]
    BY <1>0 DEF TypeOK
<1>6. /\ blockers'[n] = Reading /\ exposed'[n] = Unsampled
      /\ \A e \in Entry \ {n} : blockers'[e] = blockers[e] /\ exposed'[e] = exposed[e]
    BY <1>1, <1>T, ZenonT(60)
<1>7. \A e \in Entry : blockers'[e] \subseteq Reading'
    BY <1>5, <1>6, ZenonT(60) DEF GInv
<1>8. \A d \in CPU : n \notin ready_batch[d] \cup waiting_batch[d]
    BY <1>1, ZenonT(60) DEF IInv, BatchInv
<1>9. \A d \in CPU, e \in Entry \ {n} :
         /\ e \in adding'[d] => e \in adding[d]
         /\ e \in next_batch'[d] => e \in next_batch[d]
    <2>1. adding' = [adding EXCEPT ![c] = {n}] \/ adding' = adding
        BY <1>1, ZenonT(60)
    <2>2. next_batch' = [next_batch EXCEPT ![c] = @ \cup {n}] \/ next_batch' = next_batch
        BY <1>1, ZenonT(60)
    <2>3. adding \in [CPU -> SUBSET Entry] /\ next_batch \in [CPU -> SUBSET Entry]
        BY <1>0 DEF TypeOK
    <2> TAKE d \in CPU, e \in Entry \ {n}
    <2>4. e \in adding'[d] => e \in adding[d]
        BY <2>1, <2>3, ZenonT(60)
    <2>5. e \in next_batch'[d] => e \in next_batch[d]
        BY <2>2, <2>3, ZenonT(60)
    <2> QED
        BY <2>4, <2>5
<1>10. ASSUME NEW d \in CPU, NEW e \in Entry, NEW r \in Late(e)'
       PROVE  Waited(d, e, r)'
    <2>1. CASE e = n
        <3>1. r \in Reading /\ r \notin Unsampled
            BY <1>6, <2>1, ZenonT(60) DEF Late
        <3>2. Sampled(r)
            BY <3>1, ZenonT(60) DEF Unsampled, Sampled
        <3>3. Sampled(r)'
            BY <1>4, <3>1, <3>2, ZenonT(60)
        <3>4. n \notin ready_batch'[d] \cup done' /\ n \notin waiting_batch'[d]
            BY <1>1, <1>8, ZenonT(60) DEF GInv
        <3> QED
            BY <2>1, <3>3, <3>4, ZenonT(60) DEF Waited
    <2>2. CASE e # n
        <3>1. r \in Late(e) /\ r \in Reading
            BY <1>6, <2>2, ZenonT(60) DEF Late, GInv
        <3>2. Waited(d, e, r) /\ (Sampled(r) => Sampled(r)') /\ Target(d)' = Target(d)
            BY <1>4, <3>1, ZenonT(60) DEF GInv
        <3> QED
            BY <1>1, <1>9, <2>2, <3>2, ZenonT(60) DEF Waited
    <2> QED
        BY <2>1, <2>2
<1>11. done' \subseteq enqueued'
    BY <1>1, ZenonT(60) DEF GInv
<1> QED
    BY <1>4, <1>7, <1>10, <1>11, ZenonT(60) DEF GInv

\* The update that was being added joins next_batch.
LEMMA EnqueueFinishStep ==
    ASSUME IInv, TypeOK', GInv, Fresh, Fresh', Ticks, NEW c \in CPU, rcu_enqueue_finish(c)
    PROVE  GInv'
<1> USE DEF rcu, period, queues, batches, locals, ghosts
<1>0. TypeOK
    BY ZenonT(60) DEF IInv
<1>1. /\ pc[c] = "e_ipis" /\ pc' = [pc EXCEPT ![c] = ret[c]["enqueue"]]
      /\ ret' = [ret EXCEPT ![c]["enqueue"] = "hyp"]
      /\ next_batch' = [next_batch EXCEPT ![c] = @ \cup adding[c]]
      /\ adding' = [adding EXCEPT ![c] = {}]
      /\ UNCHANGED <<current_period, target, ready_batch, waiting_batch, done, enqueued, blockers,
                     exposed, cur, nxt>>
    BY ZenonT(60) DEF rcu_enqueue_finish, Insert, Return, Goto
<1>2. /\ pc'[c] = ret[c]["enqueue"]
      /\ \A d \in CPU \ {c} : pc'[d] = pc[d]
    BY <1>0, <1>1, ZenonT(60) DEF TypeOK
<1>3. Actor(c) /\ pc'[c] # "q_cas" /\ pc[c] # "r_store" /\ pc'[c] # "r_store"
    <2>1. Actor(c)
        BY <1>1, <1>2, ZenonT(60) DEF Actor
    <2>2. ret[c]["enqueue"] \in {"hyp", "read", "u_run"}
        <3>1. Stack(c)
            BY DEF IInv, ControlInv
        <3> QED
            BY <1>1, <3>1, ZenonT(60) DEF Stack, InEnqueue, EnqueueFrames
    <2> QED
        BY <1>1, <1>2, <2>1, <2>2, ZenonT(60)
<1>4. /\ age' \in [CPU -> Nat]
      /\ \A d \in CPU : Aged(d)'
      /\ \A r \in Reading : Sampled(r) => Sampled(r)'
      /\ \A d \in CPU : Target(d)' = Target(d)
    <2>1. Target(c)' = Target(c)
        BY <1>1, <1>3, ZenonT(60) DEF Target
    <2> QED
        BY <1>1, <1>3, <2>1, Settled, ZenonT(60)
<1>5. Reading \subseteq Reading'
    <2> SUFFICES ASSUME NEW d \in CPU, pc[d] = "read" \/ ret[d]["enqueue"] = "read"
                 PROVE  pc'[d] = "read" \/ ret'[d]["enqueue"] = "read"
        BY ZenonT(60) DEF Reading
    <2>1. CASE d = c
        BY <1>1, <1>2, <2>1, ZenonT(60)
    <2>2. CASE d # c
        <3>1. ret'[d] = ret[d]
            BY <1>0, <1>1, <2>2, ZenonT(60) DEF TypeOK
        <3> QED
            BY <1>2, <2>2, <3>1, ZenonT(60)
    <2> QED
        BY <2>1, <2>2
<1>6. \A e \in Entry : blockers'[e] \subseteq Reading'
    BY <1>1, <1>5, ZenonT(60) DEF GInv
<1>7. \A d \in CPU : adding'[d] \cup next_batch'[d] \subseteq adding[d] \cup next_batch[d]
    BY <1>0, <1>1, ZenonT(60) DEF TypeOK
<1>8. ASSUME NEW d \in CPU, NEW e \in Entry, NEW r \in Late(e)'
      PROVE  Waited(d, e, r)'
    <2>1. r \in Late(e) /\ r \in Reading
        BY <1>1, <1>8, ZenonT(60) DEF Late, GInv
    <2>2. Waited(d, e, r) /\ (Sampled(r) => Sampled(r)') /\ Target(d)' = Target(d)
        BY <1>4, <2>1, ZenonT(60) DEF GInv
    <2> QED
        BY <1>1, <1>7, <2>2, ZenonT(60) DEF Waited
<1>9. done' \subseteq enqueued'
    BY <1>1, ZenonT(60) DEF GInv
<1> QED
    BY <1>4, <1>6, <1>8, <1>9, ZenonT(60) DEF GInv

\* One attempt of rcu_bitmap_quiesce: an acknowledgement, or a load and a sample.
LEMMA AttemptStep ==
    ASSUME IInv, TypeOK', GInv, Fresh, Fresh', Ticks, NEW c \in CPU, quiesce_attempt(c)
    PROVE  GInv'
<1> USE DEF queues, batches, work, rest, ghosts
<1>0. TypeOK
    BY ZenonT(60) DEF IInv
<1> DEFINE acked == [current_period EXCEPT !.cpu_bitmap = @ \ {c}]
<1>1. /\ pc[c] = "quiesce"
      /\ UNCHANGED <<target, ready_batch, waiting_batch, next_batch, adding, enqueued, done, blockers,
                     exposed>>
      /\ \/ /\ current_period' = acked /\ pc' = [pc EXCEPT ![c] = ret[c]["quiesce"]]
            /\ ret' = [ret EXCEPT ![c]["quiesce"] = "hyp"] /\ UNCHANGED <<cur, nxt>>
         \/ /\ acked.cpu_bitmap = {} /\ pc' = [pc EXCEPT ![c] = "q_cas"]
            /\ UNCHANGED <<current_period, ret>>
            /\ cur' = [cur EXCEPT ![c] = current_period]
            /\ nxt' = [nxt EXCEPT ![c] =
                         IF max_target # current_period.generation
                           THEN [generation |-> Plus(current_period.generation, 1),
                                 cpu_bitmap |-> active_cpus]
                           ELSE acked]
    BY ZenonT(60) DEF quiesce_attempt, Return, Goto
<1>2. /\ acked.generation = current_period.generation
      /\ acked.cpu_bitmap = current_period.cpu_bitmap \ {c}
    BY <1>0, ZenonT(60) DEF TypeOK, Period
<1> HIDE DEF acked
<1>3. c \notin Reading
    <2>1. pc[c] \notin {"read", "e_active", "e_ipis"}
        BY <1>1
    <2> QED
        BY <2>1, ReaderFacts, ZenonT(60)
<1>4. Reading \subseteq Reading'
    <2> SUFFICES ASSUME NEW d \in CPU \ {c}, pc[d] = "read" \/ ret[d]["enqueue"] = "read"
                 PROVE  pc'[d] = "read" \/ ret'[d]["enqueue"] = "read"
        BY <1>3, ZenonT(60) DEF Reading
    <2>1. pc'[d] = pc[d] /\ ret'[d] = ret[d]
        <3>1. pc' = [pc EXCEPT ![c] = ret[c]["quiesce"]] \/ pc' = [pc EXCEPT ![c] = "q_cas"]
            BY <1>1, ZenonT(60)
        <3>2. ret' = [ret EXCEPT ![c]["quiesce"] = "hyp"] \/ ret' = ret
            BY <1>1, ZenonT(60)
        <3> QED
            BY <1>0, <3>1, <3>2, ZenonT(60) DEF TypeOK
    <2> QED
        BY <2>1, ZenonT(60)
<1>T. pc \in [CPU -> Label] /\ cur \in [CPU -> Period] /\ nxt \in [CPU -> Period]
    BY <1>0 DEF TypeOK
<1>5. Actor(c)
    BY <1>1, <1>T, ZenonT(60) DEF Actor
<1>6. CASE /\ current_period' = acked /\ pc' = [pc EXCEPT ![c] = ret[c]["quiesce"]]
    <2>1. pc'[c] = ret[c]["quiesce"]
        BY <1>0, <1>6, ZenonT(60) DEF TypeOK
    <2>2. pc'[c] # "q_cas" /\ pc'[c] # "r_store"
        <3>1. Stack(c)
            BY DEF IInv, ControlInv
        <3> QED
            BY <1>1, <2>1, <3>1, ZenonT(60) DEF Stack, InQuiesce, Leaving
    <2>3. PeriodStep(c)
        BY <1>2, <1>3, <1>6, ZenonT(60) DEF PeriodStep
    <2>4. Target(c)' = Target(c)
        <3>1. pc[c] # "r_store"
            BY <1>1
        <3> QED
            BY <1>1, <2>2, <3>1, ZenonT(60) DEF Target
    <2> QED
        BY <1>0, <1>1, <1>4, <1>5, <2>2, <2>3, <2>4, Frame, ZenonT(60)
<1>7. CASE /\ acked.cpu_bitmap = {} /\ pc' = [pc EXCEPT ![c] = "q_cas"]
           /\ UNCHANGED current_period
           /\ cur' = [cur EXCEPT ![c] = current_period]
           /\ nxt' = [nxt EXCEPT ![c] =
                        IF max_target # current_period.generation
                          THEN [generation |-> Plus(current_period.generation, 1),
                                cpu_bitmap |-> active_cpus]
                          ELSE acked]
    <2>1. /\ pc'[c] = "q_cas" /\ cur'[c] = current_period
          /\ nxt'[c] = IF max_target # current_period.generation
                         THEN [generation |-> Plus(current_period.generation, 1),
                               cpu_bitmap |-> active_cpus]
                         ELSE acked
        BY <1>7, <1>T, ZenonT(60)
    <2>2. age'[c] = 0
        BY <1>1, AgeType, ZenonT(60)
    <2>3. Aged(c)'
        <3>1. current_period.cpu_bitmap \subseteq {c}
            BY <1>2, <1>7, ZenonT(60)
        <3>2. \/ nxt'[c] = [cur'[c] EXCEPT !.cpu_bitmap = @ \ {c}]
              \/ nxt'[c].generation = Plus(cur'[c].generation, 1)
            BY <2>1, SMTT(60) DEF acked
        <3>3. current_period'.generation - cur'[c].generation \in {age'[c], age'[c] - CountRange}
            <4>1. current_period.generation \in Nat
                BY <1>0, Fields DEF Count
            <4> QED
                BY <1>7, <2>1, <2>2, <4>1, SMTT(60)
        <3> QED
            BY <1>7, <2>1, <3>1, <3>2, <3>3, ZenonT(60) DEF Aged
    <2>4. Publishing(c)' => Reading \subseteq nxt'[c].cpu_bitmap
        <3>1. Reading \subseteq active_cpus
            BY ReaderFacts, ZenonT(60)
        <3>2. acked.generation = current_period.generation
            BY <1>2
        <3>3. Publishing(c)' => nxt'[c].generation # current_period.generation
            BY <2>1, ZenonT(60) DEF Publishing
        <3> QED
            BY <2>1, <3>1, <3>2, <3>3, SMTT(60)
    <2>5. PeriodStep(c)
        BY <1>7, ZenonT(60) DEF PeriodStep
    <2>6. Target(c)' = Target(c)
        <3>1. pc[c] # "r_store" /\ pc'[c] # "r_store"
            BY <1>1, <2>1
        <3> QED
            BY <1>1, <3>1, ZenonT(60) DEF Target
    <2> QED
        BY <1>0, <1>1, <1>4, <1>5, <2>3, <2>4, <2>5, <2>6, Frame, ZenonT(60)
<1> QED
    BY <1>1, <1>6, <1>7, ZenonT(60)

\* The compare-and-swap.
LEMMA PublishStep ==
    ASSUME IInv, TypeOK', GInv, Fresh, Fresh', Ticks, NEW c \in CPU, quiesce_publish(c)
    PROVE  GInv'
<1> USE DEF queues, batches, work, rest, ghosts
<1>0. TypeOK
    BY ZenonT(60) DEF IInv
<1>1. /\ pc[c] = "q_cas"
      /\ UNCHANGED <<target, ready_batch, waiting_batch, next_batch, adding, enqueued, done, blockers,
                     exposed>>
      /\ cur' = [cur EXCEPT ![c] = NoPeriod]
      /\ nxt' = [nxt EXCEPT ![c] = NoPeriod] \/ nxt' = nxt
      /\ \/ pc' = [pc EXCEPT ![c] = "quiesce"] \/ pc' = [pc EXCEPT ![c] = "q_needing"]
         \/ pc' = [pc EXCEPT ![c] = ret[c]["quiesce"]]
      /\ ret' = [ret EXCEPT ![c]["quiesce"] = "hyp"] \/ ret' = ret
      /\ current_period' = current_period \/ (current_period = cur[c] /\ current_period' = nxt[c])
    BY ZenonT(60) DEF quiesce_publish, Return, Goto
<1>T. pc \in [CPU -> Label]
    BY <1>0 DEF TypeOK
<1>2. /\ pc'[c] = "quiesce" \/ pc'[c] = "q_needing" \/ pc'[c] = ret[c]["quiesce"]
      /\ \A d \in CPU \ {c} : pc'[d] = pc[d]
    BY <1>1, <1>T, ZenonT(60)
<1>3. c \notin Reading
    <2>1. pc[c] \notin {"read", "e_active", "e_ipis"}
        BY <1>1
    <2> QED
        BY <2>1, ReaderFacts, ZenonT(60)
<1>4. Reading \subseteq Reading'
    <2> SUFFICES ASSUME NEW d \in CPU \ {c}, pc[d] = "read" \/ ret[d]["enqueue"] = "read"
                 PROVE  pc'[d] = "read" \/ ret'[d]["enqueue"] = "read"
        BY <1>3, ZenonT(60) DEF Reading
    <2>1. ret'[d] = ret[d]
        <3>1. ret' = [ret EXCEPT ![c]["quiesce"] = "hyp"] \/ ret' = ret
            BY <1>1, ZenonT(60)
        <3> QED
            BY <1>0, <3>1, ZenonT(60) DEF TypeOK
    <2> QED
        BY <1>2, <2>1, ZenonT(60)
<1>5. Actor(c)
    BY <1>0, <1>1, <1>2, ZenonT(60) DEF TypeOK, Actor
<1>6. pc'[c] # "q_cas" /\ pc'[c] # "r_store" /\ pc[c] # "r_store"
    <2>1. Stack(c)
        BY DEF IInv, ControlInv
    <2> QED
        BY <1>1, <1>2, <2>1, ZenonT(60) DEF Stack, InQuiesce, Leaving
<1>7. PeriodStep(c)
    <2>1. CASE current_period' = current_period
        BY <2>1, ZenonT(60) DEF PeriodStep
    <2>2. CASE current_period = cur[c] /\ current_period' = nxt[c]
        <3>1. /\ cur[c].cpu_bitmap \subseteq {c}
              /\ \/ nxt[c] = [cur[c] EXCEPT !.cpu_bitmap = @ \ {c}]
                 \/ nxt[c].generation = Plus(cur[c].generation, 1)
            BY <1>1, ZenonT(60) DEF GInv, Aged
        <3>2. current_period.cpu_bitmap \cap Reading = {}
            BY <1>3, <2>2, <3>1, ZenonT(60)
        <3>3. CASE nxt[c] = [cur[c] EXCEPT !.cpu_bitmap = @ \ {c}]
            <4>1. /\ nxt[c].generation = current_period.generation
                  /\ nxt[c].cpu_bitmap = current_period.cpu_bitmap \ {c}
                BY <1>0, <2>2, <3>3, ZenonT(60) DEF TypeOK, Period
            <4> QED
                BY <2>2, <3>2, <4>1, ZenonT(60) DEF PeriodStep
        <3>4. CASE nxt[c].generation = Plus(cur[c].generation, 1)
            <4>1. current_period.generation \in Count
                BY <1>0, Fields
            <4>2. nxt[c].generation # cur[c].generation
                BY <2>2, <3>4, <4>1, PlusTwice
            <4>3. Publishing(c)
                BY <1>1, <2>2, <4>2, ZenonT(60) DEF Publishing
            <4> QED
                BY <2>2, <3>2, <3>4, <4>3, ZenonT(60) DEF PeriodStep
        <3> QED
            BY <3>1, <3>3, <3>4
    <2> QED
        BY <1>1, <2>1, <2>2
<1>8. Target(c)' = Target(c)
    BY <1>1, <1>6, ZenonT(60) DEF Target
<1> QED
    BY <1>0, <1>1, <1>4, <1>5, <1>6, <1>7, <1>8, Frame, ZenonT(60)

\* rcu_bitmap_notify shifts the batches: the batch that becomes ready waits for
\* nobody any more, and the next one has all of its readers sampled.
LEMMA AdvanceStep ==
    ASSUME IInv, TypeOK', GInv, Fresh, Fresh', Ticks, NEW c \in CPU, notify_advance(c)
    PROVE  GInv'
<1> USE DEF period, work, rest, ghosts
<1>0. TypeOK
    BY ZenonT(60) DEF IInv
<1>1. /\ pc[c] = "notify" /\ ~IsBefore(current_period.generation, target[c])
      /\ UNCHANGED <<current_period, target, nxt, adding, enqueued, done, blockers, exposed>>
      /\ next_batch' = [next_batch EXCEPT ![c] = {}]
      /\ waiting_batch' = [waiting_batch EXCEPT ![c] = next_batch[c]]
      /\ ready_batch' = [ready_batch EXCEPT ![c] = waiting_batch[c]]
      /\ \/ /\ cur' = [cur EXCEPT ![c] = current_period] /\ pc' = [pc EXCEPT ![c] = "r_store"]
            /\ ret' = ret
         \/ /\ next_batch[c] = {} /\ pc' = [pc EXCEPT ![c] = ret[c]["notify"]] /\ cur' = cur
            /\ ret' = [ret EXCEPT ![c]["notify"] = "hyp"]
    BY ZenonT(60) DEF notify_advance, AdvanceBatches, Return, Goto
<1>T. /\ ready_batch \in [CPU -> SUBSET Entry] /\ waiting_batch \in [CPU -> SUBSET Entry]
      /\ next_batch \in [CPU -> SUBSET Entry]
      /\ pc \in [CPU -> Label] /\ cur \in [CPU -> Period]
    BY <1>0 DEF TypeOK
<1>2. /\ next_batch'[c] = {} /\ waiting_batch'[c] = next_batch[c] /\ ready_batch'[c] = waiting_batch[c]
      /\ \A d \in CPU \ {c} : /\ next_batch'[d] = next_batch[d] /\ waiting_batch'[d] = waiting_batch[d]
                              /\ ready_batch'[d] = ready_batch[d]
    BY <1>1, <1>T, ZenonT(60)
<1>3. /\ \/ pc'[c] = "r_store" /\ cur'[c] = current_period
         \/ pc'[c] = ret[c]["notify"] /\ next_batch[c] = {}
      /\ \A d \in CPU \ {c} : pc'[d] = pc[d] /\ cur'[d] = cur[d]
    <2>1. CASE cur' = [cur EXCEPT ![c] = current_period] /\ pc' = [pc EXCEPT ![c] = "r_store"]
        BY <1>T, <2>1, ZenonT(60)
    <2>2. CASE next_batch[c] = {} /\ pc' = [pc EXCEPT ![c] = ret[c]["notify"]] /\ cur' = cur
        BY <1>T, <2>2, ZenonT(60)
    <2> QED
        BY <1>1, <2>1, <2>2, ZenonT(60)
<1>4. Actor(c)
    BY <1>1, <1>3, ZenonT(60) DEF Actor
<1>5. pc'[c] # "q_cas" /\ pc[c] # "r_store"
    <2>1. Stack(c)
        BY DEF IInv, ControlInv
    <2> QED
        BY <1>1, <1>3, <2>1, ZenonT(60) DEF Stack, InNotify, NotifyFrames
<1>6. /\ age' \in [CPU -> Nat]
      /\ \A d \in CPU : Aged(d)'
      /\ \A r \in Reading : Sampled(r) => Sampled(r)'
      /\ \A d \in CPU \ {c} : Target(d)' = Target(d)
    BY <1>1, <1>4, <1>5, Settled
<1>7. Reading \subseteq Reading'
    <2>1. c \notin Reading
        <3>1. pc[c] \notin {"read", "e_active", "e_ipis"}
            BY <1>1
        <3> QED
            BY <3>1, ReaderFacts, ZenonT(60)
    <2> SUFFICES ASSUME NEW d \in CPU \ {c}, pc[d] = "read" \/ ret[d]["enqueue"] = "read"
                 PROVE  pc'[d] = "read" \/ ret'[d]["enqueue"] = "read"
        BY <2>1, ZenonT(60) DEF Reading
    <2>2. ret'[d] = ret[d]
        <3>1. ret' = [ret EXCEPT ![c]["notify"] = "hyp"] \/ ret' = ret
            BY <1>1, ZenonT(60)
        <3> QED
            BY <1>0, <3>1, ZenonT(60) DEF TypeOK
    <2> QED
        BY <1>3, <2>2, ZenonT(60)
<1>8. \A e \in Entry : blockers'[e] \subseteq Reading'
    BY <1>1, <1>7, ZenonT(60) DEF GInv
<1>9. current_period.generation \in Count
    BY <1>0, Fields
<1>10. ASSUME NEW d \in CPU, NEW e \in Entry, NEW r \in Late(e)'
       PROVE  Waited(d, e, r)'
    <2>1. r \in Late(e) /\ r \in Reading
        BY <1>1, <1>10, ZenonT(60) DEF Late, GInv
    <2>2. Waited(d, e, r) /\ (Sampled(r) => Sampled(r)')
        BY <1>6, <2>1, ZenonT(60) DEF GInv
    <2>3. CASE d # c
        <3>1. Target(d)' = Target(d)
            BY <1>6, <2>3, ZenonT(60)
        <3> QED
            BY <1>1, <1>2, <2>2, <2>3, <3>1, ZenonT(60) DEF Waited
    <2>4. CASE d = c
        <3>1. e \notin waiting_batch[c]
            <4> SUFFICES ASSUME e \in waiting_batch[c] PROVE FALSE
                OBVIOUS
            <4>1. Target(c) = target[c]
                BY <1>5, ZenonT(60) DEF Target
            <4>2. \/ target[c] = Plus(current_period.generation, 2)
                  \/ target[c] = Plus(current_period.generation, 1)
                BY <2>2, <2>4, <4>1, ZenonT(60) DEF Waited
            <4>3. IsBefore(current_period.generation, target[c])
                BY <1>9, <4>2, AheadIsBefore
            <4> QED
                BY <1>1, <4>3, ZenonT(60)
        <3>2. e \in next_batch[c] => Sampled(r)' /\ Target(c)' = Plus(current_period'.generation, 2)
            <4> SUFFICES ASSUME e \in next_batch[c]
                         PROVE  Sampled(r)' /\ Target(c)' = Plus(current_period'.generation, 2)
                OBVIOUS
            <4>1. Sampled(r)
                BY <2>2, <2>4, ZenonT(60) DEF Waited
            <4>2. pc'[c] = "r_store" /\ cur'[c] = current_period
                BY <1>3, ZenonT(60)
            <4> QED
                BY <1>1, <2>2, <4>1, <4>2, ZenonT(60) DEF Target, TargetAfter
        <3>3. /\ e \in adding'[c] \cup next_batch'[c] => Sampled(r)'
              /\ e \notin done'
            BY <1>1, <1>2, <2>2, <2>4, ZenonT(60) DEF Waited
        <3> QED
            BY <1>2, <2>4, <3>1, <3>2, <3>3, ZenonT(60) DEF Waited
    <2> QED
        BY <2>3, <2>4
<1>11. done' \subseteq enqueued'
    BY <1>1, ZenonT(60) DEF GInv
<1> QED
    BY <1>6, <1>8, <1>10, <1>11, ZenonT(60) DEF GInv

\* The target of a new waiting batch is stored.
LEMMA StoreStep ==
    ASSUME IInv, TypeOK', GInv, Fresh, Fresh', Ticks, NEW c \in CPU, request_store_target(c)
    PROVE  GInv'
<1> USE DEF period, batches, work, rest, ghosts
<1>0. TypeOK
    BY ZenonT(60) DEF IInv
<1>1. /\ pc[c] = "r_store" /\ pc' = [pc EXCEPT ![c] = "r_load"]
      /\ target' = [target EXCEPT ![c] = TargetAfter(cur[c].generation)]
      /\ cur' = [cur EXCEPT ![c] = NoPeriod]
      /\ UNCHANGED <<current_period, nxt, ret, ready_batch, waiting_batch, next_batch, adding, enqueued,
                     done, blockers, exposed>>
    BY ZenonT(60) DEF request_store_target, Goto
<1>2. /\ pc'[c] = "r_load" /\ target'[c] = TargetAfter(cur[c].generation)
      /\ \A d \in CPU \ {c} : pc'[d] = pc[d] /\ target'[d] = target[d] /\ cur'[d] = cur[d]
    BY <1>0, <1>1, ZenonT(60) DEF TypeOK
<1>3. Actor(c) /\ PeriodStep(c)
    BY <1>1, <1>2, ZenonT(60) DEF Actor, PeriodStep
<1>4. pc'[c] # "q_cas" /\ pc'[c] # "r_store" /\ pc[c] # "read"
    BY <1>1, <1>2
<1>5. Target(c)' = Target(c)
    BY <1>1, <1>2, <1>4, ZenonT(60) DEF Target
<1>6. Reading \subseteq Reading'
    BY <1>1, <1>2, <1>4, ZenonT(60) DEF Reading
<1> QED
    BY <1>0, <1>1, <1>3, <1>4, <1>5, <1>6, Frame, ZenonT(60)

\* A callback runs.
LEMMA CallbackStep ==
    ASSUME IInv, TypeOK', GInv, Fresh, Fresh', Ticks, NEW c \in CPU, update_callback(c)
    PROVE  GInv'
<1> USE DEF period, locals
<1>0. TypeOK
    BY ZenonT(60) DEF IInv
<1>1. PICK n \in ready_batch[c] :
         /\ ready_batch' = [ready_batch EXCEPT ![c] = @ \ {n}]
         /\ done' = done \cup {n}
    BY ZenonT(60) DEF update_callback
<1>2. /\ pc[c] = "u_run"
      /\ UNCHANGED <<current_period, target, pc, ret, cur, nxt, waiting_batch, next_batch, adding, enqueued,
                     blockers, exposed>>
    BY ZenonT(60) DEF update_callback
<1>3. n \in Entry /\ n \in enqueued
    BY <1>0, ZenonT(60) DEF TypeOK, IInv, BatchInv
<1>4. Actor(c) /\ pc'[c] # "q_cas"
    BY <1>2, ZenonT(60) DEF Actor
<1>5. /\ age' \in [CPU -> Nat]
      /\ \A d \in CPU : Aged(d)'
      /\ \A r \in Reading : Sampled(r) => Sampled(r)'
      /\ \A d \in CPU : Target(d)' = Target(d)
    <2>1. Target(c)' = Target(c)
        BY <1>2, ZenonT(60) DEF Target
    <2> QED
        BY <1>2, <1>4, <2>1, Settled, ZenonT(60)
<1>6. \A e \in Entry : blockers'[e] \subseteq Reading'
    BY <1>2, ZenonT(60) DEF GInv, Reading
<1>7. \A d \in CPU : ready_batch'[d] \subseteq ready_batch[d]
    BY <1>0, <1>1, ZenonT(60) DEF TypeOK
<1>8. ASSUME NEW d \in CPU, NEW e \in Entry, NEW r \in Late(e)'
      PROVE  Waited(d, e, r)'
    <2>1. r \in Late(e) /\ r \in Reading
        BY <1>2, <1>8, ZenonT(60) DEF Late, GInv
    <2>2. Waited(d, e, r) /\ Waited(c, e, r) /\ (Sampled(r) => Sampled(r)') /\ Target(d)' = Target(d)
        BY <1>5, <2>1, ZenonT(60) DEF GInv
    <2>3. e # n
        BY <1>1, <2>2, ZenonT(60) DEF Waited
    <2>4. e \notin ready_batch'[d] \cup done'
        BY <1>1, <1>7, <2>2, <2>3, ZenonT(60) DEF Waited
    <2> QED
        BY <1>2, <2>2, <2>4, ZenonT(60) DEF Waited
<1>9. done' \subseteq enqueued'
    BY <1>1, <1>2, <1>3, ZenonT(60) DEF GInv
<1> QED
    BY <1>5, <1>6, <1>8, <1>9, ZenonT(60) DEF GInv

\* Every step preserves the invariant, as long as the loads are fresh.
LEMMA GInvNext ==
    ASSUME IInv, TypeOK', GInv, Fresh, Fresh', [HNext]_hvars
    PROVE  GInv'
<1>1. CASE UNCHANGED hvars
    <2>1. UNCHANGED <<age, current_period, target, pc, ret, cur, nxt, ready_batch, waiting_batch, next_batch,
                      adding, enqueued, done, blockers, exposed>>
        BY <1>1, ZenonT(60) DEF hvars, vars, rcu, period, queues, batches, locals, work, rest, ghosts
    <2>2. \A c \in CPU : Aged(c)' /\ Target(c)' = Target(c)
        BY <2>1, ZenonT(60) DEF GInv, Aged, Target
    <2>3. \A r : Sampled(r) => Sampled(r)'
        BY <2>1, ZenonT(60) DEF Sampled, Publishing
    <2>4. \A c \in CPU, e \in Entry : \A r \in Late(e)' : Waited(c, e, r)'
        BY <2>1, <2>2, <2>3, ZenonT(60) DEF GInv, Waited, Late
    <2> QED
        BY <2>1, <2>2, <2>4, ZenonT(60) DEF GInv, Reading
<1>2. CASE Next /\ Ticks
    <2>1. ASSUME NEW c \in CPU, NEW e \in Entry, rcu_enqueue(c, e)
          PROVE  GInv'
        BY <1>2, <2>1, EnqueueStep, ZenonT(60)
    <2>2. ASSUME NEW c \in CPU, rcu_read_finish(c)
          PROVE  GInv'
        BY <1>2, <2>2, ReadFinishStep
    <2>3. ASSUME NEW c \in CPU, rcu_enqueue_finish(c)
          PROVE  GInv'
        BY <1>2, <2>3, EnqueueFinishStep
    <2>4. ASSUME NEW c \in CPU, quiesce_attempt(c)
          PROVE  GInv'
        BY <1>2, <2>4, AttemptStep
    <2>5. ASSUME NEW c \in CPU, quiesce_publish(c)
          PROVE  GInv'
        BY <1>2, <2>5, PublishStep
    <2>6. ASSUME NEW c \in CPU, notify_advance(c)
          PROVE  GInv'
        BY <1>2, <2>6, AdvanceStep
    <2>7. ASSUME NEW c \in CPU, request_store_target(c)
          PROVE  GInv'
        BY <1>2, <2>7, StoreStep
    <2>8. ASSUME NEW c \in CPU, update_callback(c)
          PROVE  GInv'
        BY <1>2, <2>8, CallbackStep
    <2>9. ASSUME NEW c \in CPU,
             \/ rcu_read_start(c)
             \/ refresh_active_load(c)
             \/ refresh_active_send(c)
             \/ enter_hyp(c)
             \/ ipi_wakeup(c)
             \/ maybe_deactivate_cpu(c)
             \/ exit_check(c)
             \/ try_deactivate_cpu(c)
             \/ power_cpu_offline(c)
             \/ boot_cpu_warm_init(c)
             \/ scheduler_quiescent(c)
             \/ quiesce_clear_ipi(c)
             \/ quiesce_find_raced(c)
             \/ quiesce_send(c)
             \/ quiesce_finish(c)
             \/ quiesce_again(c)
             \/ notify_nothing(c)
             \/ notify_update_first(c)
             \/ request_reload(c)
             \/ request_raise_max(c)
             \/ update_finish(c)
             \/ take_ipis(c)
             \/ ipi_received(c)
             \/ ipis_handled(c)
             \/ rcu_expedite(c)
             \/ expedite_step(c)
             \/ expedite_give_up(c)
          PROVE  GInv'
        <3>1. Quiet(c)
            BY <2>9, QuietActions
        <3> QED
            BY <1>2, <3>1, QuietStep
    <2> QED
        BY <1>2, <2>1, <2>2, <2>3, <2>4, <2>5, <2>6, <2>7, <2>8, <2>9, ZenonT(60) DEF Next, Continue, Begin
<1> QED
    BY <1>1, <1>2, ZenonT(60) DEF HNext, Ticks

\* It holds at boot, when nothing is enqueued.
LEMMA GInvInit == HInit => GInv
<1> HAVE HInit
<1>1. age \in [CPU -> Nat]
    BY ZenonT(60) DEF HInit
<1>2. \A c \in CPU : pc[c] \in {"hyp", "off"}
    BY ZenonT(60) DEF HInit, Init
<1>3. \A c \in CPU : Aged(c)
    BY <1>2, ZenonT(60) DEF Aged
<1>4. (\A e \in Entry : blockers[e] = {}) /\ done = {}
    BY ZenonT(60) DEF HInit, Init
<1> QED
    BY <1>1, <1>3, <1>4, ZenonT(60) DEF GInv, Late

\* The promise of rcu.h, for every number of cores and updates and every
\* interleaving of rcu_bitmap_quiesce, notify, activation and power-off: an
\* update callback does not run before the critical sections that were executing
\* at its rcu_enqueue have finished, except those that began between a sample of
\* active_cpus and its publication.  Fresh is needed because the generation wraps.
THEOREM GracePeriodsAreWaitedFor == HSpec /\ []Fresh => []GracePeriodIfSampled
<1>1. HSpec => Spec
    <2>1. HInit => Init
        BY DEF HInit
    <2>2. [HNext]_hvars => [Next]_vars
        BY ZenonT(60) DEF HNext, hvars
    <2> QED
        BY <2>1, <2>2, PTL DEF HSpec, Spec
<1>2. IInv => TypeOK
    BY DEF IInv
<1>3. IInv /\ TypeOK' /\ GInv /\ Fresh /\ Fresh' /\ [HNext]_hvars => GInv'
    BY GInvNext
<1>4. TypeOK /\ GInv => GracePeriodIfSampled
    <2> SUFFICES ASSUME TypeOK, GInv, NEW e \in done, NEW r \in blockers[e], r \notin exposed[e]
                 PROVE  FALSE
        BY ZenonT(60) DEF GracePeriodIfSampled
    <2>1. e \in Entry
        BY ZenonT(60) DEF TypeOK
    <2>2. r \in CPU
        BY <2>1, ZenonT(60) DEF GInv, Reading
    <2> QED
        BY <2>1, <2>2, ZenonT(60) DEF GInv, Waited, Late
<1> QED
    BY <1>1, <1>2, <1>3, <1>4, Invariance, GInvInit, PTL DEF HSpec
=============================================================================
