---------------------------- MODULE PowerProofs -----------------------------
(***************************************************************************)
(* The invariants of Power for every set of cores and VCPUs, any number of *)
(* calls and retries, and whatever the platform and the handlers answer.   *)
(*                                                                         *)
(* vote_count is exact because a VCPU is moved by one core at a time and   *)
(* keeps its vote meanwhile (Moves).  A vote is not forgotten because a    *)
(* core that goes offline holds its voting lock from the moment it has     *)
(* found no votes (Leaving), and because a core runs one retry at a time   *)
(* (Firing).                                                               *)
(***************************************************************************)
EXTENDS Power, FiniteSetTheorems, TLAPS

State == {"OFF", "OFFLINE", "STARTED", "ONLINE", "SUSPEND"}

Label == {"run", "off", "move", "retry", "panic", "idle", "leave", "wait_online", "warm",
          "warm_count", "warm_run", "suspend", "suspended"}

Powered == {"on", "off", "pending"}

Holder == CPU \cup {None}

Move == (Vcpu \X CPU) \cup {None}

TypeOK ==
    /\ vote_count \in [CPU -> Int]
    /\ retry_count \in [CPU -> Nat]
    /\ lock \in [CPU -> BOOLEAN]
    /\ state \in [CPU -> State]
    /\ running \in SUBSET CPU
    /\ online_cpus \in Int
    /\ retry_timer \in [CPU -> Holder]
    /\ firing \in [CPU -> Holder]
    /\ tq_online \in SUBSET CPU
    /\ powered \in [CPU -> Powered]
    /\ idle_ipi \in [CPU -> BOOLEAN]
    /\ busy \in SUBSET CPU
    /\ refused \in SUBSET CPU
    /\ pc \in [CPU -> Label]
    /\ moving \in [CPU -> Move]
    /\ affinity \in [Vcpu -> CPU]
    /\ voting \in SUBSET Vcpu
    /\ boot_vote \in BOOLEAN
    /\ calls \in Nat

\* A core changes the affinity of one voting VCPU at a time, to another core,
\* and no two cores that of the same one.
Moves ==
    /\ \A d \in CPU :
          /\ moving[d] # None <=> pc[d] = "move"
          /\ moving[d] # None => /\ moving[d][1] \in voting
                                 /\ moving[d][2] # affinity[moving[d][1]]
    /\ \A d, e \in CPU :
          moving[d] # None /\ moving[e] # None /\ moving[d][1] = moving[e][1] => d = e

\* A core that goes offline holds its voting lock, and has no votes.
Leaving ==
    \A c \in CPU : pc[c] \in {"leave", "wait_online"} => lock[c] /\ vote_count[c] = 0

\* A core has a retry to run exactly while it is in the timer's action.
Firing == \A d \in CPU : firing[d] # None <=> pc[d] = "retry"

IInv == TypeOK /\ Moves /\ Leaving /\ Firing /\ VotesExact /\ NoVoteForgotten /\ UnvotedCoreWoken

-----------------------------------------------------------------------------
(* Types                                                                   *)

\* The states and labels that the actions assign.
LEMMA LabelType ==
    /\ "OFF" \in State /\ "OFFLINE" \in State /\ "STARTED" \in State
    /\ "ONLINE" \in State /\ "SUSPEND" \in State
    /\ "run" \in Label /\ "off" \in Label /\ "move" \in Label /\ "retry" \in Label
    /\ "panic" \in Label /\ "idle" \in Label /\ "leave" \in Label /\ "wait_online" \in Label
    /\ "warm" \in Label /\ "warm_count" \in Label /\ "warm_run" \in Label
    /\ "suspend" \in Label /\ "suspended" \in Label
    /\ "on" \in Powered /\ "off" \in Powered /\ "pending" \in Powered
    /\ None \in Holder /\ None \in Move
    /\ \A c \in CPU : c \in Holder
    BY DEF State, Label, Powered, Holder, Move

\* power_try_cpu_on keeps the types, and queues a retry only on its caller.
LEMMA TryCpuOnType ==
    ASSUME TypeOK, NEW d \in CPU, NEW c \in CPU, NEW n \in Nat, NEW ok \in BOOLEAN,
           TryCpuOn(d, c, n, ok)
    PROVE  /\ retry_count' \in [CPU -> Nat] /\ state' \in [CPU -> State]
           /\ powered' \in [CPU -> Powered]
           /\ retry_timer' \in [CPU -> Holder]
    BY LabelType, SMTT(60) DEF TypeOK, TryCpuOn, QueueRetry

\* power_vote_cpu_on keeps the types.
LEMMA VoteOnType ==
    ASSUME TypeOK, NEW d \in CPU, NEW c \in CPU, NEW ok \in BOOLEAN, VoteOn(d, c, ok)
    PROVE  /\ retry_count' \in [CPU -> Nat] /\ state' \in [CPU -> State]
           /\ powered' \in [CPU -> Powered]
           /\ retry_timer' \in [CPU -> Holder]
           /\ vote_count' \in [CPU -> Int]
<1>1. vote_count' \in [CPU -> Int]
    BY SMTT(60) DEF TypeOK, VoteOn
<1>2. CASE vote_count[c] = 0
    <2>1. TryCpuOn(d, c, retry_count[c], ok) /\ retry_count[c] \in Nat
        BY <1>2, ZenonT(60) DEF TypeOK, VoteOn
    <2> QED
        BY <1>1, <2>1, TryCpuOnType, ZenonT(60)
<1>3. CASE vote_count[c] # 0
    BY <1>1, <1>3, ZenonT(60) DEF TypeOK, VoteOn
<1> QED
    BY <1>2, <1>3

\* power_vote_cpu_off keeps the types.
LEMMA VoteOffType ==
    ASSUME TypeOK, NEW c \in CPU, VoteOff(c)
    PROVE  /\ retry_count' \in [CPU -> Nat] /\ retry_timer' \in [CPU -> Holder]
           /\ vote_count' \in [CPU -> Int] /\ idle_ipi' \in [CPU -> BOOLEAN]
<1>1. idle_ipi' \in [CPU -> BOOLEAN]
    BY ZenonT(60) DEF TypeOK, VoteOff
<1>0. 0 \in Nat
    OBVIOUS
<1>2. retry_count' \in [CPU -> Nat]
    <2>1. retry_count \in [CPU -> Nat]
        BY DEF TypeOK
    <2>2. retry_count' = [retry_count EXCEPT ![c] = 0] \/ retry_count' = retry_count
        BY ZenonT(60) DEF VoteOff
    <2> QED
        BY <1>0, <2>1, <2>2, ZenonT(60)
<1>4. retry_timer' \in [CPU -> Holder]
    <2>1. retry_timer \in [CPU -> Holder]
        BY DEF TypeOK
    <2>2. retry_timer' = [retry_timer EXCEPT ![c] = None] \/ retry_timer' = retry_timer
        BY ZenonT(60) DEF VoteOff
    <2> QED
        BY <2>1, <2>2, LabelType, ZenonT(60)
<1>3. vote_count' \in [CPU -> Int]
    BY SMTT(60) DEF TypeOK, VoteOff
<1> QED
    BY <1>1, <1>2, <1>3, <1>4

\* Every step preserves the types.
LEMMA TypeNext ==
    ASSUME TypeOK, Moves, Firing, [Next]_vars
    PROVE  TypeOK'
<1> USE DEF votes, cores, retry, vcpus, wakeup
<1>1. CASE UNCHANGED vars
    BY <1>1, ZenonT(60) DEF TypeOK, vars
<1>2. CASE rootvm_started
    <2>1. VoteOff(BootCpu) /\ BootCpu \in CPU
        BY <1>2, PowerAssumption DEF rootvm_started
    <2>2. boot_vote' \in BOOLEAN
        BY <1>2, ZenonT(60) DEF rootvm_started
    <2> QED
        BY <1>2, <2>1, <2>2, VoteOffType, SMTT(60) DEF rootvm_started, Call, TypeOK
<1>3. ASSUME NEW c \in CPU, NEW v \in Vcpu, vcpu_poweron(c, v)
      PROVE  TypeOK'
    <2>1. PICK ok \in BOOLEAN : VoteOn(c, affinity[v], ok)
                              /\ voting' = IF ok THEN voting \cup {v} ELSE voting
        BY <1>3, ZenonT(60) DEF vcpu_poweron
    <2>2. affinity[v] \in CPU
        BY DEF TypeOK
    <2> QED
        BY <1>3, <2>1, <2>2, VoteOnType, SMTT(60) DEF vcpu_poweron, Call, TypeOK
<1>4. ASSUME NEW c \in CPU, NEW v \in Vcpu, vcpu_poweroff(c, v)
      PROVE  TypeOK'
    <2>1. VoteOff(affinity[v]) /\ affinity[v] \in CPU
        BY <1>4 DEF vcpu_poweroff, TypeOK
    <2> QED
        BY <1>4, <2>1, VoteOffType, SMTT(60) DEF vcpu_poweroff, Call, TypeOK
<1>5. ASSUME NEW c \in CPU, NEW v \in Vcpu, NEW next \in CPU, set_affinity_vote(c, v, next)
      PROVE  TypeOK'
    <2>1. PICK ok \in BOOLEAN : /\ VoteOn(c, next, ok)
                                /\ moving' = [moving EXCEPT ![c] = IF ok THEN <<v, next>> ELSE None]
                                /\ pc' = [pc EXCEPT ![c] = IF ok THEN "move" ELSE "run"]
        BY <1>5, ZenonT(60) DEF set_affinity_vote
    <2>2. /\ moving' \in [CPU -> Move]
          /\ pc' \in [CPU -> Label]
        BY <2>1, LabelType, ZenonT(60) DEF TypeOK, Move
    <2> QED
        BY <1>5, <2>1, <2>2, VoteOnType, SMTT(60) DEF set_affinity_vote, Call, TypeOK
<1>6. ASSUME NEW c \in CPU, set_affinity_unvote(c)
      PROVE  TypeOK'
    <2>1. moving[c] \in Vcpu \X CPU
        BY <1>6, SMTT(60) DEF set_affinity_unvote, Moves, TypeOK, Move
    <2>2. moving[c][1] \in Vcpu /\ moving[c][2] \in CPU
        BY <2>1
    <2>3. VoteOff(affinity[moving[c][1]]) /\ affinity[moving[c][1]] \in CPU
        BY <1>6, <2>2, ZenonT(60) DEF set_affinity_unvote, TypeOK
    <2> QED
        BY <1>6, <2>2, <2>3, VoteOffType, LabelType, ZenonT(60) DEF set_affinity_unvote, TypeOK
<1>7. ASSUME NEW c \in CPU, timer_action(c)
      PROVE  TypeOK'
    <2>1. firing[c] \in CPU
        BY <1>7, ZenonT(60) DEF timer_action, Firing, TypeOK, Holder
    <2>2. /\ pc' \in [CPU -> Label]
          /\ firing' \in [CPU -> Holder]
        BY <1>7, LabelType, SMTT(60) DEF timer_action, TypeOK
    <2>3. /\ retry_count' \in [CPU -> Nat] /\ state' \in [CPU -> State]
          /\ powered' \in [CPU -> Powered]
          /\ retry_timer' \in [CPU -> Holder]
        <3>1. CASE vote_count[firing[c]] > 0
            <4>1. PICK ok \in BOOLEAN : TryCpuOn(c, firing[c], retry_count[firing[c]] + 1, ok)
                BY <1>7, <3>1, ZenonT(60) DEF timer_action
            <4>2. retry_count[firing[c]] + 1 \in Nat
                BY <2>1, SMTT(60) DEF TypeOK
            <4> QED
                BY <2>1, <4>1, <4>2, TryCpuOnType, ZenonT(60)
        <3>2. CASE ~ (vote_count[firing[c]] > 0)
            BY <1>7, <3>2, ZenonT(60) DEF timer_action, TypeOK
        <3> QED
            BY <3>1, <3>2
    <2> QED
        BY <1>7, <2>2, <2>3, ZenonT(60) DEF timer_action, TypeOK
<1>8. ASSUME NEW c \in CPU, NEW b \in CPU, retry_expires(c, b)
      PROVE  TypeOK'
    BY <1>8, LabelType, ZenonT(60) DEF retry_expires, TypeOK
<1>9. ASSUME NEW c \in CPU, offline(c)
      PROVE  TypeOK'
    <2>1. retry_timer' \in [CPU -> Holder]
        BY <1>9, LabelType, ZenonT(60) DEF offline, MoveTimers, TypeOK
    <2>2. lock' \in [CPU -> BOOLEAN]
        BY <1>9, ZenonT(60) DEF offline, TypeOK
    <2> QED
        BY <1>9, <2>1, <2>2, LabelType, ZenonT(60) DEF offline, TypeOK
<1>10. ASSUME NEW c \in CPU, leave_count(c) \/ platform_cpu_off(c) \/ platform_cpu_on(c)
      PROVE  TypeOK'
    <2>1. lock' \in [CPU -> BOOLEAN] /\ idle_ipi' \in [CPU -> BOOLEAN]
        BY <1>10, ZenonT(60) DEF leave_count, platform_cpu_off, platform_cpu_on, TypeOK
    <2> QED
        BY <1>10, <2>1, LabelType, SMTT(60) DEF leave_count, platform_cpu_off, platform_cpu_on, TypeOK
<1>11. ASSUME NEW c \in CPU, warm_init(c)
      PROVE  TypeOK'
    <2>1. lock' \in [CPU -> BOOLEAN] /\ idle_ipi' \in [CPU -> BOOLEAN]
        BY <1>11, ZenonT(60) DEF warm_init, TypeOK
    <2>2. pc' \in [CPU -> Label] /\ state' \in [CPU -> State] /\ tq_online' \in SUBSET CPU
        BY <1>11, LabelType, SMTT(60) DEF warm_init, TypeOK
    <2> QED
        BY <1>11, <2>1, <2>2, ZenonT(60) DEF warm_init, TypeOK
<1>12. ASSUME NEW c \in CPU, warm_count(c) \/ warm_run(c)
      PROVE  TypeOK'
    <2>1. lock' \in [CPU -> BOOLEAN] /\ idle_ipi' \in [CPU -> BOOLEAN]
        BY <1>12, ZenonT(60) DEF warm_count, warm_run, TypeOK
    <2> QED
        BY <1>12, <2>1, LabelType, SMTT(60) DEF warm_count, warm_run, TypeOK
<1>13. ASSUME NEW c \in CPU, cpu_suspended(c) \/ cpu_suspend(c) \/ idle_end(c)
      PROVE  TypeOK'
    <2>1. lock' \in [CPU -> BOOLEAN] /\ idle_ipi' \in [CPU -> BOOLEAN]
        BY <1>13, ZenonT(60) DEF cpu_suspended, cpu_suspend, idle_end, TypeOK
    <2> QED
        BY <1>13, <2>1, LabelType, SMTT(60) DEF cpu_suspended, cpu_suspend, idle_end, TypeOK
<1>14. ASSUME NEW c \in CPU, cpu_resume(c)
      PROVE  TypeOK'
    <2>1. lock' \in [CPU -> BOOLEAN] /\ idle_ipi' \in [CPU -> BOOLEAN]
        BY <1>14, ZenonT(60) DEF cpu_resume, TypeOK
    <2> QED
        BY <1>14, <2>1, LabelType, SMTT(60) DEF cpu_resume, TypeOK
<1>15. ASSUME NEW c \in CPU, ipi_received(c) \/ idle_yield_voted(c) \/ idle_yield_busy(c)
      PROVE  TypeOK'
    <2>1. lock' \in [CPU -> BOOLEAN] /\ idle_ipi' \in [CPU -> BOOLEAN]
        BY <1>15, ZenonT(60) DEF ipi_received, idle_yield_voted, idle_yield_busy, TypeOK
    <2> QED
        BY <1>15, <2>1, LabelType, SMTT(60) DEF ipi_received, idle_yield_voted, idle_yield_busy, TypeOK
<1>16. ASSUME NEW c \in CPU, idle_yield_unvoted(c) \/ idle_enter_refused(c)
      PROVE  TypeOK'
    <2>1. lock' \in [CPU -> BOOLEAN] /\ idle_ipi' \in [CPU -> BOOLEAN]
        BY <1>16, ZenonT(60) DEF idle_yield_unvoted, idle_enter_refused, TypeOK
    <2> QED
        BY <1>16, <2>1, LabelType, SMTT(60) DEF idle_yield_unvoted, idle_enter_refused, TypeOK
<1> QED
    BY <1>1, <1>2, <1>3, <1>4, <1>5, <1>6, <1>7, <1>8, <1>9, <1>10, <1>11, <1>12, <1>13, <1>14, <1>15, <1>16, ZenonT(60) DEF Next, Continue, Wake

-----------------------------------------------------------------------------
(* Steps that neither vote nor move a VCPU                                 *)

Other(c) ==
    \/ timer_action(c) \/ leave_count(c) \/ offline(c) \/ platform_cpu_off(c) \/ platform_cpu_on(c)
    \/ warm_init(c) \/ warm_count(c) \/ warm_run(c) \/ cpu_suspended(c) \/ Wake(c)
    \/ ipi_received(c) \/ cpu_suspend(c) \/ idle_yield_voted(c) \/ idle_yield_busy(c)
    \/ idle_yield_unvoted(c) \/ idle_enter_refused(c) \/ \E b \in CPU : retry_expires(c, b)

\* The steps that move VCPUs, and the others.
LEMMA StepCases ==
    ASSUME [Next]_vars
    PROVE  \/ UNCHANGED vars
           \/ rootvm_started
           \/ \E c \in CPU :
                 \/ set_affinity_unvote(c) \/ Other(c)
                 \/ \E v \in Vcpu :
                       \/ vcpu_poweron(c, v) \/ vcpu_poweroff(c, v)
                       \/ \E next \in CPU : set_affinity_vote(c, v, next)
    BY ZenonT(60) DEF Next, Continue, Other

\* They leave the votes alone, change the label of their own core only, are
\* not steps of a move, and are not taken by a core that panicked.
LEMMA OtherFrame ==
    ASSUME TypeOK, NEW c \in CPU, Other(c)
    PROVE  /\ UNCHANGED <<vote_count, affinity, voting, moving, boot_vote>>
           /\ pc[c] # "move" /\ pc'[c] # "move" /\ pc[c] # "panic"
           /\ \A d \in CPU \ {c} : pc'[d] = pc[d]
<1> USE DEF votes, cores, retry, vcpus, wakeup, TypeOK
<1>1. CASE timer_action(c)
    BY <1>1, ZenonT(60) DEF timer_action
<1>2. CASE leave_count(c) \/ offline(c) \/ platform_cpu_off(c) \/ platform_cpu_on(c)
    BY <1>2, SMTT(60) DEF leave_count, offline, platform_cpu_off, platform_cpu_on
<1>3. CASE warm_init(c)
    BY <1>3, ZenonT(60) DEF warm_init
<1>4. CASE warm_count(c) \/ warm_run(c) \/ cpu_suspended(c)
    BY <1>4, SMTT(60) DEF warm_count, warm_run, cpu_suspended
<1>5. CASE Wake(c)
    BY <1>5, SMTT(60) DEF Wake, idle_end, cpu_resume
<1>6. CASE ipi_received(c) \/ cpu_suspend(c) \/ idle_yield_voted(c) \/ idle_yield_busy(c)
    BY <1>6, SMTT(60) DEF ipi_received, cpu_suspend, idle_yield_voted, idle_yield_busy
<1>7. CASE idle_yield_unvoted(c) \/ idle_enter_refused(c)
    BY <1>7, SMTT(60) DEF idle_yield_unvoted, idle_enter_refused
<1>8. ASSUME NEW b \in CPU, retry_expires(c, b)
      PROVE  /\ UNCHANGED <<vote_count, affinity, voting, moving, boot_vote>>
             /\ pc[c] # "move" /\ pc'[c] # "move" /\ pc[c] # "panic"
             /\ \A d \in CPU \ {c} : pc'[d] = pc[d]
    BY <1>8, ZenonT(60) DEF retry_expires
<1> QED
    BY <1>1, <1>2, <1>3, <1>4, <1>5, <1>6, <1>7, <1>8, ZenonT(60) DEF Other

-----------------------------------------------------------------------------
(* Moves of VCPUs                                                          *)

\* Every step preserves Moves: a VCPU is moved by one core at a time.
LEMMA MovesNext ==
    ASSUME TypeOK, Moves, [Next]_vars
    PROVE  Moves'
<1> USE DEF votes, cores, retry, vcpus, wakeup
<1>0. \A d \in CPU : moving[d] # None => moving[d][1] \in Vcpu /\ moving[d][2] \in CPU
    BY ZenonT(60) DEF TypeOK, Move
<1>1. CASE UNCHANGED vars
    BY <1>1, ZenonT(60) DEF vars, Moves
<1>2. CASE rootvm_started
    BY <1>2, ZenonT(60) DEF rootvm_started, Moves
<1>3. ASSUME NEW c \in CPU, Other(c)
      PROVE  Moves'
    <2>1. /\ UNCHANGED <<affinity, voting, moving>>
          /\ \A d \in CPU : pc'[d] = "move" <=> pc[d] = "move"
        BY <1>3, OtherFrame, ZenonT(60)
    <2> QED
        BY <2>1, ZenonT(60) DEF Moves
<1>4. ASSUME NEW c \in CPU, NEW v \in Vcpu, vcpu_poweron(c, v)
      PROVE  Moves'
    <2>1. UNCHANGED <<pc, moving, affinity>> /\ voting \subseteq voting'
        BY <1>4, ZenonT(60) DEF vcpu_poweron
    <2> QED
        BY <2>1, ZenonT(60) DEF Moves
<1>5. ASSUME NEW c \in CPU, NEW v \in Vcpu, vcpu_poweroff(c, v)
      PROVE  Moves'
    <2>1. UNCHANGED <<pc, moving, affinity>> /\ voting' = voting \ {v}
        BY <1>5, ZenonT(60) DEF vcpu_poweroff
    <2>2. \A d \in CPU : moving[d] # None => moving[d][1] # v
        BY <1>5, ZenonT(60) DEF vcpu_poweroff, Unlocked
    <2> QED
        BY <2>1, <2>2, ZenonT(60) DEF Moves
<1>6. ASSUME NEW c \in CPU, NEW v \in Vcpu, NEW next \in CPU, set_affinity_vote(c, v, next)
      PROVE  Moves'
    <2>1. PICK ok \in BOOLEAN : /\ moving' = [moving EXCEPT ![c] = IF ok THEN <<v, next>> ELSE None]
                                /\ pc' = [pc EXCEPT ![c] = IF ok THEN "move" ELSE "run"]
        BY <1>6, ZenonT(60) DEF set_affinity_vote
    <2>2. /\ UNCHANGED <<voting, affinity>> /\ v \in voting /\ next # affinity[v]
          /\ pc[c] = "run"
          /\ \A d \in CPU : moving[d] # None => moving[d][1] # v
        BY <1>6, ZenonT(60) DEF set_affinity_vote, Call, Unlocked
    <2>3. moving[c] = None
        BY <2>2, ZenonT(60) DEF Moves
    <2>4. CASE ok
        <3>1. /\ moving'[c] = <<v, next>> /\ pc'[c] = "move"
              /\ \A d \in CPU \ {c} : moving'[d] = moving[d] /\ pc'[d] = pc[d]
            BY <2>1, <2>4, ZenonT(60) DEF TypeOK
        <3>2. <<v, next>> # None
            BY PowerAssumption, SMTT(60)
        <3>3. moving'[c][1] = v /\ moving'[c][2] = next /\ moving'[c] # None
            BY <3>1, <3>2, SMTT(60)
        <3>4. ASSUME NEW d \in CPU
              PROVE  /\ moving'[d] # None <=> pc'[d] = "move"
                     /\ moving'[d] # None => /\ moving'[d][1] \in voting'
                                             /\ moving'[d][2] # affinity'[moving'[d][1]]
            <4>1. CASE d = c
                BY <2>2, <3>1, <3>3, <4>1, ZenonT(60)
            <4>2. CASE d # c
                BY <2>2, <3>1, <4>2, ZenonT(60) DEF Moves
            <4> QED
                BY <4>1, <4>2
        <3>5. ASSUME NEW d \in CPU, NEW e \in CPU,
                     moving'[d] # None, moving'[e] # None, moving'[d][1] = moving'[e][1]
              PROVE  d = e
            <4>1. CASE d # c /\ e # c
                <5>1. moving'[d] = moving[d] /\ moving'[e] = moving[e]
                    BY <3>1, <4>1, ZenonT(60)
                <5> QED
                    BY <3>5, <5>1, ZenonT(60) DEF Moves
            <4>2. CASE d = c /\ e # c
                <5>1. moving'[e] = moving[e]
                    BY <3>1, <4>2, ZenonT(60)
                <5> QED
                    BY <2>2, <3>3, <3>5, <4>2, <5>1, ZenonT(60)
            <4>3. CASE d # c /\ e = c
                <5>1. moving'[d] = moving[d]
                    BY <3>1, <4>3, ZenonT(60)
                <5> QED
                    BY <2>2, <3>3, <3>5, <4>3, <5>1, ZenonT(60)
            <4> QED
                BY <4>1, <4>2, <4>3, ZenonT(60)
        <3> QED
            BY <3>4, <3>5, ZenonT(60) DEF Moves
    <2>5. CASE ~ok
        <3>1. moving' = moving /\ pc' = pc
            BY <2>1, <2>2, <2>3, <2>5, ZenonT(60) DEF TypeOK
        <3> QED
            BY <2>2, <3>1, ZenonT(60) DEF Moves
    <2> QED
        BY <2>4, <2>5
<1>7. ASSUME NEW c \in CPU, set_affinity_unvote(c)
      PROVE  Moves'
    <2> DEFINE v == moving[c][1]
    <2>1. moving[c] # None /\ v \in Vcpu
        BY <1>0, <1>7, ZenonT(60) DEF set_affinity_unvote, Moves
    <2>2. /\ moving'[c] = None /\ pc'[c] = "run" /\ UNCHANGED voting
          /\ \A d \in CPU \ {c} : moving'[d] = moving[d] /\ pc'[d] = pc[d]
          /\ \A u \in Vcpu \ {v} : affinity'[u] = affinity[u]
        BY <1>7, ZenonT(60) DEF set_affinity_unvote, TypeOK
    <2>3. \A d \in CPU \ {c} : moving[d] # None => moving[d][1] \in Vcpu \ {v}
        BY <1>0, <2>1, ZenonT(60) DEF Moves
    <2> QED
        BY <2>1, <2>2, <2>3, SMTT(60) DEF Moves
<1> QED
    BY StepCases, <1>1, <1>2, <1>3, <1>4, <1>5, <1>6, <1>7, ZenonT(60)

-----------------------------------------------------------------------------
(* The voting lock of a core that goes offline                             *)

\* A vote is cast or withdrawn for a core whose voting lock is free.
LEMMA VoteOnFrame ==
    ASSUME TypeOK, NEW d \in CPU, NEW c \in CPU, NEW ok \in BOOLEAN, VoteOn(d, c, ok)
    PROVE  /\ ~lock[c]
           /\ vote_count'[c] = IF ok THEN vote_count[c] + 1 ELSE vote_count[c]
           /\ \A b \in CPU \ {c} : vote_count'[b] = vote_count[b]
<1>1. ~lock[c]
    BY ZenonT(60) DEF VoteOn
<1> QED
    BY <1>1, ZenonT(60) DEF VoteOn, TypeOK

\* power_vote_cpu_off takes one vote, under the lock.
LEMMA VoteOffFrame ==
    ASSUME TypeOK, NEW c \in CPU, VoteOff(c)
    PROVE  /\ ~lock[c]
           /\ vote_count'[c] = vote_count[c] - 1
           /\ \A b \in CPU \ {c} : vote_count'[b] = vote_count[b]
<1>1. ~lock[c]
    BY ZenonT(60) DEF VoteOff
<1> QED
    BY <1>1, ZenonT(60) DEF VoteOff, TypeOK

\* Where the other steps leave the calling core: running, on its way down or
\* up, or idle, which it becomes with a vote, with pending updates or refused.
LEMMA OtherMoves ==
    ASSUME TypeOK, NEW c \in CPU, Other(c)
    PROVE  /\ \/ UNCHANGED <<pc, lock>> /\ pc[c] \in {"run", "off"}
              \/ pc'[c] \in {"run", "panic", "off", "warm", "warm_count", "warm_run"}
              \/ pc'[c] = "retry" /\ \E b \in CPU : retry_expires(c, b)
              \/ pc'[c] = "leave" /\ idle_yield_unvoted(c)
              \/ pc'[c] = "wait_online" /\ leave_count(c)
              \/ /\ pc'[c] \in {"suspend", "suspended"} /\ pc[c] \in {"idle", "suspend"}
                 /\ UNCHANGED <<idle_ipi, busy, refused>>
              \/ pc'[c] = "idle" /\ (vote_count[c] > 0 \/ c \in busy' \/ c \in refused')
           /\ pc[c] = "retry" => timer_action(c)
<1>0. pc \in [CPU -> Label]
    BY ZenonT(60) DEF TypeOK
<1> USE <1>0 DEF votes, cores, retry, vcpus, wakeup
<1>1. CASE timer_action(c)
    BY <1>1, ZenonT(60) DEF timer_action
<1>2. CASE leave_count(c)
    BY <1>2, ZenonT(60) DEF leave_count
<1>3. CASE offline(c)
    BY <1>3, ZenonT(60) DEF offline
<1>4. CASE platform_cpu_off(c)
    BY <1>4, ZenonT(60) DEF platform_cpu_off
<1>5. CASE platform_cpu_on(c)
    BY <1>5, ZenonT(60) DEF platform_cpu_on
<1>6. CASE warm_init(c)
    BY <1>6, ZenonT(60) DEF warm_init
<1>7. CASE warm_count(c)
    BY <1>7, ZenonT(60) DEF warm_count
<1>8. CASE warm_run(c)
    BY <1>8, ZenonT(60) DEF warm_run
<1>9. CASE cpu_suspended(c)
    BY <1>9, ZenonT(60) DEF cpu_suspended
<1>10. CASE idle_end(c)
    BY <1>10, ZenonT(60) DEF idle_end
<1>11. CASE cpu_resume(c)
    BY <1>11, ZenonT(60) DEF cpu_resume
<1>12. CASE ipi_received(c)
    BY <1>12, ZenonT(60) DEF ipi_received
<1>13. CASE cpu_suspend(c)
    BY <1>13, ZenonT(60) DEF cpu_suspend
<1>14. CASE idle_yield_voted(c)
    BY <1>14, ZenonT(60) DEF idle_yield_voted
<1>15. CASE idle_yield_busy(c)
    BY <1>15, ZenonT(60) DEF idle_yield_busy
<1>16. CASE idle_yield_unvoted(c)
    BY <1>16, ZenonT(60) DEF idle_yield_unvoted
<1>17. CASE idle_enter_refused(c)
    BY <1>17, ZenonT(60) DEF idle_enter_refused
<1>18. CASE \E b \in CPU : retry_expires(c, b)
    BY <1>18, ZenonT(60) DEF retry_expires
<1> QED
    BY <1>1, <1>2, <1>3, <1>4, <1>5, <1>6, <1>7, <1>8, <1>9, <1>10, <1>11, <1>12, <1>13, <1>14,
       <1>15, <1>16, <1>17, <1>18, ZenonT(60) DEF Other, Wake

\* The steps of core c that cast or withdraw a vote.
Voting(c) ==
    \/ rootvm_started /\ c = BootCpu
    \/ set_affinity_unvote(c)
    \/ \E v \in Vcpu :
          \/ vcpu_poweron(c, v) \/ vcpu_poweroff(c, v)
          \/ \E next \in CPU : set_affinity_vote(c, v, next)

\* Every step is one that votes or one that leaves the votes alone.
LEMMA VotingOrOther ==
    ASSUME [Next]_vars
    PROVE  UNCHANGED vars \/ \E c \in CPU : Voting(c) \/ Other(c)
    BY StepCases, PowerAssumption, ZenonT(60) DEF Voting

\* What a step does to the votes, the locks and the labels when it votes: it
\* changes the votes of cores that are not locked, and no lock.
LEMMA VotingFrame ==
    ASSUME TypeOK, Moves, NEW c \in CPU, Voting(c)
    PROVE  /\ UNCHANGED <<lock, firing>>
           /\ \A b \in CPU : lock[b] => vote_count'[b] = vote_count[b]
           /\ pc[c] \in {"run", "move"} /\ pc'[c] \in {"run", "move"}
           /\ \A b \in CPU \ {c} : pc'[b] = pc[b]
<1> USE DEF votes, cores, retry, vcpus, wakeup
<1>1. CASE rootvm_started /\ c = BootCpu
    <2>1. UNCHANGED <<lock, firing, pc>> /\ pc[c] = "run" /\ VoteOff(c)
        BY <1>1, ZenonT(60) DEF rootvm_started, Call
    <2> QED
        BY <2>1, VoteOffFrame, ZenonT(60)
<1>2. CASE set_affinity_unvote(c)
    <2>1. moving[c] \in Vcpu \X CPU
        BY <1>2, SMTT(60) DEF set_affinity_unvote, Moves, TypeOK, Move
    <2>2. affinity[moving[c][1]] \in CPU
        BY <2>1, ZenonT(60) DEF TypeOK
    <2>3. /\ UNCHANGED <<lock, firing>> /\ pc[c] = "move"
          /\ VoteOff(affinity[moving[c][1]])
          /\ pc' = [pc EXCEPT ![c] = "run"]
        BY <1>2, ZenonT(60) DEF set_affinity_unvote
    <2>4. pc'[c] = "run" /\ \A b \in CPU \ {c} : pc'[b] = pc[b]
        BY <2>3, ZenonT(60) DEF TypeOK
    <2> QED
        BY <2>2, <2>3, <2>4, VoteOffFrame, ZenonT(60)
<1>3. ASSUME NEW v \in Vcpu, vcpu_poweron(c, v)
      PROVE  /\ UNCHANGED <<lock, firing>>
             /\ \A b \in CPU : lock[b] => vote_count'[b] = vote_count[b]
             /\ pc[c] \in {"run", "move"} /\ pc'[c] \in {"run", "move"}
             /\ \A b \in CPU \ {c} : pc'[b] = pc[b]
    <2>1. PICK ok \in BOOLEAN : VoteOn(c, affinity[v], ok)
        BY <1>3, ZenonT(60) DEF vcpu_poweron
    <2>2. UNCHANGED <<lock, firing, pc>> /\ pc[c] = "run" /\ affinity[v] \in CPU
        BY <1>3, ZenonT(60) DEF vcpu_poweron, Call, TypeOK
    <2> QED
        BY <2>1, <2>2, VoteOnFrame, ZenonT(60)
<1>4. ASSUME NEW v \in Vcpu, vcpu_poweroff(c, v)
      PROVE  /\ UNCHANGED <<lock, firing>>
             /\ \A b \in CPU : lock[b] => vote_count'[b] = vote_count[b]
             /\ pc[c] \in {"run", "move"} /\ pc'[c] \in {"run", "move"}
             /\ \A b \in CPU \ {c} : pc'[b] = pc[b]
    <2>1. /\ UNCHANGED <<lock, firing, pc>> /\ pc[c] = "run"
          /\ affinity[v] \in CPU /\ VoteOff(affinity[v])
        BY <1>4, ZenonT(60) DEF vcpu_poweroff, Call, TypeOK
    <2> QED
        BY <2>1, VoteOffFrame, ZenonT(60)
<1>5. ASSUME NEW v \in Vcpu, NEW next \in CPU, set_affinity_vote(c, v, next)
      PROVE  /\ UNCHANGED <<lock, firing>>
             /\ \A b \in CPU : lock[b] => vote_count'[b] = vote_count[b]
             /\ pc[c] \in {"run", "move"} /\ pc'[c] \in {"run", "move"}
             /\ \A b \in CPU \ {c} : pc'[b] = pc[b]
    <2>1. PICK ok \in BOOLEAN : /\ VoteOn(c, next, ok)
                                /\ pc' = [pc EXCEPT ![c] = IF ok THEN "move" ELSE "run"]
        BY <1>5, ZenonT(60) DEF set_affinity_vote
    <2>2. UNCHANGED <<lock, firing>> /\ pc[c] = "run"
        BY <1>5, ZenonT(60) DEF set_affinity_vote, Call
    <2>3. pc'[c] \in {"run", "move"} /\ \A b \in CPU \ {c} : pc'[b] = pc[b]
        BY <2>1, ZenonT(60) DEF TypeOK
    <2> QED
        BY <2>1, <2>2, <2>3, VoteOnFrame, ZenonT(60)
<1> QED
    BY <1>1, <1>2, <1>3, <1>4, <1>5, ZenonT(60) DEF Voting

\* Every step preserves Leaving: a core that goes offline holds its lock.
LEMMA LeavingNext ==
    ASSUME TypeOK, Moves, Leaving, [Next]_vars
    PROVE  Leaving'
<1> USE DEF votes, cores, retry, vcpus, wakeup
<1>1. CASE UNCHANGED vars
    BY <1>1, ZenonT(60) DEF vars, Leaving
<1>2. ASSUME NEW c \in CPU, Voting(c)
      PROVE  Leaving'
    <2>1. /\ UNCHANGED lock
          /\ \A b \in CPU : lock[b] => vote_count'[b] = vote_count[b]
          /\ pc'[c] \in {"run", "move"}
          /\ \A b \in CPU \ {c} : pc'[b] = pc[b]
        BY <1>2, VotingFrame, ZenonT(60)
    <2> QED
        BY <2>1, ZenonT(60) DEF Leaving
<1>3. ASSUME NEW c \in CPU, Other(c)
      PROVE  Leaving'
    <2>1. UNCHANGED vote_count /\ \A d \in CPU \ {c} : pc'[d] = pc[d]
        BY <1>3, OtherFrame, ZenonT(60)
    <2>2. \A d \in CPU \ {c} : lock'[d] = lock[d]
        BY <1>3, ZenonT(60) DEF Other, Wake, timer_action, leave_count, offline, platform_cpu_off,
            platform_cpu_on, warm_init, warm_count, warm_run, cpu_suspended, idle_end, cpu_resume,
            ipi_received, cpu_suspend, idle_yield_voted, idle_yield_busy, idle_yield_unvoted,
            idle_enter_refused, retry_expires, TypeOK
    <2>3. CASE idle_yield_unvoted(c)
        <3>1. vote_count[c] = 0 /\ lock'[c]
            BY <2>3, ZenonT(60) DEF idle_yield_unvoted, TypeOK
        <3> QED
            BY <2>1, <2>2, <3>1, ZenonT(60) DEF Leaving
    <2>4. CASE leave_count(c)
        <3>1. UNCHANGED lock /\ pc[c] = "leave"
            BY <2>4, ZenonT(60) DEF leave_count
        <3> QED
            BY <2>1, <3>1, ZenonT(60) DEF Leaving
    <2>5. CASE ~idle_yield_unvoted(c) /\ ~leave_count(c)
        <3>1. pc'[c] \notin {"leave", "wait_online"} \/ UNCHANGED <<pc, lock>>
            BY <1>3, <2>5, OtherMoves, ZenonT(60)
        <3> QED
            BY <2>1, <2>2, <3>1, ZenonT(60) DEF Leaving
    <2> QED
        BY <2>3, <2>4, <2>5
<1> QED
    BY VotingOrOther, <1>1, <1>2, <1>3, ZenonT(60)

-----------------------------------------------------------------------------
(* Counting votes                                                          *)

Voters(c) == {v \in voting : affinity[v] = c}

Movers(c) == {d \in CPU : moving[d] # None /\ moving[d][2] = c}

BootVote(c) == IF boot_vote /\ c = BootCpu THEN 1 ELSE 0

\* The votes of a core can be counted.
LEMMA VotersFinite ==
    ASSUME TypeOK, NEW c \in CPU
    PROVE  /\ IsFiniteSet(Voters(c)) /\ Cardinality(Voters(c)) \in Nat
           /\ IsFiniteSet(Movers(c)) /\ Cardinality(Movers(c)) \in Nat
           /\ BootVote(c) \in Nat
<1>1. Voters(c) \subseteq Vcpu /\ Movers(c) \subseteq CPU
    BY ZenonT(60) DEF TypeOK, Voters, Movers
<1>2. IsFiniteSet(Voters(c)) /\ IsFiniteSet(Movers(c))
    BY <1>1, PowerAssumption, FS_Subset, ZenonT(60)
<1>3. BootVote(c) \in Nat
    BY ZenonT(60) DEF BootVote
<1> QED
    BY <1>2, <1>3, FS_CardinalityType, ZenonT(60)

\* Exact votes are never negative.
LEMMA VotesNat ==
    ASSUME TypeOK, VotesExact
    PROVE  \A c \in CPU : vote_count[c] \in Nat /\ vote_count[c] >= 0
<1> TAKE c \in CPU
<1>1. vote_count[c] = Cardinality(Voters(c)) + Cardinality(Movers(c)) + BootVote(c)
    BY ZenonT(60) DEF VotesExact, Voters, Movers, BootVote
<1> QED
    BY <1>1, VotersFinite, SMTT(60)

-----------------------------------------------------------------------------
(* Retries                                                                 *)

\* Every step preserves Firing: a core runs one retry at a time.
LEMMA FiringNext ==
    ASSUME TypeOK, Moves, Firing, [Next]_vars
    PROVE  Firing'
<1> USE DEF votes, cores, retry, vcpus, wakeup
<1>1. CASE UNCHANGED vars
    BY <1>1, ZenonT(60) DEF vars, Firing
<1>2. ASSUME NEW c \in CPU, Voting(c)
      PROVE  Firing'
    <2>1. /\ UNCHANGED firing
          /\ pc[c] \in {"run", "move"} /\ pc'[c] \in {"run", "move"}
          /\ \A b \in CPU \ {c} : pc'[b] = pc[b]
        BY <1>2, VotingFrame, ZenonT(60)
    <2>2. \A b \in CPU : pc'[b] = "retry" <=> pc[b] = "retry"
        BY <2>1, ZenonT(60)
    <2> QED
        BY <2>1, <2>2, ZenonT(60) DEF Firing
<1>3. ASSUME NEW c \in CPU, NEW b \in CPU, retry_expires(c, b)
      PROVE  Firing'
    <2>1. /\ firing'[c] = b /\ pc'[c] = "retry"
          /\ \A d \in CPU \ {c} : firing'[d] = firing[d] /\ pc'[d] = pc[d]
        BY <1>3, ZenonT(60) DEF retry_expires, TypeOK
    <2> QED
        BY <2>1, PowerAssumption, ZenonT(60) DEF Firing
<1>4. ASSUME NEW c \in CPU, timer_action(c)
      PROVE  Firing'
    <2>1. /\ firing'[c] = None /\ pc'[c] # "retry"
          /\ \A d \in CPU \ {c} : firing'[d] = firing[d] /\ pc'[d] = pc[d]
        BY <1>4, ZenonT(60) DEF timer_action, TypeOK
    <2> QED
        BY <2>1, ZenonT(60) DEF Firing
<1>5. ASSUME NEW c \in CPU, Other(c), ~timer_action(c), \A b \in CPU : ~retry_expires(c, b)
      PROVE  Firing'
    <2>1. \A d \in CPU \ {c} : pc'[d] = pc[d]
        BY <1>5, OtherFrame, ZenonT(60)
    <2>2. UNCHANGED firing
        BY <1>5, ZenonT(60) DEF Other, Wake, leave_count, offline, platform_cpu_off,
            platform_cpu_on, warm_init, warm_count, warm_run, cpu_suspended, idle_end, cpu_resume,
            ipi_received, cpu_suspend, idle_yield_voted, idle_yield_busy, idle_yield_unvoted,
            idle_enter_refused
    <2>3. pc[c] # "retry" /\ pc'[c] # "retry"
        BY <1>5, OtherMoves, ZenonT(60)
    <2> QED
        BY <2>1, <2>2, <2>3, ZenonT(60) DEF Firing
<1> QED
    BY VotingOrOther, <1>1, <1>2, <1>3, <1>4, <1>5, ZenonT(60)

-----------------------------------------------------------------------------
(* Wake-ups of cores without votes                                         *)

\* Every step preserves UnvotedCoreWoken.
LEMMA UnvotedNext ==
    ASSUME TypeOK, Moves, VotesExact, UnvotedCoreWoken, [Next]_vars
    PROVE  UnvotedCoreWoken'
<1> USE DEF votes, cores, retry, vcpus, wakeup
<1> DEFINE Asleep == {"idle", "suspend", "suspended"}
<1>1. CASE UNCHANGED vars
    BY <1>1, ZenonT(60) DEF vars, UnvotedCoreWoken
<1>2. ASSUME NEW c \in CPU, Voting(c)
      PROVE  UnvotedCoreWoken'
    <2>1. /\ pc'[c] \in {"run", "move"}
          /\ \A b \in CPU \ {c} : pc'[b] = pc[b]
        BY <1>2, VotingFrame, ZenonT(60)
    <2>2. UNCHANGED <<busy, refused>>
        BY <1>2, ZenonT(60) DEF Voting, rootvm_started, set_affinity_unvote, vcpu_poweron,
            vcpu_poweroff, set_affinity_vote
    <2>3. \A b \in CPU : /\ vote_count'[b] = 0 => vote_count[b] = 0 \/ idle_ipi'[b]
                         /\ idle_ipi[b] => idle_ipi'[b]
        <3>1. ASSUME NEW a \in CPU, VoteOff(a)
              PROVE  \A b \in CPU : /\ vote_count'[b] = 0 => vote_count[b] = 0 \/ idle_ipi'[b]
                                    /\ idle_ipi[b] => idle_ipi'[b]
            <4>1. \A b \in CPU : idle_ipi[b] => idle_ipi'[b]
                BY <3>1, ZenonT(60) DEF VoteOff, TypeOK
            <4>2. vote_count[a] = 1 => idle_ipi'[a]
                BY <3>1, ZenonT(60) DEF VoteOff, TypeOK
            <4>3. vote_count'[a] = 0 => vote_count[a] = 1
                BY <3>1, VoteOffFrame, SMTT(60) DEF TypeOK
            <4> QED
                BY <3>1, <4>1, <4>2, <4>3, VoteOffFrame, ZenonT(60)
        <3>2. ASSUME NEW a \in CPU, NEW ok \in BOOLEAN, VoteOn(c, a, ok), UNCHANGED idle_ipi,
                     vote_count[a] >= 0
              PROVE  \A b \in CPU : /\ vote_count'[b] = 0 => vote_count[b] = 0 \/ idle_ipi'[b]
                                    /\ idle_ipi[b] => idle_ipi'[b]
            <4>1. vote_count'[a] = 0 => vote_count[a] = 0
                BY <3>2, VoteOnFrame, SMTT(60) DEF TypeOK
            <4> QED
                BY <3>2, <4>1, VoteOnFrame, ZenonT(60)
        <3>3. \A a \in CPU : vote_count[a] >= 0
            BY VotesNat
        <3>4. CASE rootvm_started
            <4>1. VoteOff(BootCpu) /\ BootCpu \in CPU
                BY <3>4, PowerAssumption DEF rootvm_started
            <4> QED
                BY <3>1, <4>1, ZenonT(60)
        <3>5. CASE set_affinity_unvote(c)
            <4>1. moving[c] \in Vcpu \X CPU
                BY <3>5, SMTT(60) DEF set_affinity_unvote, Moves, TypeOK, Move
            <4>2. affinity[moving[c][1]] \in CPU
                BY <4>1, ZenonT(60) DEF TypeOK
            <4>3. VoteOff(affinity[moving[c][1]])
                BY <3>5 DEF set_affinity_unvote
            <4> QED
                BY <3>1, <4>2, <4>3, ZenonT(60)
        <3>6. CASE \E v \in Vcpu : vcpu_poweron(c, v)
            <4>1. PICK v \in Vcpu, ok \in BOOLEAN : VoteOn(c, affinity[v], ok) /\ UNCHANGED idle_ipi
                BY <3>6, ZenonT(60) DEF vcpu_poweron
            <4>2. affinity[v] \in CPU
                BY DEF TypeOK
            <4> QED
                BY <3>2, <3>3, <4>1, <4>2, ZenonT(60)
        <3>7. CASE \E v \in Vcpu : vcpu_poweroff(c, v)
            <4>1. PICK v \in Vcpu : VoteOff(affinity[v])
                BY <3>7, ZenonT(60) DEF vcpu_poweroff
            <4>2. affinity[v] \in CPU
                BY DEF TypeOK
            <4> QED
                BY <3>1, <4>1, <4>2, ZenonT(60)
        <3>8. CASE \E v \in Vcpu, next \in CPU : set_affinity_vote(c, v, next)
            <4>1. PICK next \in CPU, ok \in BOOLEAN : VoteOn(c, next, ok) /\ UNCHANGED idle_ipi
                BY <3>8, ZenonT(60) DEF set_affinity_vote
            <4> QED
                BY <3>2, <3>3, <4>1, ZenonT(60)
        <3> QED
            BY <1>2, <3>4, <3>5, <3>6, <3>7, <3>8, ZenonT(60) DEF Voting
    <2> QED
        BY <2>1, <2>2, <2>3, ZenonT(60) DEF UnvotedCoreWoken
<1>3. ASSUME NEW c \in CPU, Other(c)
      PROVE  UnvotedCoreWoken'
    <2>1. UNCHANGED vote_count /\ \A d \in CPU \ {c} : pc'[d] = pc[d]
        BY <1>3, OtherFrame, ZenonT(60)
    <2>2. /\ \/ UNCHANGED idle_ipi
             \/ idle_ipi' = [idle_ipi EXCEPT ![c] = FALSE]
          /\ busy' = busy \/ busy' = busy \cup {c} \/ busy' = busy \ {c}
          /\ refused' = refused \/ refused' = refused \cup {c} \/ refused' = refused \ {c}
        BY <1>3, ZenonT(60) DEF Other, Wake, timer_action, leave_count, offline, platform_cpu_off,
            platform_cpu_on, warm_init, warm_count, warm_run, cpu_suspended, idle_end, cpu_resume,
            ipi_received, cpu_suspend, idle_yield_voted, idle_yield_busy, idle_yield_unvoted,
            idle_enter_refused, retry_expires, TypeOK
    <2>5. \A d \in CPU \ {c} : idle_ipi[d] => idle_ipi'[d]
        BY <2>2, ZenonT(60) DEF TypeOK
    <2>6. \A d \in CPU \ {c} : (d \in busy => d \in busy') /\ (d \in refused => d \in refused')
        BY <2>2, ZenonT(60)
    <2>3. \/ pc'[c] \notin Asleep
          \/ vote_count[c] > 0
          \/ c \in busy' \cup refused'
          \/ pc[c] \in Asleep /\ UNCHANGED <<idle_ipi, busy, refused>>
        BY <1>3, OtherMoves, ZenonT(60)
    <2>4. vote_count[c] > 0 => vote_count[c] # 0
        BY SMTT(60) DEF TypeOK
    <2> QED
        <3>1. ASSUME NEW d \in CPU \ {c}, pc'[d] \in Asleep, vote_count'[d] = 0
              PROVE  idle_ipi'[d] \/ d \in busy' \cup refused'
            <4>1. pc[d] \in Asleep /\ vote_count[d] = 0
                BY <2>1, <3>1, ZenonT(60)
            <4>2. idle_ipi[d] \/ d \in busy \/ d \in refused
                BY <4>1, ZenonT(60) DEF UnvotedCoreWoken
            <4> QED
                BY <2>5, <2>6, <4>2, ZenonT(60)
        <3>2. ASSUME pc'[c] \in Asleep, vote_count'[c] = 0
              PROVE  idle_ipi'[c] \/ c \in busy' \cup refused'
            <4>1. vote_count[c] = 0 /\ ~ (vote_count[c] > 0)
                BY <2>1, <2>4, <3>2, ZenonT(60)
            <4>2. \/ c \in busy' \cup refused'
                  \/ pc[c] \in Asleep /\ UNCHANGED <<idle_ipi, busy, refused>>
                BY <2>3, <3>2, <4>1, ZenonT(60)
            <4> QED
                BY <4>1, <4>2, ZenonT(60) DEF UnvotedCoreWoken
        <3> QED
            BY <3>1, <3>2, ZenonT(60) DEF UnvotedCoreWoken
<1> QED
    BY VotingOrOther, <1>1, <1>2, <1>3, ZenonT(60)

-----------------------------------------------------------------------------
(* The number of votes                                                     *)

\* Every step preserves VotesExact.
LEMMA VotesNext ==
    ASSUME TypeOK, TypeOK', Moves, VotesExact, [Next]_vars
    PROVE  VotesExact'
<1> USE DEF votes, cores, retry, vcpus, wakeup
<1> SUFFICES ASSUME NEW b \in CPU
             PROVE  vote_count'[b] = Cardinality(Voters(b)') + Cardinality(Movers(b)') + BootVote(b)'
    BY ZenonT(60) DEF VotesExact, Voters, Movers, BootVote
<1>0. vote_count[b] = Cardinality(Voters(b)) + Cardinality(Movers(b)) + BootVote(b)
    BY ZenonT(60) DEF VotesExact, Voters, Movers, BootVote
<1>N. /\ IsFiniteSet(Voters(b)) /\ Cardinality(Voters(b)) \in Nat
      /\ IsFiniteSet(Movers(b)) /\ Cardinality(Movers(b)) \in Nat
      /\ BootVote(b) \in Nat
    BY VotersFinite, ZenonT(60)
<1>1. CASE UNCHANGED <<vote_count, affinity, voting, moving, boot_vote>>
    BY <1>0, <1>1, ZenonT(60) DEF Voters, Movers, BootVote
<1>2. CASE UNCHANGED vars
    BY <1>1, <1>2, ZenonT(60) DEF vars
<1>3. ASSUME NEW c \in CPU, Other(c)
      PROVE  UNCHANGED <<vote_count, affinity, voting, moving, boot_vote>>
    BY <1>3, OtherFrame, ZenonT(60)
<1>4. CASE rootvm_started
    <2>1. /\ Voters(b)' = Voters(b) /\ Movers(b)' = Movers(b)
        BY <1>4, ZenonT(60) DEF rootvm_started, Voters, Movers
    <2>2. BootVote(b) = IF b = BootCpu THEN 1 ELSE 0
        BY <1>4, ZenonT(60) DEF rootvm_started, BootVote
    <2>3. BootVote(b)' = 0
        BY <1>4, ZenonT(60) DEF rootvm_started, BootVote
    <2>4. VoteOff(BootCpu) /\ BootCpu \in CPU
        BY <1>4, PowerAssumption DEF rootvm_started
    <2>5. vote_count'[b] = IF b = BootCpu THEN vote_count[b] - 1 ELSE vote_count[b]
        BY <2>4, VoteOffFrame, ZenonT(60)
    <2> QED
        BY <1>0, <1>N, <2>1, <2>2, <2>3, <2>5, SMTT(60)
<1>5. ASSUME NEW c \in CPU, NEW v \in Vcpu, vcpu_poweron(c, v)
      PROVE  vote_count'[b] = Cardinality(Voters(b)') + Cardinality(Movers(b)') + BootVote(b)'
    <2>1. /\ v \notin voting /\ UNCHANGED <<affinity, moving, boot_vote>>
          /\ affinity[v] \in CPU
        BY <1>5, ZenonT(60) DEF vcpu_poweron, TypeOK
    <2>2. PICK ok \in BOOLEAN : /\ VoteOn(c, affinity[v], ok)
                                /\ voting' = IF ok THEN voting \cup {v} ELSE voting
        BY <1>5, ZenonT(60) DEF vcpu_poweron
    <2>3. Movers(b)' = Movers(b) /\ BootVote(b)' = BootVote(b)
        BY <2>1, ZenonT(60) DEF Movers, BootVote
    <2>4. CASE ok /\ affinity[v] = b
        <3>1. Voters(b)' = Voters(b) \cup {v} /\ v \notin Voters(b)
            BY <2>1, <2>2, <2>4, ZenonT(60) DEF Voters
        <3>2. Cardinality(Voters(b)') = Cardinality(Voters(b)) + 1
            BY <1>N, <3>1, FS_AddElement, ZenonT(60)
        <3>3. vote_count'[b] = vote_count[b] + 1
            BY <2>1, <2>2, <2>4, VoteOnFrame, ZenonT(60)
        <3> QED
            BY <1>0, <1>N, <2>3, <3>2, <3>3, SMTT(60)
    <2>5. CASE ~ (ok /\ affinity[v] = b)
        <3>1. Voters(b)' = Voters(b)
            BY <2>1, <2>2, <2>5, ZenonT(60) DEF Voters
        <3>2. vote_count'[b] = vote_count[b]
            BY <2>1, <2>2, <2>5, VoteOnFrame, ZenonT(60)
        <3> QED
            BY <1>0, <2>3, <3>1, <3>2, ZenonT(60)
    <2> QED
        BY <2>4, <2>5
<1>6. ASSUME NEW c \in CPU, NEW v \in Vcpu, vcpu_poweroff(c, v)
      PROVE  vote_count'[b] = Cardinality(Voters(b)') + Cardinality(Movers(b)') + BootVote(b)'
    <2>1. /\ v \in voting /\ voting' = voting \ {v} /\ UNCHANGED <<affinity, moving, boot_vote>>
          /\ affinity[v] \in CPU /\ VoteOff(affinity[v])
        BY <1>6, ZenonT(60) DEF vcpu_poweroff, TypeOK
    <2>2. Movers(b)' = Movers(b) /\ BootVote(b)' = BootVote(b)
        BY <2>1, ZenonT(60) DEF Movers, BootVote
    <2>3. CASE affinity[v] = b
        <3>1. Voters(b)' = Voters(b) \ {v} /\ v \in Voters(b)
            BY <2>1, <2>3, ZenonT(60) DEF Voters
        <3>2. Cardinality(Voters(b)') = Cardinality(Voters(b)) - 1
            BY <1>N, <3>1, FS_RemoveElement, ZenonT(60)
        <3>3. vote_count'[b] = vote_count[b] - 1
            BY <2>1, <2>3, VoteOffFrame, ZenonT(60)
        <3> QED
            BY <1>0, <1>N, <2>2, <3>2, <3>3, SMTT(60)
    <2>4. CASE affinity[v] # b
        <3>1. Voters(b)' = Voters(b)
            BY <2>1, <2>4, ZenonT(60) DEF Voters
        <3>2. vote_count'[b] = vote_count[b]
            BY <2>1, <2>4, VoteOffFrame, ZenonT(60)
        <3> QED
            BY <1>0, <2>2, <3>1, <3>2, ZenonT(60)
    <2> QED
        BY <2>3, <2>4
<1>7. ASSUME NEW c \in CPU, NEW v \in Vcpu, NEW next \in CPU, set_affinity_vote(c, v, next)
      PROVE  vote_count'[b] = Cardinality(Voters(b)') + Cardinality(Movers(b)') + BootVote(b)'
    <2>1. UNCHANGED <<affinity, voting, boot_vote>> /\ pc[c] = "run"
        BY <1>7, ZenonT(60) DEF set_affinity_vote, Call
    <2>2. PICK ok \in BOOLEAN : /\ VoteOn(c, next, ok)
                                /\ moving' = [moving EXCEPT ![c] = IF ok THEN <<v, next>> ELSE None]
        BY <1>7, ZenonT(60) DEF set_affinity_vote
    <2>3. Voters(b)' = Voters(b) /\ BootVote(b)' = BootVote(b)
        BY <2>1, ZenonT(60) DEF Voters, BootVote
    <2>4. moving[c] = None
        BY <2>1, ZenonT(60) DEF Moves
    <2>5. c \notin Movers(b)
        BY <2>4, ZenonT(60) DEF Movers
    <2>6. \A d \in CPU \ {c} : moving'[d] = moving[d]
        BY <2>2, ZenonT(60) DEF TypeOK
    <2>7. CASE ok /\ next = b
        <3>1. moving'[c] = <<v, next>> /\ <<v, next>> # None /\ <<v, next>>[2] = b
            BY <2>2, <2>7, PowerAssumption, SMTT(60) DEF TypeOK
        <3>2. Movers(b)' = Movers(b) \cup {c}
            BY <2>6, <3>1, ZenonT(60) DEF Movers
        <3>3. Cardinality(Movers(b)') = Cardinality(Movers(b)) + 1
            BY <1>N, <2>5, <3>2, FS_AddElement, ZenonT(60)
        <3>4. vote_count'[b] = vote_count[b] + 1
            BY <2>2, <2>7, VoteOnFrame, ZenonT(60)
        <3> QED
            BY <1>0, <1>N, <2>3, <3>3, <3>4, SMTT(60)
    <2>8. CASE ~ (ok /\ next = b)
        <3>1. moving'[c] = None \/ moving'[c][2] # b
            BY <2>2, <2>8, ZenonT(60) DEF TypeOK
        <3>2. Movers(b)' = Movers(b)
            BY <2>5, <2>6, <3>1, ZenonT(60) DEF Movers
        <3>3. vote_count'[b] = vote_count[b]
            BY <2>2, <2>8, VoteOnFrame, ZenonT(60)
        <3> QED
            BY <1>0, <2>3, <3>2, <3>3, ZenonT(60)
    <2> QED
        BY <2>7, <2>8
<1>8. ASSUME NEW c \in CPU, set_affinity_unvote(c)
      PROVE  vote_count'[b] = Cardinality(Voters(b)') + Cardinality(Movers(b)') + BootVote(b)'
    <2> DEFINE v == moving[c][1]
               next == moving[c][2]
               prev == affinity[v]
    <2>1. moving[c] # None /\ moving[c] \in Vcpu \X CPU
        BY <1>8, SMTT(60) DEF set_affinity_unvote, Moves, TypeOK, Move
    <2>2. v \in Vcpu /\ next \in CPU
        BY <2>1, ZenonT(60)
    <2>3. v \in voting /\ next # prev /\ prev \in CPU
        BY <2>1, <2>2, ZenonT(60) DEF Moves, TypeOK
    <2>4. /\ VoteOff(prev) /\ affinity' = [affinity EXCEPT ![v] = next]
          /\ moving' = [moving EXCEPT ![c] = None] /\ UNCHANGED <<voting, boot_vote>>
        BY <1>8, ZenonT(60) DEF set_affinity_unvote
    <2>5. /\ affinity'[v] = next /\ \A u \in Vcpu \ {v} : affinity'[u] = affinity[u]
          /\ moving'[c] = None /\ \A d \in CPU \ {c} : moving'[d] = moving[d]
        BY <2>2, <2>4, ZenonT(60) DEF TypeOK
    <2>6. voting \subseteq Vcpu
        BY DEF TypeOK
    <2>7. BootVote(b)' = BootVote(b)
        BY <2>4, ZenonT(60) DEF BootVote
    <2>A. /\ moving[c][2] = next /\ affinity[v] = prev
          /\ voting' = voting /\ \A u \in voting : u # v => affinity'[u] = affinity[u]
        BY <2>4, <2>5, <2>6, ZenonT(60)
    <2> HIDE DEF v, next, prev
    <2>8. CASE b = prev
        <3>1. Voters(b)' = Voters(b) \ {v}
            BY <2>3, <2>5, <2>8, <2>A, ZenonT(60) DEF Voters
        <3>5. v \in Voters(b)
            BY <2>3, <2>8, <2>A, ZenonT(60) DEF Voters
        <3>2. Movers(b)' = Movers(b)
            BY <2>3, <2>5, <2>8, <2>A, ZenonT(60) DEF Movers
        <3>6. Cardinality(Voters(b) \ {v}) = Cardinality(Voters(b)) - 1
            BY <1>N, <3>5, FS_RemoveElement, ZenonT(60)
        <3>3. Cardinality(Voters(b)') = Cardinality(Voters(b)) - 1
            BY <3>1, <3>6, ZenonT(60)
        <3>4. vote_count'[b] = vote_count[b] - 1
            BY <2>3, <2>4, <2>8, VoteOffFrame, ZenonT(60)
        <3> QED
            BY <1>0, <1>N, <2>7, <3>2, <3>3, <3>4, SMTT(60)
    <2>9. CASE b = next
        <3>1. Voters(b)' = Voters(b) \cup {v}
            BY <2>3, <2>5, <2>9, <2>A, ZenonT(60) DEF Voters
        <3>7. v \notin Voters(b)
            BY <2>3, <2>9, <2>A, ZenonT(60) DEF Voters
        <3>6. c \in Movers(b)
            BY <2>1, <2>9, <2>A, ZenonT(60) DEF Movers
        <3>2. Movers(b)' = Movers(b) \ {c}
            BY <2>5, ZenonT(60) DEF Movers
        <3>3. Cardinality(Voters(b)') = Cardinality(Voters(b)) + 1
            BY <1>N, <3>1, <3>7, FS_AddElement, ZenonT(60)
        <3>4. Cardinality(Movers(b)') = Cardinality(Movers(b)) - 1
            BY <1>N, <3>2, <3>6, FS_RemoveElement, ZenonT(60)
        <3>5. vote_count'[b] = vote_count[b]
            BY <2>3, <2>4, <2>9, VoteOffFrame, ZenonT(60)
        <3> QED
            BY <1>0, <1>N, <2>7, <3>3, <3>4, <3>5, SMTT(60)
    <2>10. CASE b # prev /\ b # next
        <3>1. Voters(b)' = Voters(b)
            BY <2>5, <2>10, <2>A, ZenonT(60) DEF Voters
        <3>2. Movers(b)' = Movers(b)
            BY <2>5, <2>10, <2>A, ZenonT(60) DEF Movers
        <3>3. vote_count'[b] = vote_count[b]
            BY <2>3, <2>4, <2>10, VoteOffFrame, ZenonT(60)
        <3> QED
            BY <1>0, <2>7, <3>1, <3>2, <3>3, ZenonT(60)
    <2> QED
        BY <2>8, <2>9, <2>10, ZenonT(60)
<1> QED
    BY StepCases, <1>1, <1>2, <1>3, <1>4, <1>5, <1>6, <1>7, <1>8, ZenonT(60)

-----------------------------------------------------------------------------
(* Starts of cores with votes                                              *)

Down == {"OFF", "OFFLINE"}

\* power_try_cpu_on that succeeds has started the core, or queued a retry; and
\* it stops no core and takes no timer off its queue.
LEMMA TryCpuOnStarts ==
    ASSUME TypeOK, NEW d \in CPU, NEW c \in CPU, NEW n \in Nat, NEW ok \in BOOLEAN,
           TryCpuOn(d, c, n, ok)
    PROVE  /\ ok => state'[c] \notin Down \/ retry_timer'[c] # None
           /\ \A b \in CPU : /\ state[b] \notin Down => state'[b] \notin Down
                             /\ retry_timer[b] # None => retry_timer'[b] # None
    BY PowerAssumption, SMTT(60) DEF TypeOK, TryCpuOn, QueueRetry, Down, Holder

\* power_vote_cpu_on starts the core or leaves its retry timer running.
LEMMA VoteOnStarts ==
    ASSUME TypeOK, VotesExact, NEW d \in CPU, NEW c \in CPU, NEW ok \in BOOLEAN, VoteOn(d, c, ok)
    PROVE  \A b \in CPU :
              /\ vote_count'[b] > 0 => \/ vote_count[b] > 0
                                       \/ state'[b] \notin Down \/ retry_timer'[b] # None
              /\ state[b] \notin Down => state'[b] \notin Down
              /\ retry_timer[b] # None => retry_timer'[b] # None
<1>0. /\ vote_count'[c] = IF ok THEN vote_count[c] + 1 ELSE vote_count[c]
      /\ \A b \in CPU \ {c} : vote_count'[b] = vote_count[b]
    BY VoteOnFrame, ZenonT(60)
<1>1. CASE vote_count[c] = 0
    <2>1. TryCpuOn(d, c, retry_count[c], ok) /\ retry_count[c] \in Nat
        BY <1>1, ZenonT(60) DEF TypeOK, VoteOn
    <2>2. /\ ok => state'[c] \notin Down \/ retry_timer'[c] # None
          /\ \A b \in CPU : /\ state[b] \notin Down => state'[b] \notin Down
                            /\ retry_timer[b] # None => retry_timer'[b] # None
        BY <2>1, TryCpuOnStarts, ZenonT(60)
    <2>3. ~ok => vote_count'[c] = vote_count[c]
        BY <1>0, ZenonT(60)
    <2> QED
        BY <1>0, <2>2, <2>3, ZenonT(60)
<1>2. CASE vote_count[c] # 0
    <2>1. vote_count[c] > 0
        BY <1>2, VotesNat, SMTT(60)
    <2>2. UNCHANGED <<state, retry_timer>>
        BY <1>2, ZenonT(60) DEF VoteOn
    <2> QED
        BY <1>0, <2>1, <2>2, ZenonT(60)
<1> QED
    BY <1>1, <1>2, ZenonT(60)

\* power_vote_cpu_off cancels the retries of a core that has no votes left.
LEMMA VoteOffStarts ==
    ASSUME TypeOK, NEW c \in CPU, VoteOff(c), UNCHANGED state
    PROVE  \A b \in CPU :
              vote_count'[b] > 0 => /\ vote_count[b] > 0
                                    /\ state'[b] = state[b]
                                    /\ retry_timer'[b] = retry_timer[b]
    BY SMTT(60) DEF TypeOK, VoteOff

\* So does every step that votes, and none takes a core down.
LEMMA VotingStarts ==
    ASSUME TypeOK, Moves, VotesExact, NEW c \in CPU, Voting(c)
    PROVE  \A b \in CPU : vote_count'[b] > 0 =>
              /\ \/ vote_count[b] > 0
                 \/ state'[b] \notin Down \/ retry_timer'[b] # None
              /\ state[b] \notin Down => state'[b] \notin Down
              /\ retry_timer[b] # None => retry_timer'[b] # None
<1> USE DEF votes, cores, retry, vcpus, wakeup
<1>1. CASE rootvm_started
    <2>1. VoteOff(BootCpu) /\ BootCpu \in CPU /\ UNCHANGED state
        BY <1>1, PowerAssumption, ZenonT(60) DEF rootvm_started
    <2> QED
        BY <2>1, VoteOffStarts, ZenonT(60)
<1>2. CASE set_affinity_unvote(c)
    <2>1. moving[c] \in Vcpu \X CPU
        BY <1>2, ZenonT(60) DEF set_affinity_unvote, Moves, TypeOK, Move
    <2>2. affinity[moving[c][1]] \in CPU
        BY <2>1, ZenonT(60) DEF TypeOK
    <2>3. VoteOff(affinity[moving[c][1]]) /\ UNCHANGED state
        BY <1>2, ZenonT(60) DEF set_affinity_unvote
    <2> QED
        BY <2>2, <2>3, VoteOffStarts, ZenonT(60)
<1>3. CASE \E v \in Vcpu : vcpu_poweron(c, v)
    <2>1. PICK v \in Vcpu, ok \in BOOLEAN : VoteOn(c, affinity[v], ok)
        BY <1>3, ZenonT(60) DEF vcpu_poweron
    <2>2. affinity[v] \in CPU
        BY DEF TypeOK
    <2> QED
        BY <2>1, <2>2, VoteOnStarts, ZenonT(60)
<1>4. CASE \E v \in Vcpu : vcpu_poweroff(c, v)
    <2>1. PICK v \in Vcpu : VoteOff(affinity[v]) /\ UNCHANGED state
        BY <1>4, ZenonT(60) DEF vcpu_poweroff
    <2>2. affinity[v] \in CPU
        BY DEF TypeOK
    <2> QED
        BY <2>1, <2>2, VoteOffStarts, ZenonT(60)
<1>5. CASE \E v \in Vcpu, next \in CPU : set_affinity_vote(c, v, next)
    <2>1. PICK next \in CPU, ok \in BOOLEAN : VoteOn(c, next, ok)
        BY <1>5, ZenonT(60) DEF set_affinity_vote
    <2> QED
        BY <2>1, VoteOnStarts, ZenonT(60)
<1> QED
    BY <1>1, <1>2, <1>3, <1>4, <1>5, ZenonT(60) DEF Voting

\* Every step preserves NoVoteForgotten.
LEMMA ForgottenNext ==
    ASSUME TypeOK, TypeOK', Moves, Leaving, Firing, VotesExact, NoVoteForgotten, [Next]_vars
    PROVE  NoVoteForgotten'
<1> USE DEF votes, cores, retry, vcpus, wakeup
<1> DEFINE Started(b) == state[b] \notin Down
           Queued(b)  == retry_timer[b] # None
           Running(b) == \E d \in CPU : firing[d] = b \/ pc[d] = "panic"
<1> SUFFICES ASSUME NEW b \in CPU, vote_count'[b] > 0
             PROVE  Started(b)' \/ Queued(b)' \/ Running(b)'
    BY ZenonT(60) DEF NoVoteForgotten, Down
<1>0. vote_count[b] > 0 => Started(b) \/ Queued(b) \/ Running(b)
    BY ZenonT(60) DEF NoVoteForgotten, Down
<1>1. CASE UNCHANGED vars
    BY <1>0, <1>1, ZenonT(60) DEF vars
<1>2. ASSUME NEW c \in CPU, Voting(c)
      PROVE  Started(b)' \/ Queued(b)' \/ Running(b)'
    <2>1. /\ UNCHANGED firing
          /\ pc[c] \in {"run", "move"}
          /\ \A d \in CPU \ {c} : pc'[d] = pc[d]
        BY <1>2, VotingFrame, ZenonT(60)
    <2>2. pc[c] # "panic"
        BY <2>1, ZenonT(60)
    <2>3. Running(b) => Running(b)'
        BY <2>1, <2>2, ZenonT(60)
    <2> QED
        BY <1>0, <1>2, <2>3, VotingStarts, ZenonT(60)
<1>3. ASSUME NEW c \in CPU, Other(c)
      PROVE  Started(b)' \/ Queued(b)' \/ Running(b)'
    <2>0. UNCHANGED vote_count /\ \A d \in CPU \ {c} : pc'[d] = pc[d]
        BY <1>3, OtherFrame, ZenonT(60)
    <2>1. Started(b) \/ Queued(b) \/ Running(b)
        BY <1>0, <2>0, ZenonT(60)
    <2>2. pc[c] # "panic"
        BY <1>3, OtherFrame, ZenonT(60)
    <2>3. CASE timer_action(c)
        <3>1. /\ \A d \in CPU \ {c} : firing'[d] = firing[d]
              /\ firing[c] \in CPU
            BY <2>3, ZenonT(60) DEF timer_action, TypeOK, Firing, Holder
        <3>2. /\ Started(b) => Started(b)'
              /\ Queued(b) => Queued(b)'
              /\ firing[c] = b => Started(b)' \/ Queued(b)' \/ pc'[c] = "panic"
            <4>1. CASE vote_count[firing[c]] > 0
                <5>1. PICK ok \in BOOLEAN :
                         /\ TryCpuOn(c, firing[c], retry_count[firing[c]] + 1, ok)
                         /\ pc' = [pc EXCEPT ![c] = IF ok THEN "run" ELSE "panic"]
                    BY <2>3, <4>1, ZenonT(60) DEF timer_action
                <5>2. retry_count[firing[c]] + 1 \in Nat
                    BY <3>1, SMTT(60) DEF TypeOK
                <5>3. ~ok => pc'[c] = "panic"
                    BY <5>1, ZenonT(60) DEF TypeOK
                <5>4. /\ ok => state'[firing[c]] \notin Down \/ retry_timer'[firing[c]] # None
                      /\ \A a \in CPU : /\ state[a] \notin Down => state'[a] \notin Down
                                        /\ retry_timer[a] # None => retry_timer'[a] # None
                    BY <3>1, <5>1, <5>2, TryCpuOnStarts, ZenonT(60)
                <5> QED
                    BY <5>3, <5>4, ZenonT(60)
            <4>2. CASE ~ (vote_count[firing[c]] > 0)
                <5>1. UNCHANGED <<state, retry_timer>>
                    BY <2>3, <4>2, ZenonT(60) DEF timer_action
                <5>2. firing[c] # b
                    BY <2>0, <4>2, ZenonT(60)
                <5> QED
                    BY <5>1, <5>2, ZenonT(60)
            <4> QED
                BY <4>1, <4>2
        <3> QED
            BY <2>0, <2>1, <2>2, <3>1, <3>2, ZenonT(60)
    <2>4. CASE \E a \in CPU : retry_expires(c, a)
        <3>1. PICK a \in CPU : retry_expires(c, a)
            BY <2>4, ZenonT(60)
        <3>2. firing[c] = None
            BY <3>1, ZenonT(60) DEF retry_expires, Firing
        <3>3. /\ firing'[c] = a /\ \A d \in CPU \ {c} : firing'[d] = firing[d]
              /\ \A d \in CPU \ {a} : retry_timer'[d] = retry_timer[d]
              /\ UNCHANGED state
            BY <3>1, ZenonT(60) DEF retry_expires, TypeOK
        <3> QED
            BY <2>0, <2>1, <2>2, <3>2, <3>3, PowerAssumption, ZenonT(60)
    <2>5. CASE offline(c)
        <3>1. vote_count[c] = 0
            BY <2>5, ZenonT(60) DEF offline, Leaving
        <3>2. c # b
            BY <2>0, <3>1, SMTT(60)
        <3>3. state'[b] = state[b] /\ UNCHANGED firing
            BY <2>5, <3>2, ZenonT(60) DEF offline, TypeOK
        <3>4. Queued(b) => Queued(b)'
            <4>1. PICK d \in tq_online \ {c} : retry_timer' = MoveTimers(c, d)
                BY <2>5, ZenonT(60) DEF offline
            <4>3. tq_online \subseteq CPU
                BY DEF TypeOK
            <4>2. d # None
                BY <4>3, PowerAssumption, ZenonT(60)
            <4> QED
                BY <4>1, <4>2, ZenonT(60) DEF MoveTimers
        <3> QED
            BY <2>0, <2>1, <2>2, <3>3, <3>4, ZenonT(60)
    <2>6. CASE ~timer_action(c) /\ ~offline(c) /\ \A a \in CPU : ~retry_expires(c, a)
        <3>1. UNCHANGED <<firing, retry_timer>>
            BY <1>3, <2>6, ZenonT(60) DEF Other, Wake, leave_count, platform_cpu_off,
                platform_cpu_on, warm_init, warm_count, warm_run, cpu_suspended, idle_end, cpu_resume,
                ipi_received, cpu_suspend, idle_yield_voted, idle_yield_busy, idle_yield_unvoted,
                idle_enter_refused
        <3>2. \/ UNCHANGED state
              \/ state' = [state EXCEPT ![c] = "ONLINE"]
              \/ state' = [state EXCEPT ![c] = "SUSPEND"]
            BY <1>3, <2>6, ZenonT(60) DEF Other, Wake, leave_count, platform_cpu_off,
                platform_cpu_on, warm_init, warm_count, warm_run, cpu_suspended, idle_end, cpu_resume,
                ipi_received, cpu_suspend, idle_yield_voted, idle_yield_busy, idle_yield_unvoted,
                idle_enter_refused
        <3>3. Started(b) => Started(b)'
            BY <3>2, ZenonT(60) DEF TypeOK, Down
        <3> QED
            BY <2>0, <2>1, <2>2, <3>1, <3>3, ZenonT(60)
    <2> QED
        BY <2>3, <2>4, <2>5, <2>6
<1> QED
    BY VotingOrOther, <1>1, <1>2, <1>3, ZenonT(60)

-----------------------------------------------------------------------------
(* The invariant                                                           *)

\* The invariant holds at boot.
LEMMA InitInv ==
    ASSUME Init
    PROVE  IInv
<1>0. BootCpu \in CPU /\ 0 \in Nat /\ 0 \in Int /\ 1 \in Int /\ 1 # 0
    BY PowerAssumption, SMTT(60)
<1>1. TypeOK
    <2>1. lock \in [CPU -> BOOLEAN] /\ idle_ipi \in [CPU -> BOOLEAN] /\ boot_vote \in BOOLEAN
        BY ZenonT(60) DEF Init
    <2> QED
        BY <1>0, <2>1, LabelType, ZenonT(60) DEF Init, TypeOK
<1>2. Moves /\ Leaving /\ Firing
    BY ZenonT(60) DEF Init, Moves, Leaving, Firing
<1>3. NoVoteForgotten
    BY SMTT(60) DEF Init, NoVoteForgotten
<1>4. UnvotedCoreWoken
    BY ZenonT(60) DEF Init, UnvotedCoreWoken
<1>5. VotesExact
    <2> SUFFICES ASSUME NEW c \in CPU
                 PROVE  vote_count[c] = Cardinality(Voters(c)) + Cardinality(Movers(c)) + BootVote(c)
        BY ZenonT(60) DEF VotesExact, Voters, Movers, BootVote
    <2>1. Voters(c) = {} /\ Movers(c) = {}
        BY ZenonT(60) DEF Init, Voters, Movers
    <2>2. BootVote(c) = IF c = BootCpu THEN 1 ELSE 0
        BY ZenonT(60) DEF Init, BootVote
    <2>3. vote_count[c] = IF c = BootCpu THEN 1 ELSE 0
        BY ZenonT(60) DEF Init
    <2> QED
        BY <2>1, <2>2, <2>3, FS_EmptySet, SMTT(60)
<1> QED
    BY <1>1, <1>2, <1>3, <1>4, <1>5 DEF IInv

\* The inductive invariant of Power.
THEOREM Invariance == Spec => []IInv
<1>1. Init => IInv
    BY InitInv
<1>2. IInv /\ [Next]_vars => IInv'
    <2> SUFFICES ASSUME IInv, [Next]_vars
                 PROVE  IInv'
        OBVIOUS
    <2> USE DEF IInv
    <2>1. TypeOK'
        BY TypeNext
    <2>2. Moves' /\ Leaving' /\ Firing'
        BY MovesNext, LeavingNext, FiringNext
    <2>3. VotesExact'
        BY <2>1, VotesNext
    <2>4. NoVoteForgotten' /\ UnvotedCoreWoken'
        BY <2>1, ForgottenNext, UnvotedNext
    <2> QED
        BY <2>1, <2>2, <2>3, <2>4
<1> QED
    BY <1>1, <1>2, PTL DEF Spec

\* power_vote_cpu_on and power_vote_cpu_off count every VCPU that votes for a
\* core once, through its power-on and power-off, failed votes that are rolled
\* back, and changes of its affinity by any core.
THEOREM VotesAreExact == Spec => []VotesExact
    BY Invariance, PTL DEF IInv

\* A core that a VCPU votes for has been started, or the start is being retried
\* (power_try_cpu_on and its retry timer), or a retry has failed and panicked:
\* no power-off of that core, or of the core whose timer queue holds the timer,
\* loses the vote.
THEOREM VotesAreNotForgotten == Spec => []NoVoteForgotten
    BY Invariance, PTL DEF IInv

\* A core that sleeps in its idle loop when power_vote_cpu_off takes its last
\* vote away has been sent an IPI, unless it will be woken for RCU anyway or a
\* handler has refused to power it off.
THEOREM UnvotedCoresAreWoken == Spec => []UnvotedCoreWoken
    BY Invariance, PTL DEF IInv
=============================================================================
