-------------------------------- MODULE Power --------------------------------
(***************************************************************************)
(* Powering cores on and off: the votes of hyp/core/power, the VCPUs of    *)
(* hyp/vm/vcpu_power that cast them, and of the platform and the timer     *)
(* queues what power.c relies on.                                          *)
(*                                                                         *)
(* A core is kept on while some VCPU votes for it.  A core without votes   *)
(* takes itself offline from its idle loop, holding its own voting lock;   *)
(* the first vote for a core that is off starts it.  A start that races    *)
(* with the end of a power-off is retried by a timer, which is queued on   *)
(* the core that cast the vote.                                            *)
(*                                                                         *)
(* A critical section of a voting lock or of power_system_lock is one      *)
(* step, except where a core holds its voting lock for longer: while it    *)
(* goes offline and while it comes online.                                 *)
(***************************************************************************)
EXTENDS Integers, FiniteSets

CONSTANTS CPU, BootCpu,
          Vcpu,       \* the VCPUs that vote
          None,       \* not a core and not a VCPU
          MaxRetries, \* MAX_CPU_ON_RETRIES
          MayRefuse,  \* whether a power_system_idle_enter handler may refuse
          MayFail,    \* whether platform_cpu_on may fail
          MaxCalls    \* bound: calls made by VCPUs and their managers

ASSUME PowerAssumption ==
    /\ IsFiniteSet(CPU) /\ IsFiniteSet(Vcpu)
    /\ BootCpu \in CPU
    /\ None \notin CPU /\ None \notin Vcpu /\ None \notin Vcpu \X CPU
    /\ MaxRetries \in Nat \ {0} /\ MaxCalls \in Nat
    /\ MayRefuse \in BOOLEAN /\ MayFail \in BOOLEAN

VARIABLES
    vote_count,  \* power_voting.vote_count
    retry_count, \* power_voting.retry_count
    lock,        \* power_voting.lock: the core that holds it across steps
    state,       \* power_state
    running,     \* power_system_running_cpus
    online_cpus, \* power_system_online_cpus
    retry_timer, \* the core whose timer queue has power_voting.retry_timer
    firing,      \* the core whose retry timer's action each core has to run
    tq_online,   \* the cores whose timer queue is online
    powered,     \* the platform's view of each core: "on", "off" or "pending"
    idle_ipi,    \* IPI_REASON_IDLE pending for each core
    busy,        \* the cores that went idle with RCU updates pending
    refused,     \* the cores that went idle because a handler refused their power-off
    pc,          \* what each core is doing
    moving,      \* the VCPU whose affinity each core is changing, and to where
    affinity,    \* each VCPU's affinity
    voting,      \* the VCPUs with vcpu_power_should_vote
    boot_vote,   \* whether the boot core's initial vote is still held
    calls        \* calls made so far

votes  == <<vote_count, retry_count>>
cores  == <<lock, state, running, online_cpus, powered>>
retry  == <<retry_timer, firing, tq_online>>
vcpus  == <<moving, affinity, voting, boot_vote>>
wakeup == <<idle_ipi, busy, refused>>
vars   == <<votes, cores, retry, wakeup, pc, vcpus, calls>>

(* power_handle_boot_cold_init, and the boot core's warm init. *)
Init ==
    /\ vote_count = [c \in CPU |-> IF c = BootCpu THEN 1 ELSE 0]
    /\ retry_count = [c \in CPU |-> 0]
    /\ lock = [c \in CPU |-> FALSE]
    /\ state = [c \in CPU |-> IF c = BootCpu THEN "ONLINE" ELSE "OFF"]
    /\ running = {BootCpu}
    /\ online_cpus = 1
    /\ retry_timer = [c \in CPU |-> None]
    /\ firing = [c \in CPU |-> None]
    /\ tq_online = {BootCpu}
    /\ powered = [c \in CPU |-> IF c = BootCpu THEN "on" ELSE "off"]
    /\ idle_ipi = [c \in CPU |-> FALSE]
    /\ busy = {}
    /\ refused = {}
    /\ pc = [c \in CPU |-> IF c = BootCpu THEN "run" ELSE "off"]
    /\ moving = [c \in CPU |-> None]
    /\ affinity \in [Vcpu -> CPU]
    /\ voting = {}
    /\ boot_vote = TRUE
    /\ calls = 0

-----------------------------------------------------------------------------
(* Votes.                                                                   *)

(* Mutant: the retry timer is not queued. *)
QueueRetryNever(d, c) == retry_timer

(* The retry timer is queued on the calling core, unless it is queued. *)
QueueRetry(d, c) == [retry_timer EXCEPT ![c] = IF @ = None THEN d ELSE @]

(* power_try_cpu_on for core c, called on core d, after n retries.  The     *)
(* platform answers RETRY while the core is still powering off.             *)
TryCpuOn(d, c, n, ok) ==
    \/ /\ state[c] \notin {"OFF", "OFFLINE"}
       /\ ok
       /\ retry_count' = [retry_count EXCEPT ![c] = n]
       /\ UNCHANGED <<state, powered, retry_timer>>
    \/ /\ state[c] \in {"OFF", "OFFLINE"}
       /\ powered[c] = "off"
       /\ ok
       /\ state' = [state EXCEPT ![c] = "STARTED"]
       /\ powered' = [powered EXCEPT ![c] = "pending"]
       /\ retry_count' = [retry_count EXCEPT ![c] = 0]
       /\ UNCHANGED retry_timer
    \/ /\ state[c] \in {"OFF", "OFFLINE"}
       /\ powered[c] = "on"
       /\ ok = (n < MaxRetries)
       /\ retry_timer' = IF ok THEN QueueRetry(d, c) ELSE retry_timer
       /\ retry_count' = [retry_count EXCEPT ![c] = n]
       /\ UNCHANGED <<state, powered>>
    \/ /\ state[c] \in {"OFF", "OFFLINE"}
       /\ MayFail
       /\ ~ok
       /\ retry_count' = [retry_count EXCEPT ![c] = n]
       /\ UNCHANGED <<state, powered, retry_timer>>

(* Mutant: the vote is counted although the core could not be started. *)
VoteOnAlways(d, c, ok) ==
    /\ ~lock[c]
    /\ IF vote_count[c] = 0
         THEN TryCpuOn(d, c, retry_count[c], ok)
         ELSE ok /\ UNCHANGED <<retry_count, state, powered, retry_timer>>
    /\ vote_count' = [vote_count EXCEPT ![c] = @ + 1]

(* power_vote_cpu_on, called on core d. *)
VoteOn(d, c, ok) ==
    /\ ~lock[c]
    /\ IF vote_count[c] = 0
         THEN TryCpuOn(d, c, retry_count[c], ok)
         ELSE ok /\ UNCHANGED <<retry_count, state, powered, retry_timer>>
    /\ vote_count' = [vote_count EXCEPT ![c] = IF ok THEN @ + 1 ELSE @]

(* Mutant: the core is not woken. *)
VoteOffQuiet(c) ==
    /\ ~lock[c]
    /\ vote_count' = [vote_count EXCEPT ![c] = @ - 1]
    /\ UNCHANGED idle_ipi
    /\ IF vote_count[c] = 1
         THEN /\ retry_count' = [retry_count EXCEPT ![c] = 0]
              /\ retry_timer' = [retry_timer EXCEPT ![c] = None]
         ELSE UNCHANGED <<retry_count, retry_timer>>

(* power_vote_cpu_off: the last vote cancels the retries and wakes the core. *)
VoteOff(c) ==
    /\ ~lock[c]
    /\ vote_count' = [vote_count EXCEPT ![c] = @ - 1]
    /\ IF vote_count[c] = 1
         THEN /\ retry_count' = [retry_count EXCEPT ![c] = 0]
              /\ retry_timer' = [retry_timer EXCEPT ![c] = None]
              /\ idle_ipi' = [idle_ipi EXCEPT ![c] = TRUE]
         ELSE UNCHANGED <<retry_count, retry_timer, idle_ipi>>

(* A VCPU's scheduler lock is held by the core that changes its affinity. *)
Unlocked(v) == \A d \in CPU : moving[d] # None => moving[d][1] # v

Call(d) == pc[d] = "run" /\ calls < MaxCalls /\ calls' = calls + 1

(* vcpu_power_handle_vcpu_poweron, which rolls a failed vote back, and      *)
(* vcpu_power_handle_thread_killed of a VCPU that does not vote, where a    *)
(* failed vote is a panic.                                                  *)
vcpu_poweron(d, v) ==
    /\ Call(d)
    /\ Unlocked(v)
    /\ v \notin voting
    /\ \E ok \in BOOLEAN :
          /\ VoteOn(d, affinity[v], ok)
          /\ voting' = IF ok THEN voting \cup {v} ELSE voting
    /\ UNCHANGED <<lock, running, online_cpus, firing, tq_online, wakeup, pc, moving, affinity,
                   boot_vote>>

(* vcpu_power_handle_vcpu_poweroff and vcpu_power_handle_vcpu_stopped. *)
vcpu_poweroff(d, v) ==
    /\ Call(d)
    /\ Unlocked(v)
    /\ v \in voting
    /\ VoteOff(affinity[v])
    /\ voting' = voting \ {v}
    /\ UNCHANGED <<cores, firing, tq_online, busy, refused, pc, moving, affinity, boot_vote>>

(* power_handle_rootvm_started. *)
rootvm_started ==
    /\ Call(BootCpu)
    /\ boot_vote
    /\ VoteOff(BootCpu)
    /\ boot_vote' = FALSE
    /\ UNCHANGED <<cores, firing, tq_online, busy, refused, pc, moving, affinity, voting>>

(* vcpu_power_handle_scheduler_set_affinity_prepare: vote for the next core *)
set_affinity_vote(d, v, next) ==
    /\ Call(d)
    /\ Unlocked(v)
    /\ v \in voting
    /\ next # affinity[v]
    /\ \E ok \in BOOLEAN :
          /\ VoteOn(d, next, ok)
          /\ moving' = [moving EXCEPT ![d] = IF ok THEN <<v, next>> ELSE None]
          /\ pc' = [pc EXCEPT ![d] = IF ok THEN "move" ELSE "run"]
    /\ UNCHANGED <<lock, running, online_cpus, firing, tq_online, wakeup, affinity, voting,
                   boot_vote>>

(* and, if that worked, withdraw the vote for the previous one. *)
set_affinity_unvote(d) ==
    /\ pc[d] = "move"
    /\ VoteOff(affinity[moving[d][1]])
    /\ affinity' = [affinity EXCEPT ![moving[d][1]] = moving[d][2]]
    /\ moving' = [moving EXCEPT ![d] = None]
    /\ pc' = [pc EXCEPT ![d] = "run"]
    /\ UNCHANGED <<cores, firing, tq_online, busy, refused, voting, boot_vote, calls>>

(* The retry timer for core c expires on core d.  The platform completes a  *)
(* power-off before the last retry, two retry delays after the first.       *)
OffBeforeLastRetry(c) ==
    state[c] = "OFFLINE" /\ powered[c] = "on" => retry_count[c] + 1 < MaxRetries

retry_expires(d, c) ==
    /\ pc[d] = "run"
    /\ retry_timer[c] = d
    /\ OffBeforeLastRetry(c)
    /\ retry_timer' = [retry_timer EXCEPT ![c] = None]
    /\ firing' = [firing EXCEPT ![d] = c]
    /\ pc' = [pc EXCEPT ![d] = "retry"]
    /\ UNCHANGED <<votes, cores, tq_online, wakeup, vcpus, calls>>

(* power_handle_timer_action. *)
timer_action(d) ==
    LET c == firing[d]
    IN  /\ pc[d] = "retry"
        /\ ~lock[c]
        /\ IF vote_count[c] > 0
             THEN \E ok \in BOOLEAN :
                    /\ TryCpuOn(d, c, retry_count[c] + 1, ok)
                    /\ pc' = [pc EXCEPT ![d] = IF ok THEN "run" ELSE "panic"]
             ELSE /\ pc' = [pc EXCEPT ![d] = "run"]
                  /\ UNCHANGED <<retry_count, state, powered, retry_timer>>
        /\ firing' = [firing EXCEPT ![d] = None]
        /\ UNCHANGED <<vote_count, lock, running, online_cpus, tq_online, wakeup, vcpus, calls>>

-----------------------------------------------------------------------------
(* Going offline.                                                           *)

(* power_handle_idle_yield of a core that has votes: other idle handlers    *)
(* may suspend it.                                                          *)
idle_yield_voted(c) ==
    /\ pc[c] = "run"
    /\ ~lock[c]
    /\ vote_count[c] > 0
    /\ pc' = [pc EXCEPT ![c] = "idle"]
    /\ UNCHANGED <<votes, cores, retry, wakeup, vcpus, calls>>

(* The same, of a core with pending RCU updates, whatever its votes; their  *)
(* end wakes it up again.                                                   *)
idle_yield_busy(c) ==
    /\ pc[c] = "run"
    /\ busy' = busy \cup {c}
    /\ pc' = [pc EXCEPT ![c] = "idle"]
    /\ UNCHANGED <<votes, cores, retry, idle_ipi, refused, vcpus, calls>>

(* power_handle_idle_yield of a core without votes, up to its release of    *)
(* power_system_lock.                                                       *)
idle_yield_unvoted(c) ==
    /\ pc[c] = "run"
    /\ ~lock[c]
    /\ vote_count[c] = 0
    /\ lock' = [lock EXCEPT ![c] = TRUE]
    /\ running' = running \ {c}
    /\ pc' = [pc EXCEPT ![c] = "leave"]
    /\ UNCHANGED <<votes, state, online_cpus, powered, retry, wakeup, vcpus, calls>>

(* The same, when a power_system_idle_enter handler refuses. *)
idle_enter_refused(c) ==
    /\ MayRefuse
    /\ pc[c] = "run"
    /\ ~lock[c]
    /\ vote_count[c] = 0
    /\ running = {c}
    /\ refused' = refused \cup {c}
    /\ pc' = [pc EXCEPT ![c] = "idle"]
    /\ UNCHANGED <<votes, cores, retry, idle_ipi, busy, vcpus, calls>>

leave_count(c) ==
    /\ pc[c] = "leave"
    /\ online_cpus' = online_cpus - 1
    /\ pc' = [pc EXCEPT ![c] = "wait_online"]
    /\ UNCHANGED <<votes, lock, state, running, powered, retry, wakeup, vcpus, calls>>

OthersOnline == online_cpus # 0

MoveTimers(c, d) == [b \in CPU |-> IF retry_timer[b] = c THEN d ELSE retry_timer[b]]

(* The power_cpu_offline event moves the core's timers to another core's    *)
(* queue; then the core gives up its lock and powers off.                   *)
offline(c) ==
    /\ pc[c] = "wait_online"
    /\ OthersOnline
    /\ tq_online' = tq_online \ {c}
    /\ \E d \in tq_online \ {c} : retry_timer' = MoveTimers(c, d)
    /\ state' = [state EXCEPT ![c] = "OFFLINE"]
    /\ lock' = [lock EXCEPT ![c] = FALSE]
    /\ pc' = [pc EXCEPT ![c] = "off"]
    /\ UNCHANGED <<votes, running, online_cpus, powered, firing, wakeup, vcpus, calls>>

(* The platform completes the power-off, or starts a core. *)
platform_cpu_off(c) ==
    /\ pc[c] = "off"
    /\ powered[c] = "on"
    /\ powered' = [powered EXCEPT ![c] = "off"]
    /\ UNCHANGED <<votes, lock, state, running, online_cpus, retry, wakeup, pc, vcpus, calls>>

-----------------------------------------------------------------------------
(* Coming online, and suspending.                                           *)

platform_cpu_on(c) ==
    /\ pc[c] = "off"
    /\ powered[c] = "pending"
    /\ powered' = [powered EXCEPT ![c] = "on"]
    /\ pc' = [pc EXCEPT ![c] = "warm"]
    /\ UNCHANGED <<votes, lock, state, running, online_cpus, retry, wakeup, vcpus, calls>>

(* power_handle_boot_cpu_warm_init: the state and the online event... *)
warm_init(c) ==
    /\ pc[c] = "warm"
    /\ ~lock[c]
    /\ state[c] # "OFF"
    /\ state' = [state EXCEPT ![c] = "ONLINE"]
    /\ IF state[c] = "STARTED"
         THEN /\ tq_online' = tq_online \cup {c}
              /\ lock' = [lock EXCEPT ![c] = TRUE]
              /\ pc' = [pc EXCEPT ![c] = "warm_count"]
         ELSE /\ pc' = [pc EXCEPT ![c] = "warm_run"]
              /\ UNCHANGED <<tq_online, lock>>
    /\ UNCHANGED <<votes, running, online_cpus, powered, retry_timer, firing, wakeup, vcpus,
                   calls>>

(* ... the count ... *)
warm_count(c) ==
    /\ pc[c] = "warm_count"
    /\ online_cpus' = online_cpus + 1
    /\ lock' = [lock EXCEPT ![c] = FALSE]
    /\ pc' = [pc EXCEPT ![c] = "warm_run"]
    /\ UNCHANGED <<votes, state, running, powered, retry, wakeup, vcpus, calls>>

(* ... and the set of running cores; the same ends a resume. *)
warm_run(c) ==
    /\ pc[c] = "warm_run"
    /\ running' = running \cup {c}
    /\ pc' = [pc EXCEPT ![c] = "run"]
    /\ UNCHANGED <<votes, lock, state, online_cpus, powered, retry, wakeup, vcpus, calls>>

(* power_handle_power_cpu_suspend: power_system_lock ... *)
cpu_suspend(c) ==
    /\ pc[c] = "idle"
    /\ running' = running \ {c}
    /\ pc' = [pc EXCEPT ![c] = "suspend"]
    /\ UNCHANGED <<votes, lock, state, online_cpus, powered, retry, wakeup, vcpus, calls>>

(* ... and the voting lock. *)
cpu_suspended(c) ==
    /\ pc[c] = "suspend"
    /\ ~lock[c]
    /\ state' = [state EXCEPT ![c] = "SUSPEND"]
    /\ pc' = [pc EXCEPT ![c] = "suspended"]
    /\ UNCHANGED <<votes, lock, running, online_cpus, powered, retry, wakeup, vcpus, calls>>

(* The idle loop ends: there is work, or an IPI, or a handler refused. *)
idle_end(c) ==
    /\ pc[c] = "idle"
    /\ idle_ipi' = [idle_ipi EXCEPT ![c] = FALSE]
    /\ busy' = busy \ {c}
    /\ refused' = refused \ {c}
    /\ pc' = [pc EXCEPT ![c] = "run"]
    /\ UNCHANGED <<votes, cores, retry, vcpus, calls>>

(* A suspended core wakes up, having kept its state or not. *)
cpu_resume(c) ==
    /\ pc[c] = "suspended"
    /\ ~lock[c]
    /\ idle_ipi' = [idle_ipi EXCEPT ![c] = FALSE]
    /\ busy' = busy \ {c}
    /\ refused' = refused \ {c}
    /\ \/ /\ state' = [state EXCEPT ![c] = "ONLINE"]
          /\ pc' = [pc EXCEPT ![c] = "warm_run"]
       \/ /\ pc' = [pc EXCEPT ![c] = "warm"]
          /\ UNCHANGED state
    /\ UNCHANGED <<votes, lock, running, online_cpus, powered, retry, vcpus, calls>>

-----------------------------------------------------------------------------
(* The reschedule that an idle IPI causes on a core that is not idle. *)
ipi_received(c) ==
    /\ pc[c] = "run"
    /\ idle_ipi[c]
    /\ idle_ipi' = [idle_ipi EXCEPT ![c] = FALSE]
    /\ UNCHANGED <<votes, cores, retry, busy, refused, pc, vcpus, calls>>

(* Steps of an operation that has begun. *)
Continue(c) ==
    \/ set_affinity_unvote(c) \/ timer_action(c) \/ leave_count(c) \/ offline(c)
    \/ platform_cpu_off(c) \/ platform_cpu_on(c) \/ warm_init(c) \/ warm_count(c) \/ warm_run(c)
    \/ cpu_suspended(c)

Wake(c) == idle_end(c) \/ cpu_resume(c)

Next ==
    \/ rootvm_started
    \/ \E c \in CPU :
          \/ Continue(c) \/ Wake(c) \/ ipi_received(c) \/ cpu_suspend(c)
          \/ idle_yield_voted(c) \/ idle_yield_busy(c) \/ idle_yield_unvoted(c)
          \/ idle_enter_refused(c)
          \/ \E v \in Vcpu :
                \/ vcpu_poweron(c, v) \/ vcpu_poweroff(c, v)
                \/ \E next \in CPU : set_affinity_vote(c, v, next)
          \/ \E b \in CPU : retry_expires(c, b)

Spec == Init /\ [][Next]_vars

(* A core finishes what it has begun, and a timer or an IPI wakes it.  The  *)
(* interrupt of a due timer is taken before the core goes idle again, which *)
(* is strong fairness: a core may go in and out of idle for ever.           *)
Woken(c) == idle_ipi[c] \/ c \in busy \/ \E b \in CPU : retry_timer[b] = c

FairSpec ==
    /\ Spec
    /\ \A c \in CPU : WF_vars(Continue(c)) /\ WF_vars(Woken(c) /\ Wake(c))
    /\ \A c, b \in CPU : SF_vars(retry_expires(c, b))

-----------------------------------------------------------------------------
(* vote_count is the number of voting VCPUs with that affinity, with those  *)
(* that are being moved there and the boot core's own vote.                 *)
VotesExact ==
    \A c \in CPU :
       vote_count[c] =
          Cardinality({v \in voting : affinity[v] = c})
          + Cardinality({d \in CPU : moving[d] # None /\ moving[d][2] = c})
          + (IF boot_vote /\ c = BootCpu THEN 1 ELSE 0)

(* A core with a vote has been started, or a retry of its start is queued   *)
(* or running, whatever races there were with its power-off, with withdrawn *)
(* votes and with the power-off of the core that holds the retry timer; or  *)
(* the retry failed, which is a panic.                                      *)
NoVoteForgotten ==
    \A c \in CPU :
       vote_count[c] > 0 =>
          \/ state[c] \notin {"OFF", "OFFLINE"}
          \/ retry_timer[c] # None
          \/ \E d \in CPU : firing[d] = c \/ pc[d] = "panic"

(* A core that is idle or suspended and has lost its last vote has an IPI   *)
(* pending, or RCU updates, which will make it run power_handle_idle_yield  *)
(* again, unless a power_system_idle_enter handler refused its power-off.   *)
UnvotedCoreWoken ==
    \A c \in CPU :
       pc[c] \in {"idle", "suspend", "suspended"} /\ vote_count[c] = 0
          => idle_ipi[c] \/ c \in busy \cup refused

Settled(c) == vote_count[c] = 0 \/ state[c] \in {"ONLINE", "SUSPEND"}

(* A core with a vote comes online, or the vote is withdrawn, unless a      *)
(* failed start has caused a panic, or the core that has to retry the start *)
(* waits, in its own power-off, for another core to come online             *)
(* (power_handle_idle_yield, "Wait for another core to come on-line").      *)
VotedCoreComesOnlineOrWaits ==
    \A c \in CPU :
       vote_count[c] > 0 ~>
          \/ Settled(c)
          \/ \E d \in CPU :
                pc[d] = "panic" \/ (retry_timer[c] = d /\ pc[d] = "wait_online")
=============================================================================
