------------------------------ MODULE Doorbell ------------------------------
(***************************************************************************)
(* A doorbell (hyp/ipc/doorbell): flags that senders set and a receiver    *)
(* clears, the mask of the flags that assert the doorbell's interrupt and  *)
(* the mask of those that are acknowledged automatically.                  *)
(*                                                                         *)
(* As in MsgQueue, an operation holds the lock until the call of virq_     *)
(* assert or virq_clear that it still has to make is done, and the handler *)
(* of virq_check_pending loads flags and enable_mask without the lock.     *)
(***************************************************************************)
EXTENDS Virq

CONSTANTS
    Flag,           \* the flags
    NotLoaded       \* a load that the check has not done yet

ASSUME SourceAssumption == Source = {"doorbell"}
ASSUME NotLoadedAssumption == \A f \in SUBSET Flag : f # NotLoaded

VARIABLES
    flags,
    enable_mask,
    ack_mask,
    call,           \* call that the holder of the lock still has to make
    seen_flags,     \* what the check has loaded so far
    seen_mask,
    alive,          \* the object is active
    armed,          \* history: since the binding, there has been a time when no
                    \* enabled flag was set
    overtaken       \* history: since then, doorbell_mask has enabled further
                    \* flags without an assertion while a check was under way

seen_vars == <<seen_flags, seen_mask>>
others == <<flags, enable_mask, ack_mask, call, alive>>
vars == <<virq_vars, others, seen_vars, armed, overtaken>>

db == "doorbell"
Call == {"none", "assert", "edge", "clear"}

\* doorbell_handle_object_create_doorbell
Init ==
    /\ VirqInit
    /\ flags = {}
    /\ enable_mask = Flag
    /\ ack_mask = {}
    /\ call = "none"
    /\ seen_flags = NotLoaded
    /\ seen_mask = NotLoaded
    /\ alive = TRUE
    /\ armed = FALSE
    /\ overtaken = FALSE

Ringing(f, mask) == f \cap mask # {}

\* The lock is free and the object may be used.
Idle == alive /\ call = "none"

\* What a check has loaded is dropped when it ends or is cancelled.
Forget == seen_flags' = NotLoaded /\ seen_mask' = NotLoaded

-----------------------------------------------------------------------------
(* The operations *)

\* Mutant: a flag that joins others that are set is not announced.
send_first_only(new) ==
    /\ Idle
    /\ LET set == flags \cup new IN
        IF Ringing(set, enable_mask)
        THEN flags' = set \ ack_mask
             /\ call' = IF flags = {} THEN "assert" ELSE "none"
        ELSE flags' = set /\ call' = "edge"
    /\ UNCHANGED <<virq_vars, enable_mask, ack_mask, alive, seen_vars>>

\* doorbell_send
send(new) ==
    /\ Idle
    /\ LET set == flags \cup new IN
        IF Ringing(set, enable_mask)
        THEN flags' = set \ ack_mask /\ call' = "assert"
        ELSE flags' = set /\ call' = "edge"
    /\ UNCHANGED <<virq_vars, enable_mask, ack_mask, alive, seen_vars>>

\* doorbell_receive; the interrupt's level is left to the next check.
receive(clear) ==
    /\ Idle
    /\ clear # {}
    /\ flags' = flags \ clear
    /\ UNCHANGED <<virq_vars, enable_mask, ack_mask, call, alive, seen_vars>>

\* doorbell_reset
reset ==
    /\ Idle
    /\ flags' = {}
    /\ ack_mask' = {}
    /\ enable_mask' = Flag
    /\ call' = "clear"
    /\ UNCHANGED <<virq_vars, alive, seen_vars>>

\* Mutant: the new mask is stored but flags that are set stay unannounced.
mask_quiet(enable, ack) ==
    /\ Idle
    /\ enable_mask' = enable
    /\ ack_mask' = ack
    /\ flags' = IF Ringing(flags, enable) THEN flags \ ack ELSE flags
    /\ call' = IF Ringing(flags, enable_mask) /\ ~Ringing(flags, enable)
               THEN "clear" ELSE "none"
    /\ UNCHANGED <<virq_vars, alive, seen_vars>>

\* doorbell_mask
mask(enable, ack) ==
    /\ Idle
    /\ enable_mask' = enable
    /\ ack_mask' = ack
    /\ LET was_asserted == Ringing(flags, enable_mask)
           now_asserted == Ringing(flags, enable)
       IN /\ flags' = IF now_asserted THEN flags \ ack ELSE flags
          /\ call' = IF was_asserted = now_asserted THEN "none"
                     ELSE IF now_asserted THEN "assert" ELSE "clear"
    /\ UNCHANGED <<virq_vars, alive, seen_vars>>

\* The call of virq_assert or virq_clear, and the release of the lock
virq_call ==
    /\ call # "none"
    /\ IF call = "clear" THEN VirqClear(db) ELSE Assert(db, call = "edge")
    /\ IF checking'[db] THEN UNCHANGED seen_vars ELSE Forget
    /\ call' = "none"
    /\ UNCHANGED <<flags, enable_mask, ack_mask, alive>>

bind == alive /\ Bind(db) /\ UNCHANGED <<others, seen_vars>>

unbind == alive /\ Unbind(db) /\ Forget /\ UNCHANGED others

\* doorbell_handle_object_deactivate_doorbell, when no reference is left
deactivate ==
    /\ Idle
    /\ alive' = FALSE
    /\ IF bound[db] THEN Unbind(db) ELSE UNCHANGED virq_vars
    /\ Forget
    /\ UNCHANGED <<flags, enable_mask, ack_mask, call>>

-----------------------------------------------------------------------------
(* The check of the level, and the VM *)

\* Mutant: the handler is called, and obeyed, although reasserted is set.
check_begin_reasserted ==
    /\ bound[db] /\ level[db] /\ ~checking[db]
    /\ checking' = [checking EXCEPT ![db] = TRUE]
    /\ UNCHANGED <<bound, level, fresh, active, others, seen_vars>>

\* doorbell_handle_virq_check_pending
check_begin == CheckBegin(db) /\ UNCHANGED <<others, seen_vars>>

check_load_flags ==
    /\ checking[db]
    /\ seen_flags = NotLoaded
    /\ seen_flags' = flags
    /\ UNCHANGED <<virq_vars, others, seen_mask>>

check_load_mask ==
    /\ checking[db]
    /\ seen_mask = NotLoaded
    /\ seen_mask' = enable_mask
    /\ UNCHANGED <<virq_vars, others, seen_flags>>

check_end ==
    /\ seen_flags # NotLoaded
    /\ seen_mask # NotLoaded
    /\ CheckEnd(db, Ringing(seen_flags, seen_mask))
    /\ Forget
    /\ UNCHANGED others

vm_ack == VmAck(db) /\ UNCHANGED <<others, seen_vars>>

vm_eoi == VmEoi(db) /\ UNCHANGED <<others, seen_vars>>

-----------------------------------------------------------------------------

check == check_begin \/ check_load_flags \/ check_load_mask \/ check_end

Step ==
    \/ \E new \in SUBSET Flag : send(new)
    \/ \E clear \in SUBSET Flag : receive(clear)
    \/ reset
    \/ \E enable, ack \in SUBSET Flag : mask(enable, ack)
    \/ virq_call
    \/ bind
    \/ unbind
    \/ deactivate
    \/ check
    \/ vm_ack
    \/ vm_eoi

\* The histories: from when on the interrupt owes its owner a level, and
\* whether a check may have missed why.
Track ==
    LET ringing == Ringing(flags', enable_mask') IN
    /\ armed' = (bound'[db] /\ (armed \/ ~ringing))
    /\ overtaken' =
         /\ bound'[db] /\ ringing
         /\ \/ overtaken
            \/ checking[db] /\ call' = "none" /\ ~(enable_mask' \subseteq enable_mask)

Next == Step /\ Track

Spec == Init /\ [][Next]_vars

\* Critical sections end; the virtual GIC checks a level after the
\* end-of-interrupt and delivers what is pending; the VM acknowledges its
\* interrupts and ends them.
Fairness ==
    /\ WF_vars(virq_call /\ Track)
    /\ WF_vars(~active[db] /\ check /\ Track)
    /\ WF_vars(level[db] /\ vm_ack /\ Track)
    /\ WF_vars(vm_eoi /\ Track)

LiveSpec == Spec /\ Fairness

-----------------------------------------------------------------------------

\* Once no enabled flag has been set since the binding, the interrupt is
\* asserted whenever one is and no operation is under way, although the
\* handler of the level check loads flags and mask without the lock.  Left out
\* is a mask change that replaces the flags that ring by others: doorbell_mask
\* then calls no virq_assert, and a check that combines the old mask with flags
\* from which the old ones have been cleared is not overridden.
RingNotified ==
    call = "none" /\ bound[db] /\ armed /\ ~overtaken /\ Ringing(flags, enable_mask)
      => level[db]

\* A ring that the VM has not acknowledged, which may be the only trace of
\* flags that were acknowledged automatically, is withdrawn only by a reset, a
\* new mask or an unbind, never by a level check.
RingKept ==
    [][level[db] /\ fresh[db] /\ ~level'[db] => ~bound'[db] \/ call = "clear"]_vars

\* Enabled flags that stay set are reported to the VM again and again: it does
\* not stay out of its handler for ever.
RingServed ==
    [](armed /\ ~overtaken /\ Ringing(flags, enable_mask)
         => <>(active[db] \/ ~armed \/ overtaken \/ ~Ringing(flags, enable_mask)))
=============================================================================
