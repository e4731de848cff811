-------------------------------- MODULE Virq --------------------------------
(***************************************************************************)
(* The virtual interrupt of a software source, as the sources of           *)
(* hyp/ipc see it through virq_assert, virq_clear and the                  *)
(* virq_check_pending event, and as the VM sees it through acknowledge and *)
(* end-of-interrupt.  It abstracts the delivery states and list registers  *)
(* of the virtual GIC (hyp/vm/vgic/src/deliver.c) for an interrupt that is *)
(* level-triggered, enabled and routed to one VCPU.                        *)
(*                                                                         *)
(* The operators are parts of actions: the modules of the sources combine  *)
(* them with their own state.                                              *)
(***************************************************************************)

CONSTANT
    Source      \* the VIRQ sources of an object

VARIABLES
    bound,      \* the source is attached to a VIC and a VIRQ number
    level,      \* level_src: asserted, and not cleared since
    fresh,      \* asserted since the VM's last acknowledgement: the edge flag
                \* is set, or the list register is pending
    active,     \* the VM has acknowledged the interrupt and not ended it
    checking    \* a check of the level has read the delivery state and not
                \* updated it yet

virq_vars == <<bound, level, fresh, active, checking>>

VirqTypeOK ==
    /\ bound \in [Source -> BOOLEAN]
    /\ level \in [Source -> BOOLEAN]
    /\ fresh \in [Source -> BOOLEAN]
    /\ active \in [Source -> BOOLEAN]
    /\ checking \in [Source -> BOOLEAN]

VirqInit ==
    /\ bound = [s \in Source |-> FALSE]
    /\ level = [s \in Source |-> FALSE]
    /\ fresh = [s \in Source |-> FALSE]
    /\ active = [s \in Source |-> FALSE]
    /\ checking = [s \in Source |-> FALSE]

\* vic_bind_shared; a source that is bound already is refused
Bind(s) ==
    /\ ~bound[s]
    /\ bound' = [bound EXCEPT ![s] = TRUE]
    /\ UNCHANGED <<level, fresh, active, checking>>

\* vic_unbind and vic_unbind_sync: the level is cleared like by virq_clear
Unbind(s) ==
    /\ bound[s]
    /\ bound' = [bound EXCEPT ![s] = FALSE]
    /\ level' = [level EXCEPT ![s] = FALSE]
    /\ checking' = [checking EXCEPT ![s] = FALSE]
    /\ UNCHANGED <<fresh, active>>

\* virq_assert.  The update of the delivery state makes the compare-and-swap
\* of a check in progress fail; the repeated check has reasserted set, and
\* changes nothing.
Assert(s, edge_only) ==
    IF bound[s]
    THEN /\ level' = [level EXCEPT ![s] = @ \/ ~edge_only]
         /\ fresh' = [fresh EXCEPT ![s] = TRUE]
         /\ checking' = [checking EXCEPT ![s] = FALSE]
         /\ UNCHANGED <<bound, active>>
    ELSE UNCHANGED virq_vars

\* virq_clear.  The list register may stay pending: a spurious interrupt.
VirqClear(s) ==
    IF bound[s]
    THEN /\ level' = [level EXCEPT ![s] = FALSE]
         /\ checking' = [checking EXCEPT ![s] = FALSE]
         /\ UNCHANGED <<bound, fresh, active>>
    ELSE UNCHANGED virq_vars

\* The VM acknowledges: the list register goes from pending to active.
VmAck(s) ==
    /\ fresh[s] /\ ~active[s]
    /\ fresh' = [fresh EXCEPT ![s] = FALSE]
    /\ active' = [active EXCEPT ![s] = TRUE]
    /\ UNCHANGED <<bound, level, checking>>

VmEoi(s) ==
    /\ active[s]
    /\ active' = [active EXCEPT ![s] = FALSE]
    /\ UNCHANGED <<bound, level, fresh, checking>>

\* A check of the level after an end-of-interrupt, or at any other time.  If
\* reasserted (fresh) were set the handlers would return TRUE at once.
CheckBegin(s) ==
    /\ bound[s] /\ level[s] /\ ~fresh[s] /\ ~checking[s]
    /\ checking' = [checking EXCEPT ![s] = TRUE]
    /\ UNCHANGED <<bound, level, fresh, active>>

\* Mutant: a level that is still asserted is not delivered again.
CheckEndQuiet(s, pending) ==
    /\ checking[s]
    /\ checking' = [checking EXCEPT ![s] = FALSE]
    /\ level' = [level EXCEPT ![s] = pending]
    /\ UNCHANGED <<bound, fresh, active>>

\* The compare-and-swap that ends the check succeeds: on FALSE the level is
\* cleared, on TRUE the list register is made pending again.
CheckEnd(s, pending) ==
    /\ checking[s]
    /\ checking' = [checking EXCEPT ![s] = FALSE]
    /\ level' = [level EXCEPT ![s] = pending]
    /\ fresh' = [fresh EXCEPT ![s] = pending]
    /\ UNCHANGED <<bound, active>>
=============================================================================
