------------------------------ MODULE MsgQueue ------------------------------
(***************************************************************************)
(* A message queue (hyp/ipc/msgqueue): a ring buffer with a lock, and two  *)
(* virtual interrupts, one for the sender and one for the receiver.        *)
(*                                                                         *)
(* The lock is held from an operation's first step until the calls that it *)
(* still has to make (todo) are done.  The handlers of virq_check_pending  *)
(* take no lock: they load the count and the threshold, in either order,   *)
(* while other operations run.                                             *)
(***************************************************************************)
EXTENDS Virq, Integers, Sequences

CONSTANTS
    Msg,            \* the messages that are sent
    NoMsg,          \* contents of a slot that holds no message
    Depth,          \* queue_depth
    Bindable,       \* the sources that are ever bound
    MaxConfigs      \* bound on the calls that change a threshold

ASSUME DepthAssumption == Depth \in Nat \ {0}
ASSUME MsgAssumption == NoMsg \notin Msg
ASSUME SourceAssumption == Source = {"send", "rcv"}
ASSUME BindableAssumption == Bindable \subseteq Source
ASSUME ConfigsAssumption == MaxConfigs \in Nat

VARIABLES
    buf,            \* the slots; head and tail are counted in slots
    head,
    tail,
    count,
    notfull_thd,
    notempty_thd,
    todo,           \* calls that the holder of the lock still has to make
    seen_count,     \* what the check of a source has loaded so far
    seen_thd,
    out,            \* the message received last
    alive,          \* the object is active
    configs,        \* number of threshold changes
    armed,          \* history: since it was bound, the source's condition has
                    \* been false at least once
    waits           \* history: the last send filled the queue, and the sender
                    \* has not been interrupted since

queue_vars == <<buf, head, tail, out>>
thd_vars == <<notfull_thd, notempty_thd, configs>>
seen_vars == <<seen_count, seen_thd>>
vars == <<virq_vars, queue_vars, count, thd_vars, todo, seen_vars, alive, armed,
          waits>>

Slot == 0..(Depth - 1)
NotLoaded == -1

AssertCall(s) == [op |-> "assert", source |-> s]
ClearCall(s) == [op |-> "clear", source |-> s]
ResetCall == [op |-> "reset", source |-> "rcv"]
Call == {AssertCall(s) : s \in Source} \cup {ClearCall(s) : s \in Source} \cup {ResetCall}

TypeOK ==
    /\ VirqTypeOK
    /\ buf \in [Slot -> Msg \cup {NoMsg}]
    /\ head \in Slot
    /\ tail \in Slot
    /\ count \in 0..Depth
    /\ notfull_thd \in 0..(Depth - 1)
    /\ notempty_thd \in 1..Depth
    /\ todo \in Seq(Call)
    /\ Len(todo) <= 3
    /\ seen_count \in [Source -> {NotLoaded} \cup 0..Depth]
    /\ seen_thd \in [Source -> {NotLoaded} \cup 0..Depth]
    /\ out \in Msg \cup {NoMsg}
    /\ alive \in BOOLEAN
    /\ configs \in 0..MaxConfigs
    /\ armed \in [Source -> BOOLEAN]
    /\ waits \in BOOLEAN

\* msgqueue_handle_object_activate_msgqueue
Init ==
    /\ VirqInit
    /\ buf = [i \in Slot |-> NoMsg]
    /\ head = 0
    /\ tail = 0
    /\ count = 0
    /\ notfull_thd = Depth - 1
    /\ notempty_thd = 1
    /\ todo = <<>>
    /\ seen_count = [s \in Source |-> NotLoaded]
    /\ seen_thd = [s \in Source |-> NotLoaded]
    /\ out = NoMsg
    /\ alive = TRUE
    /\ configs = 0
    /\ armed = [s \in Source |-> FALSE]
    /\ waits = FALSE

Threshold(s) == IF s = "rcv" THEN notempty_thd ELSE notfull_thd

\* The levels that the two interrupts stand for.
Pending(s, c, thd) == IF s = "rcv" THEN c >= thd ELSE c <= thd
Condition(s) == Pending(s, count, Threshold(s))

\* What a check has loaded is dropped when it ends or is cancelled.
Forget(sources) ==
    /\ seen_count' = [s \in Source |-> IF s \in sources THEN NotLoaded ELSE seen_count[s]]
    /\ seen_thd' = [s \in Source |-> IF s \in sources THEN NotLoaded ELSE seen_thd[s]]

\* The lock is free and the object may be used.
Idle == alive /\ todo = <<>>

-----------------------------------------------------------------------------
(* Sending, receiving and flushing *)

\* The increment of head or tail, which wraps at queue_size.
Advance(i) == IF i + 1 = Depth THEN 0 ELSE i + 1

\* Mutant: the interrupt is raised one message late.
SendCallsLate(push) ==
    IF push \/ count + 1 = notempty_thd + 1 THEN <<AssertCall("rcv")>> ELSE <<>>

SendCalls(push) ==
    IF push \/ count + 1 = notempty_thd THEN <<AssertCall("rcv")>> ELSE <<>>

\* msgqueue_send_msg; a full queue and a message that is too long are refused.
send(m, push) ==
    /\ Idle
    /\ count # Depth
    /\ buf' = [buf EXCEPT ![tail] = m]
    /\ tail' = Advance(tail)
    /\ count' = count + 1
    /\ todo' = SendCalls(push)
    /\ UNCHANGED <<virq_vars, head, out, thd_vars, seen_vars, alive>>

\* The copy from the sender's memory fails half-way.
send_fault ==
    /\ Idle
    /\ count # Depth
    /\ buf' = [buf EXCEPT ![tail] = NoMsg]
    /\ UNCHANGED <<virq_vars, head, tail, out, count, thd_vars, todo, seen_vars, alive>>

\* Mutant: the sender is told only when the queue becomes empty.
ReceiveCallsEmpty == IF count - 1 = 0 THEN <<AssertCall("send")>> ELSE <<>>

ReceiveCalls == IF count - 1 = notfull_thd THEN <<AssertCall("send")>> ELSE <<>>

\* msgqueue_receive_msg; nothing changes if the copy to the receiver fails.
receive ==
    /\ Idle
    /\ count # 0
    /\ out' = buf[head]
    /\ head' = Advance(head)
    /\ count' = count - 1
    /\ todo' = ReceiveCalls
    /\ UNCHANGED <<virq_vars, buf, tail, thd_vars, seen_vars, alive>>

\* Mutant: only the head is reset.
flush_empty_head ==
    /\ Idle
    /\ count = 0
    /\ head' = 0
    /\ UNCHANGED <<virq_vars, buf, tail, out, count, thd_vars, todo, seen_vars, alive>>

\* msgqueue_flush_queue of an empty queue
flush_empty ==
    /\ Idle
    /\ count = 0
    /\ head' = 0
    /\ tail' = 0
    /\ UNCHANGED <<virq_vars, buf, out, count, thd_vars, todo, seen_vars, alive>>

flush ==
    /\ Idle
    /\ count # 0
    /\ count' = 0
    /\ todo' = <<AssertCall("send"), ClearCall("rcv"), ResetCall>>
    /\ UNCHANGED <<virq_vars, queue_vars, thd_vars, seen_vars, alive>>

-----------------------------------------------------------------------------
(* Thresholds *)

\* msgqueue_configure_send; a threshold that is not below Depth is refused,
\* and MSGQUEUE_THRESHOLD_UNCHANGED changes nothing.
configure_send(thd) ==
    /\ Idle
    /\ configs < MaxConfigs
    /\ configs' = configs + 1
    /\ notfull_thd' = thd
    /\ todo' = IF count <= thd THEN <<AssertCall("send")>> ELSE <<ClearCall("send")>>
    /\ UNCHANGED <<virq_vars, queue_vars, count, notempty_thd, seen_vars, alive>>

\* msgqueue_configure_receive; 0 and values above Depth are refused, and
\* MSGQUEUE_THRESHOLD_MAXIMUM stands for Depth.
configure_receive(thd) ==
    /\ Idle
    /\ configs < MaxConfigs
    /\ configs' = configs + 1
    /\ notempty_thd' = thd
    /\ todo' = IF count >= thd THEN <<AssertCall("rcv")>> ELSE <<ClearCall("rcv")>>
    /\ UNCHANGED <<virq_vars, queue_vars, count, notfull_thd, seen_vars, alive>>

-----------------------------------------------------------------------------
(* The calls made under the lock *)

virq_call ==
    /\ todo # <<>>
    /\ LET s == Head(todo).source IN
        CASE Head(todo).op = "assert" -> Assert(s, FALSE) /\ UNCHANGED <<head, tail>>
          [] Head(todo).op = "clear" -> VirqClear(s) /\ UNCHANGED <<head, tail>>
          [] OTHER -> head' = 0 /\ tail' = 0 /\ UNCHANGED virq_vars
    /\ Forget({Head(todo).source} \ {s \in Source : checking'[s]})
    /\ todo' = Tail(todo)
    /\ UNCHANGED <<buf, out, count, thd_vars, alive>>

-----------------------------------------------------------------------------
(* Binding, and the end of the object *)

others == <<queue_vars, count, thd_vars, todo, alive>>

\* msgqueue_bind_send and msgqueue_bind_receive take no lock
bind(s) == alive /\ s \in Bindable /\ Bind(s) /\ UNCHANGED <<others, seen_vars>>

unbind(s) == alive /\ Unbind(s) /\ Forget({s}) /\ UNCHANGED others

\* msgqueue_handle_object_deactivate_msgqueue, when no reference is left
deactivate ==
    /\ Idle
    /\ alive' = FALSE
    /\ bound' = [s \in Source |-> FALSE]
    /\ level' = [s \in Source |-> FALSE]
    /\ checking' = [s \in Source |-> FALSE]
    /\ Forget(Source)
    /\ UNCHANGED <<fresh, active, queue_vars, count, thd_vars, todo>>

-----------------------------------------------------------------------------
(* The checks of the levels, and the VM *)

\* Mutant: the handler is called, and obeyed, although reasserted is set.
check_begin_reasserted(s) ==
    /\ bound[s] /\ level[s] /\ ~checking[s]
    /\ checking' = [checking EXCEPT ![s] = TRUE]
    /\ UNCHANGED <<bound, level, fresh, active, others, seen_vars>>

\* msgqueue_rx_handle_virq_check_pending and msgqueue_tx_...
check_begin(s) == CheckBegin(s) /\ UNCHANGED <<others, seen_vars>>

check_load_count(s) ==
    /\ checking[s]
    /\ seen_count[s] = NotLoaded
    /\ seen_count' = [seen_count EXCEPT ![s] = count]
    /\ UNCHANGED <<virq_vars, others, seen_thd>>

check_load_thd(s) ==
    /\ checking[s]
    /\ seen_thd[s] = NotLoaded
    /\ seen_thd' = [seen_thd EXCEPT ![s] = Threshold(s)]
    /\ UNCHANGED <<virq_vars, others, seen_count>>

check_end(s) ==
    /\ seen_count[s] # NotLoaded
    /\ seen_thd[s] # NotLoaded
    /\ CheckEnd(s, Pending(s, seen_count[s], seen_thd[s]))
    /\ Forget({s})
    /\ UNCHANGED others

vm_ack(s) == VmAck(s) /\ UNCHANGED <<others, seen_vars>>

vm_eoi(s) == VmEoi(s) /\ UNCHANGED <<others, seen_vars>>

-----------------------------------------------------------------------------

check(s) ==
    \/ check_begin(s) \/ check_load_count(s) \/ check_load_thd(s) \/ check_end(s)

Step ==
    \/ \E m \in Msg, push \in BOOLEAN : send(m, push)
    \/ send_fault
    \/ receive
    \/ flush_empty
    \/ flush
    \/ \E thd \in 0..(Depth - 1) : configure_send(thd)
    \/ \E thd \in 1..Depth : configure_receive(thd)
    \/ virq_call
    \/ \E s \in Source : bind(s)
    \/ \E s \in Source : unbind(s)
    \/ deactivate
    \/ \E s \in Source : check(s)
    \/ \E s \in Source : vm_ack(s)
    \/ \E s \in Source : vm_eoi(s)

\* The history: from when on an interrupt owes its owner a level, and whether a
\* sender that filled the queue is still waiting.
Track ==
    /\ armed' = [s \in Source |-> bound'[s] /\ (armed[s] \/ ~Condition(s)')]
    /\ waits' = IF count' > count THEN count' = Depth
                ELSE waits /\ (active["send"] \/ ~active'["send"])

Next == Step /\ Track

Spec == Init /\ [][Next]_vars

-----------------------------------------------------------------------------
(* Safety *)

\* A bound receiver is not left asleep: once its queue has been below the
\* threshold, the interrupt is asserted whenever the queue holds at least
\* notempty_thd messages and no operation is under way, although the handler
\* of the level check loads count and threshold without the lock.
ReceiverNotified ==
    todo = <<>> /\ bound["rcv"] /\ armed["rcv"] /\ count >= notempty_thd => level["rcv"]

\* The same for a sender that waits for the queue to drain to notfull_thd,
\* whether the messages were received or flushed: a flush leaves an empty queue,
\* and msgqueue_flush_queue asserts the send interrupt as a receive would.
SenderNotified ==
    todo = <<>> /\ bound["send"] /\ armed["send"] /\ count <= notfull_thd => level["send"]

\* When msgqueue_flush_queue has emptied a queue, "any send bound virtual
\* interrupt will be deasserted" (docs/api/gunyah_api.md; the comment in the
\* function says the same of "a pending bound interrupt").
FlushDeassertsSend ==
    [][todo # <<>> /\ Head(todo) = ResetCall /\ bound["send"] => ~level'["send"]]_vars

\* An interrupt that the VM has not acknowledged since its last assertion,
\* that of a pushed message for example, is withdrawn only by virq_clear or an
\* unbind, never by a level check.
AssertionKept ==
    [][\A s \in Source : level[s] /\ fresh[s] /\ ~level'[s] =>
            ~bound'[s] \/ (todo # <<>> /\ Head(todo) = ClearCall(s))]_vars

\* The ring buffer implements a bounded FIFO: messages arrive in order, each
\* once, and a copy that fails or a wrap of the indices loses none.
SlotOf(i) == IF head + i < Depth THEN head + i ELSE head + i - Depth
Fifo == INSTANCE BoundedFifo WITH queue <- [i \in 1..count |-> buf[SlotOf(i - 1)]]
ImplementsFifo == Fifo!Spec

-----------------------------------------------------------------------------
(* Liveness *)

\* Critical sections end; the virtual GIC checks a level after the
\* end-of-interrupt and delivers what is pending; the VMs acknowledge
\* interrupts and end them, and a receiver's handler receives.
Fairness ==
    /\ WF_vars(virq_call /\ Track)
    /\ \A s \in Source :
        /\ WF_vars(~active[s] /\ check(s) /\ Track)
        /\ WF_vars(level[s] /\ vm_ack(s) /\ Track)
        /\ WF_vars(vm_eoi(s) /\ Track)
    /\ SF_vars(active["rcv"] /\ receive /\ Track)

LiveSpec == Spec /\ Fairness

\* The thresholds leave a gap: the receiver sleeps below notempty_thd while
\* the sender sleeps above notfull_thd.
ThresholdGap == notfull_thd + 1 < notempty_thd

\* A sender that filled the queue and waits is woken: the receiver is woken,
\* drains the queue, and the sender gets its interrupt, unless one of them is
\* not bound (or was bound too late), the thresholds leave a gap, or messages
\* are sent for ever.
WaitingSenderWoken ==
    <>[](waits /\ alive /\ ~ThresholdGap /\ \A s \in Source : armed[s])
        => []<><<count' > count>>_vars

=============================================================================
