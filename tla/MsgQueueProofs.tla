--------------------------- MODULE MsgQueueProofs ---------------------------
(***************************************************************************)
(* Invariants of MsgQueue, and its refinement of BoundedFifo, for every    *)
(* depth, every set of messages and every choice of sources to bind.       *)
(*                                                                         *)
(* The heart of the inductive invariant is what connects a check that is   *)
(* under way with the operations that overtake it: unless a call on its    *)
(* source is still owed, which will cancel it, what the check has loaded   *)
(* gives the right answer (Seen).                                          *)
(***************************************************************************)
EXTENDS MsgQueue, SequenceTheorems, TLAPS

\* The holder of the lock still has to make the call.
Owes(call) == \E i \in 1..Len(todo) : todo[i] = call

\* A check is under way only for a source that is bound, asserted and
\* acknowledged; nothing is loaded otherwise; a source is armed while bound.
Checks(s) ==
    /\ checking[s] => bound[s] /\ level[s] /\ ~fresh[s]
    /\ ~checking[s] => seen_count[s] = NotLoaded /\ seen_thd[s] = NotLoaded
    /\ armed[s] => bound[s]

\* An interrupt is cleared only if its condition is false.
ClearedRightly(s) == Owes(ClearCall(s)) => ~Condition(s)

\* An interrupt whose condition holds is asserted, or about to be.
Notified(s) ==
    bound[s] /\ armed[s] /\ Condition(s) => level[s] \/ Owes(AssertCall(s))

\* What a check has loaded answers rightly, unless it will be cancelled.
Seen(s) ==
    checking[s] /\ ~Owes(AssertCall(s)) /\ ~Owes(ClearCall(s)) =>
        /\ seen_thd[s] # NotLoaded => seen_thd[s] = Threshold(s)
        /\ seen_count[s] # NotLoaded /\ Condition(s) =>
             Pending(s, seen_count[s], Threshold(s))

\* The tail is count slots after the head, except between a flush's first step
\* and its last, when the queue is empty.
Ring ==
    /\ Owes(ResetCall) => count = 0
    /\ ~Owes(ResetCall) => tail = SlotOf(count)

SourceInv(s) == Checks(s) /\ ClearedRightly(s) /\ Notified(s) /\ Seen(s)

IInv == TypeOK /\ Ring /\ \A s \in Source : SourceInv(s)

-----------------------------------------------------------------------------
(* The calls that are owed *)

\* The calls differ from each other.
LEMMA CallsDistinct ==
    \A s, t \in Source :
       /\ AssertCall(s) \in Call /\ ClearCall(s) \in Call /\ ResetCall \in Call
       /\ AssertCall(s) = AssertCall(t) <=> s = t
       /\ ClearCall(s) = ClearCall(t) <=> s = t
       /\ AssertCall(s) # ClearCall(t) /\ AssertCall(s) # ResetCall /\ ClearCall(s) # ResetCall
BY SourceAssumption DEF AssertCall, ClearCall, ResetCall, Call

\* A free lock owes nothing.
LEMMA OwesNothing == todo = <<>> => \A call : ~Owes(call)
BY DEF Owes

\* What is owed after an operation's first step.
LEMMA OwesOne == \A x, call : todo' = <<x>> => (Owes(call)' <=> call = x)
BY DEF Owes

LEMMA OwesThree ==
    \A x, y, z, call : todo' = <<x, y, z>> => (Owes(call)' <=> call \in {x, y, z})
BY DEF Owes

LEMMA OwesNone == todo' = <<>> => \A call : ~Owes(call)'
BY DEF Owes

\* Making the first call leaves the others.
LEMMA OwesTail ==
    ASSUME todo \in Seq(Call), todo # <<>>, todo' = Tail(todo)
    PROVE  /\ \A call : Owes(call) => call = Head(todo) \/ Owes(call)'
           /\ \A call : Owes(call)' => Owes(call)
           /\ todo' \in Seq(Call) /\ Len(todo') = Len(todo) - 1
           /\ Head(todo) \in Call /\ Owes(Head(todo))
<1>1. /\ Head(todo) \in Call /\ Tail(todo) \in Seq(Call) /\ Len(Tail(todo)) = Len(todo) - 1
      /\ \A i \in 1..Len(Tail(todo)) : Tail(todo)[i] = todo[i + 1]
    BY HeadTailProperties
<1>2. Len(todo) \in Nat \ {0} /\ Head(todo) = todo[1]
    BY LenProperties, EmptySeq
<1>3. ASSUME NEW call, Owes(call) PROVE call = Head(todo) \/ Owes(call)'
    <2>1. PICK i \in 1..Len(todo) : todo[i] = call
        BY <1>3 DEF Owes
    <2>2. CASE i = 1
        BY <2>1, <2>2, <1>2
    <2>3. CASE i # 1
        BY <2>1, <2>3, <1>1, <1>2, i - 1 \in 1..Len(Tail(todo)), SMTT(60) DEF Owes
    <2> QED
        BY <2>2, <2>3
<1>4. ASSUME NEW call, Owes(call)' PROVE Owes(call)
    <2>1. PICK i \in 1..Len(Tail(todo)) : Tail(todo)[i] = call
        BY <1>4 DEF Owes
    <2> QED
        BY <2>1, <1>1, <1>2, i + 1 \in 1..Len(todo) DEF Owes
<1> QED
    BY <1>1, <1>2, <1>3, <1>4 DEF Owes

\* An operation that calls nothing leaves what is owed.
LEMMA OwesSame == todo' = todo => \A call : Owes(call)' <=> Owes(call)
BY DEF Owes

-----------------------------------------------------------------------------
(* Types *)

\* What a check has loaded keeps its type when some of it is dropped.
LEMMA ForgetType ==
    ASSUME TypeOK, NEW S, Forget(S)
    PROVE  /\ seen_count' \in [Source -> {NotLoaded} \cup 0..Depth]
           /\ seen_thd' \in [Source -> {NotLoaded} \cup 0..Depth]
BY DEF TypeOK, Forget, NotLoaded

\* A threshold is a possible count.
LEMMA ThresholdType == ASSUME TypeOK, NEW s \in Source PROVE Threshold(s) \in 0..Depth
BY DepthAssumption DEF TypeOK, Threshold

\* The next slot is a slot.
LEMMA AdvanceType == \A i \in Slot : Advance(i) \in Slot
BY DepthAssumption DEF Slot, Advance

\* The calls of every operation are calls, and at most three.
LEMMA CallsType ==
    /\ <<>> \in Seq(Call) /\ Len(<<>>) <= 3
    /\ \A s \in Source :
        /\ <<AssertCall(s)>> \in Seq(Call) /\ Len(<<AssertCall(s)>>) <= 3
        /\ <<ClearCall(s)>> \in Seq(Call) /\ Len(<<ClearCall(s)>>) <= 3
    /\ <<AssertCall("send"), ClearCall("rcv"), ResetCall>> \in Seq(Call)
    /\ Len(<<AssertCall("send"), ClearCall("rcv"), ResetCall>>) <= 3
<1>1. \A s \in Source : AssertCall(s) \in Call /\ ClearCall(s) \in Call /\ ResetCall \in Call
    BY CallsDistinct, ZenonT(60)
<1>2. "send" \in Source /\ "rcv" \in Source
    BY SourceAssumption
<1> QED
    BY <1>1, <1>2

\* Every step preserves the types.
LEMMA TypeNext == TypeOK /\ [Next]_vars => TypeOK'
<1> SUFFICES ASSUME TypeOK, [Next]_vars PROVE TypeOK'
    BY Zenon
<1> USE DEF vars, queue_vars, thd_vars, seen_vars, virq_vars, others
<1>0. "send" \in Source /\ "rcv" \in Source
    BY SourceAssumption
<1>1. CASE UNCHANGED vars
    BY <1>1, Zenon DEF TypeOK, VirqTypeOK
<1> SUFFICES ASSUME Step, Track PROVE TypeOK'
    BY <1>1, Zenon DEF Next
<1>2. armed' \in [Source -> BOOLEAN] /\ waits' \in BOOLEAN
    BY ZenonT(60) DEF Track
<1> USE <1>2 DEF TypeOK, VirqTypeOK
<1>3. ASSUME NEW m \in Msg, NEW push \in BOOLEAN, send(m, push) PROVE TypeOK'
    <2>1. count' \in 0..Depth
        BY <1>3, DepthAssumption DEF send
    <2>2. todo' \in Seq(Call) /\ Len(todo') <= 3
        BY <1>0, <1>3, CallsType, Zenon DEF send, SendCalls
    <2>3. buf' \in [Slot -> Msg \cup {NoMsg}] /\ tail' \in Slot
        BY <1>3, AdvanceType DEF send
    <2> QED
        BY <1>3, <2>1, <2>2, <2>3, Zenon DEF send
<1>4. CASE send_fault
    <2>1. buf' \in [Slot -> Msg \cup {NoMsg}]
        BY <1>4 DEF send_fault
    <2> QED
        BY <1>4, <2>1, Zenon DEF send_fault
<1>5. CASE receive
    <2>1. count' \in 0..Depth
        BY <1>5, DepthAssumption DEF receive
    <2>2. todo' \in Seq(Call) /\ Len(todo') <= 3
        BY <1>0, <1>5, CallsType, Zenon DEF receive, ReceiveCalls
    <2>3. out' \in Msg \cup {NoMsg} /\ head' \in Slot
        BY <1>5, AdvanceType DEF receive
    <2> QED
        BY <1>5, <2>1, <2>2, <2>3, Zenon DEF receive
<1>6. CASE flush_empty
    <2>1. 0 \in Slot
        BY DepthAssumption DEF Slot
    <2> QED
        BY <1>6, <2>1, Zenon DEF flush_empty
<1>7. CASE flush
    <2>1. 0 \in 0..Depth
        BY DepthAssumption
    <2> QED
        BY <1>7, <2>1, CallsType, Zenon DEF flush
<1>8. ASSUME NEW thd \in 0..(Depth - 1), configure_send(thd) PROVE TypeOK'
    <2>1. configs' \in 0..MaxConfigs
        BY <1>8, ConfigsAssumption DEF configure_send
    <2>2. todo' \in Seq(Call) /\ Len(todo') <= 3
        BY <1>0, <1>8, CallsType, Zenon DEF configure_send
    <2> QED
        BY <1>8, <2>1, <2>2, Zenon DEF configure_send
<1>9. ASSUME NEW thd \in 1..Depth, configure_receive(thd) PROVE TypeOK'
    <2>1. configs' \in 0..MaxConfigs
        BY <1>9, ConfigsAssumption DEF configure_receive
    <2>2. todo' \in Seq(Call) /\ Len(todo') <= 3
        BY <1>0, <1>9, CallsType, Zenon DEF configure_receive
    <2> QED
        BY <1>9, <2>1, <2>2, Zenon DEF configure_receive
<1>10. CASE virq_call
    <2>1. todo' \in Seq(Call) /\ Len(todo') <= 3
        <3>1. todo \in Seq(Call) /\ todo # <<>> /\ todo' = Tail(todo)
            BY <1>10, Zenon DEF virq_call
        <3>2. todo' \in Seq(Call) /\ Len(todo') = Len(todo) - 1
            BY <3>1, OwesTail, Zenon
        <3>3. Len(todo) \in Nat /\ Len(todo) <= 3
            BY LenProperties, Zenon
        <3> QED
            BY <3>2, <3>3
    <2>2. head' \in Slot /\ tail' \in Slot
        <3>1. 0 \in Slot
            BY DepthAssumption DEF Slot
        <3> QED
            BY <1>10, <3>1, Zenon DEF virq_call
    <2>3. VirqTypeOK'
        <3>1. ASSUME NEW s, Assert(s, FALSE) PROVE VirqTypeOK'
            BY <3>1, ZenonT(60) DEF Assert
        <3>2. ASSUME NEW s, VirqClear(s) PROVE VirqTypeOK'
            BY <3>2, ZenonT(60) DEF VirqClear
        <3>3. UNCHANGED virq_vars => VirqTypeOK'
            BY Zenon
        <3> QED
            BY <1>10, <3>1, <3>2, <3>3, Zenon DEF virq_call
    <2>4. /\ seen_count' \in [Source -> {NotLoaded} \cup 0..Depth]
          /\ seen_thd' \in [Source -> {NotLoaded} \cup 0..Depth]
        BY <1>10, ForgetType, Zenon DEF virq_call
    <2> QED
        BY <1>10, <2>1, <2>2, <2>3, <2>4, Zenon DEF virq_call
<1>11. ASSUME NEW s \in Source, bind(s) PROVE TypeOK'
    <2>1. bound' \in [Source -> BOOLEAN]
        BY <1>11, Zenon DEF bind, Bind
    <2> QED
        BY <1>11, <2>1, Zenon DEF bind, Bind
<1>12. ASSUME NEW s \in Source, unbind(s) PROVE TypeOK'
    <2>1. VirqTypeOK'
        BY <1>12, Zenon DEF unbind, Unbind
    <2> QED
        BY <1>12, <2>1, ForgetType, Zenon DEF unbind
<1>13. CASE deactivate
    <2>1. VirqTypeOK'
        BY <1>13 DEF deactivate
    <2> QED
        BY <1>13, <2>1, ForgetType, Zenon DEF deactivate
<1>14. ASSUME NEW s \in Source, check_begin(s) PROVE TypeOK'
    <2>1. VirqTypeOK'
        BY <1>14, Zenon DEF check_begin, CheckBegin
    <2> QED
        BY <1>14, <2>1, Zenon DEF check_begin
<1>15. ASSUME NEW s \in Source, check_load_count(s) PROVE TypeOK'
    <2>1. seen_count' \in [Source -> {NotLoaded} \cup 0..Depth]
        BY <1>15 DEF check_load_count
    <2> QED
        BY <1>15, <2>1, Zenon DEF check_load_count
<1>16. ASSUME NEW s \in Source, check_load_thd(s) PROVE TypeOK'
    <2>1. seen_thd' \in [Source -> {NotLoaded} \cup 0..Depth]
        BY <1>16, ThresholdType, Zenon DEF check_load_thd
    <2> QED
        BY <1>16, <2>1, Zenon DEF check_load_thd
<1>17. ASSUME NEW s \in Source, check_end(s) PROVE TypeOK'
    <2>1. Pending(s, seen_count[s], seen_thd[s]) \in BOOLEAN
        <3>1. seen_count[s] \in Int /\ seen_thd[s] \in Int
            BY DepthAssumption DEF NotLoaded
        <3>2. (seen_count[s] >= seen_thd[s]) \in BOOLEAN /\ (seen_count[s] <= seen_thd[s]) \in BOOLEAN
            BY <3>1
        <3> QED BY <3>2, Zenon DEF Pending
    <2>2. VirqTypeOK'
        BY <1>17, <2>1, Zenon DEF check_end, CheckEnd
    <2> QED
        BY <1>17, <2>2, ForgetType, Zenon DEF check_end
<1>18. ASSUME NEW s \in Source, vm_ack(s) PROVE TypeOK'
    <2>1. VirqTypeOK'
        BY <1>18, Zenon DEF vm_ack, VmAck
    <2> QED
        BY <1>18, <2>1, Zenon DEF vm_ack
<1>19. ASSUME NEW s \in Source, vm_eoi(s) PROVE TypeOK'
    <2>1. VirqTypeOK'
        BY <1>19, Zenon DEF vm_eoi, VmEoi
    <2> QED
        BY <1>19, <2>1, Zenon DEF vm_eoi
<1> QED
    BY <1>3, <1>4, <1>5, <1>6, <1>7, <1>8, <1>9, <1>10, <1>11, <1>12, <1>13, <1>14, <1>15, <1>16,
       <1>17, <1>18, <1>19, Zenon
    DEF Step, check

-----------------------------------------------------------------------------
(* The ring *)

\* Every step preserves the distance between head and tail.
LEMMA RingNext == TypeOK /\ Ring /\ [Next]_vars => Ring'
<1> SUFFICES ASSUME TypeOK, Ring, [Next]_vars PROVE Ring'
    BY Zenon
<1> USE DEF vars, queue_vars, thd_vars, seen_vars, virq_vars, others
<1>0. /\ head \in Slot /\ tail \in Slot /\ count \in 0..Depth /\ Depth \in Nat \ {0}
      /\ todo \in Seq(Call)
    BY DepthAssumption, Zenon DEF TypeOK
<1>1. CASE UNCHANGED <<head, tail, count, todo>>
    <2>1. Owes(ResetCall)' <=> Owes(ResetCall)
        BY <1>1, OwesSame, Zenon
    <2> QED
        BY <1>1, <2>1, Zenon DEF Ring, SlotOf
<1>2. ASSUME Idle PROVE tail = SlotOf(count) /\ ~Owes(ResetCall)
    BY <1>2, OwesNothing, Zenon DEF Idle, Ring
<1>3. \A s \in Source : ResetCall # AssertCall(s) /\ ResetCall # ClearCall(s)
    BY CallsDistinct, Zenon
<1>4. "send" \in Source /\ "rcv" \in Source
    BY SourceAssumption
<1>5. ASSUME NEW m \in Msg, NEW push \in BOOLEAN, send(m, push) PROVE Ring'
    <2>1. ~Owes(ResetCall)'
        BY <1>3, <1>4, <1>5, OwesOne, OwesNone, Zenon DEF send, SendCalls
    <2>2. tail' = SlotOf(count)'
        BY <1>0, <1>2, <1>5 DEF send, Advance, SlotOf, Slot
    <2> QED
        BY <2>1, <2>2, Zenon DEF Ring
<1>6. CASE receive
    <2>1. ~Owes(ResetCall)'
        BY <1>3, <1>4, <1>6, OwesOne, OwesNone, Zenon DEF receive, ReceiveCalls
    <2>2. tail' = SlotOf(count)'
        BY <1>0, <1>2, <1>6 DEF receive, Advance, SlotOf, Slot
    <2> QED
        BY <2>1, <2>2, Zenon DEF Ring
<1>7. CASE flush_empty
    <2>1. ~Owes(ResetCall)'
        BY <1>2, <1>7, OwesSame, Zenon DEF flush_empty
    <2>2. tail' = SlotOf(count)'
        BY <1>0, <1>7 DEF flush_empty, SlotOf
    <2> QED
        BY <2>1, <2>2, Zenon DEF Ring
<1>8. CASE flush
    <2>1. Owes(ResetCall)'
        BY <1>8, OwesThree, Zenon DEF flush
    <2> QED
        BY <1>8, <2>1, Zenon DEF flush, Ring
<1>9. ASSUME NEW thd, configure_send(thd) \/ configure_receive(thd) PROVE Ring'
    <2>1. ~Owes(ResetCall)'
        BY <1>3, <1>4, <1>9, OwesOne, Zenon DEF configure_send, configure_receive
    <2>2. UNCHANGED <<head, tail, count>> /\ tail = SlotOf(count)
        BY <1>2, <1>9, Zenon DEF configure_send, configure_receive
    <2> QED
        BY <2>1, <2>2, Zenon DEF Ring, SlotOf
<1>10. CASE virq_call
    <2>1. /\ Owes(ResetCall) => Head(todo) = ResetCall \/ Owes(ResetCall)'
          /\ Owes(ResetCall)' => Owes(ResetCall)
          /\ Head(todo) \in Call /\ Owes(Head(todo))
        BY <1>0, <1>10, OwesTail, Zenon DEF virq_call
    <2>2. CASE Head(todo).op \in {"assert", "clear"}
        <3>1. Head(todo) # ResetCall
            BY <2>2 DEF ResetCall
        <3>2. UNCHANGED <<head, tail, count>>
            BY <1>10, <2>2, Zenon DEF virq_call
        <3> QED
            BY <2>1, <3>1, <3>2, Zenon DEF Ring, SlotOf
    <2>3. CASE Head(todo).op \notin {"assert", "clear"}
        <3>1. head' = 0 /\ tail' = 0 /\ count' = count
            BY <1>10, <2>3, ZenonT(60) DEF virq_call
        <3>2. Head(todo) = ResetCall
            BY <2>1, <2>3 DEF Call, AssertCall, ClearCall
        <3> QED
            BY <1>0, <2>1, <3>1, <3>2 DEF Ring, SlotOf
    <2> QED
        BY <2>2, <2>3, Zenon
<1>11. ASSUME NEW s \in Source,
              bind(s) \/ unbind(s) \/ deactivate \/ check(s) \/ vm_ack(s) \/ vm_eoi(s) \/ send_fault
       PROVE  UNCHANGED <<head, tail, count, todo>>
    BY <1>11, Zenon
    DEF bind, unbind, deactivate, check, check_begin, check_load_count, check_load_thd, check_end,
        vm_ack, vm_eoi, send_fault
<1>12. UNCHANGED vars => UNCHANGED <<head, tail, count, todo>>
    BY Zenon
<1> QED
    BY <1>1, <1>4, <1>5, <1>6, <1>7, <1>8, <1>9, <1>10, <1>11, <1>12, Zenon DEF Next, Step

-----------------------------------------------------------------------------
(* The interrupts *)

\* An operation under the lock changes no interrupt in its first step: it has
\* to owe the calls that its change of the count or of a threshold asks for.
LEMMA LockedStep ==
    ASSUME NEW s \in Source, SourceInv(s), Idle, Track, UNCHANGED <<virq_vars, seen_vars>>,
           Owes(ClearCall(s))' => ~Condition(s)',
           Condition(s)' => Condition(s) \/ Owes(AssertCall(s))',
           Owes(AssertCall(s))' \/ Owes(ClearCall(s))' \/ Threshold(s)' = Threshold(s)
    PROVE  SourceInv(s)'
<1>1. ~Owes(AssertCall(s)) /\ ~Owes(ClearCall(s))
    BY OwesNothing, Zenon DEF Idle
<1>2. UNCHANGED <<bound, level, fresh, checking, seen_count, seen_thd>>
    BY Zenon DEF virq_vars, seen_vars
<1>3. armed'[s] <=> bound'[s] /\ (armed[s] \/ ~Condition(s)')
    BY Zenon DEF Track
<1>4. Checks(s)' /\ ClearedRightly(s)'
    BY <1>2, <1>3, Zenon DEF SourceInv, Checks, ClearedRightly
<1>5. Notified(s)'
    BY <1>1, <1>2, <1>3, Zenon DEF SourceInv, Notified
<1>6. Seen(s)'
    BY <1>1, <1>2, Zenon DEF SourceInv, Seen
<1> QED
    BY <1>4, <1>5, <1>6, Zenon DEF SourceInv

\* The condition depends on the count and on the thresholds only.
LEMMA ConditionSame ==
    ASSUME UNCHANGED <<count, notfull_thd, notempty_thd>>, NEW s
    PROVE  Threshold(s)' = Threshold(s) /\ (Condition(s)' <=> Condition(s))
BY Zenon DEF Threshold, Condition, Pending

\* A step of another source, or one that this source does not notice.
LEMMA OtherStep ==
    ASSUME NEW s \in Source, SourceInv(s), Track,
           bound'[s] = bound[s], level'[s] = level[s], fresh'[s] = fresh[s],
           checking'[s] = checking[s], seen_count'[s] = seen_count[s],
           seen_thd'[s] = seen_thd[s], UNCHANGED <<count, notfull_thd, notempty_thd>>,
           Owes(AssertCall(s))' <=> Owes(AssertCall(s)),
           Owes(ClearCall(s))' <=> Owes(ClearCall(s))
    PROVE  SourceInv(s)'
<1>1. Threshold(s)' = Threshold(s) /\ (Condition(s)' <=> Condition(s))
    BY ConditionSame, Zenon
<1>2. armed'[s] <=> bound'[s] /\ (armed[s] \/ ~Condition(s)')
    BY Zenon DEF Track
<1>3. Checks(s)' /\ ClearedRightly(s)'
    BY <1>1, <1>2, Zenon DEF SourceInv, Checks, ClearedRightly
<1>4. Notified(s)'
    BY <1>1, <1>2, Zenon DEF SourceInv, Notified
<1>5. Seen(s)'
    BY <1>1, Zenon DEF SourceInv, Seen
<1> QED
    BY <1>3, <1>4, <1>5, Zenon DEF SourceInv

\* A step that leaves the source without a check under way.
LEMMA UncheckedStep ==
    ASSUME NEW s \in Source, Track, ~checking'[s],
           seen_count'[s] = NotLoaded, seen_thd'[s] = NotLoaded,
           ClearedRightly(s)', Notified(s)'
    PROVE  SourceInv(s)'
<1>1. armed'[s] => bound'[s]
    BY Zenon DEF Track
<1> QED
    BY <1>1, Zenon DEF SourceInv, Checks, Seen

\* What Forget does to a source.
LEMMA ForgetAt ==
    ASSUME NEW S, NEW s \in Source, Forget(S)
    PROVE  /\ s \in S => seen_count'[s] = NotLoaded /\ seen_thd'[s] = NotLoaded
           /\ s \notin S => seen_count'[s] = seen_count[s] /\ seen_thd'[s] = seen_thd[s]
BY Zenon DEF Forget

\* The first steps of the operations under the lock owe the right calls.
LEMMA LockedNext ==
    ASSUME TypeOK, NEW s \in Source, SourceInv(s), Track,
           \/ \E m \in Msg, push \in BOOLEAN : send(m, push)
           \/ receive \/ flush
           \/ \E thd \in 0..(Depth - 1) : configure_send(thd)
           \/ \E thd \in 1..Depth : configure_receive(thd)
    PROVE  SourceInv(s)'
<1>0. /\ count \in 0..Depth /\ Depth \in Nat \ {0}
      /\ notfull_thd \in 0..(Depth - 1) /\ notempty_thd \in 1..Depth
    BY DepthAssumption, Zenon DEF TypeOK
<1>1. s = "send" \/ s = "rcv"
    BY SourceAssumption
<1>2. /\ AssertCall("send") # AssertCall("rcv") /\ ClearCall("send") # ClearCall("rcv")
      /\ \A t, u \in {"send", "rcv"} : AssertCall(t) # ClearCall(u)
      /\ \A t \in {"send", "rcv"} : AssertCall(t) # ResetCall /\ ClearCall(t) # ResetCall
    BY DEF AssertCall, ClearCall, ResetCall
<1> USE DEF queue_vars, thd_vars
<1>3. ASSUME NEW m \in Msg, NEW push \in BOOLEAN, send(m, push) PROVE SourceInv(s)'
    <2>1. Idle /\ UNCHANGED <<virq_vars, seen_vars>> /\ Threshold(s)' = Threshold(s)
        BY <1>3, Zenon DEF send, Threshold
    <2>2. ~Owes(ClearCall(s))'
        <3>1. todo' = <<AssertCall("rcv")>> \/ todo' = <<>>
            BY <1>3, Zenon DEF send, SendCalls
        <3>2. AssertCall("rcv") # ClearCall(s)
            BY <1>1, <1>2, Zenon
        <3> QED
            BY <3>1, <3>2, OwesOne, OwesNone
    <2>3. CASE s = "rcv"
        <3>1. Condition(s)' => Condition(s) \/ count + 1 = notempty_thd
            BY <1>0, <1>3, <2>3 DEF send, Condition, Pending, Threshold
        <3>2. count + 1 = notempty_thd => Owes(AssertCall(s))'
            BY <1>3, <2>3, OwesOne, Zenon DEF send, SendCalls
        <3> QED
            BY <2>1, <2>2, <3>1, <3>2, LockedStep, Zenon
    <2>4. CASE s = "send"
        <3>1. Condition(s)' => Condition(s)
            BY <1>0, <1>3, <2>4 DEF send, Condition, Pending, Threshold
        <3> QED
            BY <2>1, <2>2, <3>1, LockedStep, Zenon
    <2> QED
        BY <1>1, <2>3, <2>4, Zenon
<1>4. CASE receive
    <2>1. Idle /\ UNCHANGED <<virq_vars, seen_vars>> /\ Threshold(s)' = Threshold(s)
        BY <1>4, Zenon DEF receive, Threshold
    <2>2. ~Owes(ClearCall(s))'
        <3>1. todo' = <<AssertCall("send")>> \/ todo' = <<>>
            BY <1>4, Zenon DEF receive, ReceiveCalls
        <3>2. AssertCall("send") # ClearCall(s)
            BY <1>1, <1>2, Zenon
        <3> QED
            BY <3>1, <3>2, OwesOne, OwesNone
    <2>3. CASE s = "send"
        <3>1. Condition(s)' => Condition(s) \/ count - 1 = notfull_thd
            BY <1>0, <1>4, <2>3 DEF receive, Condition, Pending, Threshold
        <3>2. count - 1 = notfull_thd => Owes(AssertCall(s))'
            BY <1>4, <2>3, OwesOne, Zenon DEF receive, ReceiveCalls
        <3> QED
            BY <2>1, <2>2, <3>1, <3>2, LockedStep, Zenon
    <2>4. CASE s = "rcv"
        <3>1. Condition(s)' => Condition(s)
            BY <1>0, <1>4, <2>4 DEF receive, Condition, Pending, Threshold
        <3> QED
            BY <2>1, <2>2, <3>1, LockedStep, Zenon
    <2> QED
        BY <1>1, <2>3, <2>4, Zenon
<1>5. CASE flush
    <2>1. Idle /\ UNCHANGED <<virq_vars, seen_vars>>
        BY <1>5, Zenon DEF flush
    <2>2. /\ Owes(AssertCall("send"))' /\ ~Owes(ClearCall("send"))'
          /\ ~Owes(AssertCall("rcv"))' /\ Owes(ClearCall("rcv"))'
        <3>1. todo' = <<AssertCall("send"), ClearCall("rcv"), ResetCall>>
            BY <1>5, Zenon DEF flush
        <3>2. \A call : Owes(call)' <=> call \in {AssertCall("send"), ClearCall("rcv"), ResetCall}
            BY <3>1, OwesThree, Zenon
        <3> QED
            BY <1>2, <3>2
    <2>3. s = "rcv" => ~Condition(s)'
        BY <1>0, <1>5 DEF flush, Condition, Pending, Threshold
    <2> QED
        BY <1>1, <2>1, <2>2, <2>3, LockedStep, Zenon
<1>6. ASSUME NEW thd \in 0..(Depth - 1), configure_send(thd) PROVE SourceInv(s)'
    <2>1. Idle /\ UNCHANGED <<virq_vars, seen_vars>>
        BY <1>6, Zenon DEF configure_send
    <2>2. CASE s = "send"
        <3>1. Condition(s)' <=> count <= thd
            BY <1>6, <2>2 DEF configure_send, Condition, Pending, Threshold
        <3>2. /\ count <= thd => Owes(AssertCall(s))' /\ ~Owes(ClearCall(s))'
              /\ ~(count <= thd) => Owes(ClearCall(s))'
            BY <1>2, <1>6, <2>2, OwesOne, Zenon DEF configure_send
        <3> QED
            BY <2>1, <3>1, <3>2, LockedStep, Zenon
    <2>3. CASE s = "rcv"
        <3>1. Threshold(s)' = Threshold(s) /\ (Condition(s)' <=> Condition(s))
            BY <1>6, <2>3 DEF configure_send, Condition, Pending, Threshold
        <3>2. ~Owes(ClearCall(s))'
            <4>1. todo' = <<AssertCall("send")>> \/ todo' = <<ClearCall("send")>>
                BY <1>6, Zenon DEF configure_send
            <4>2. AssertCall("send") # ClearCall(s) /\ ClearCall("send") # ClearCall(s)
                BY <1>2, <2>3, Zenon
            <4> QED
                BY <4>1, <4>2, OwesOne
        <3> QED
            BY <2>1, <3>1, <3>2, LockedStep, Zenon
    <2> QED
        BY <1>1, <2>2, <2>3, Zenon
<1>7. ASSUME NEW thd \in 1..Depth, configure_receive(thd) PROVE SourceInv(s)'
    <2>1. Idle /\ UNCHANGED <<virq_vars, seen_vars>>
        BY <1>7, Zenon DEF configure_receive
    <2>2. CASE s = "rcv"
        <3>1. Condition(s)' <=> count >= thd
            BY <1>7, <2>2 DEF configure_receive, Condition, Pending, Threshold
        <3>2. /\ count >= thd => Owes(AssertCall(s))' /\ ~Owes(ClearCall(s))'
              /\ ~(count >= thd) => Owes(ClearCall(s))'
            BY <1>2, <1>7, <2>2, OwesOne, Zenon DEF configure_receive
        <3> QED
            BY <2>1, <3>1, <3>2, LockedStep, Zenon
    <2>3. CASE s = "send"
        <3>1. Threshold(s)' = Threshold(s) /\ (Condition(s)' <=> Condition(s))
            BY <1>7, <2>3 DEF configure_receive, Condition, Pending, Threshold
        <3>2. ~Owes(ClearCall(s))'
            <4>1. todo' = <<AssertCall("rcv")>> \/ todo' = <<ClearCall("rcv")>>
                BY <1>7, Zenon DEF configure_receive
            <4>2. AssertCall("rcv") # ClearCall(s) /\ ClearCall("rcv") # ClearCall(s)
                BY <1>2, <2>3, Zenon
            <4> QED
                BY <4>1, <4>2, OwesOne
        <3> QED
            BY <2>1, <3>1, <3>2, LockedStep, Zenon
    <2> QED
        BY <1>1, <2>2, <2>3, Zenon
<1> QED
    BY <1>3, <1>4, <1>5, <1>6, <1>7, Zenon

\* The calls that an operation owes leave the interrupts right.
LEMMA CallNext ==
    ASSUME TypeOK, NEW s \in Source, SourceInv(s), Track, virq_call
    PROVE  SourceInv(s)'
<1> DEFINE call == Head(todo)
<1>1. /\ todo \in Seq(Call) /\ todo # <<>> /\ todo' = Tail(todo)
      /\ UNCHANGED <<count, notfull_thd, notempty_thd>>
    BY Zenon DEF virq_call, TypeOK, thd_vars
<1>2. /\ \A c : Owes(c) => c = call \/ Owes(c)'
      /\ \A c : Owes(c)' => Owes(c)
      /\ call \in Call /\ Owes(call)
    BY <1>1, OwesTail, Zenon
<1>3. Condition(s)' <=> Condition(s)
    BY <1>1, ConditionSame, Zenon
<1>4. ClearedRightly(s)'
    BY <1>2, <1>3, Zenon DEF SourceInv, ClearedRightly
<1>5. armed'[s] => bound'[s] /\ (armed[s] \/ ~Condition(s)')
    BY Zenon DEF Track
<1>6. Forget({call.source} \ {t \in Source : checking'[t]})
    BY Zenon DEF virq_call
<1>7. /\ call.source = s /\ ~checking'[s] => seen_count'[s] = NotLoaded /\ seen_thd'[s] = NotLoaded
      /\ call.source # s \/ checking'[s] =>
             seen_count'[s] = seen_count[s] /\ seen_thd'[s] = seen_thd[s]
    <2>1. s \in {call.source} \ {t \in Source : checking'[t]} <=> call.source = s /\ ~checking'[s]
        BY Zenon
    <2> QED
        BY <1>6, <2>1, ForgetAt, Zenon
<1>8. CASE call = AssertCall(s)
    <2>1. call.op = "assert" /\ call.source = s
        BY <1>8 DEF AssertCall
    <2>2. Assert(s, FALSE)
        BY <2>1, Zenon DEF virq_call
    <2>3. CASE bound[s]
        <3>1. level'[s] /\ ~checking'[s]
            BY <2>2, <2>3, Zenon DEF Assert, TypeOK, VirqTypeOK
        <3> QED
            BY <1>4, <1>7, <2>1, <3>1, UncheckedStep, Zenon DEF Notified
    <2>4. CASE ~bound[s]
        <3>1. ~bound'[s] /\ ~checking'[s]
            BY <2>2, <2>4, Zenon DEF Assert, virq_vars, SourceInv, Checks
        <3> QED
            BY <1>4, <1>7, <2>1, <3>1, UncheckedStep, Zenon DEF Notified
    <2> QED
        BY <2>3, <2>4, Zenon
<1>9. CASE call = ClearCall(s)
    <2>1. call.op = "clear" /\ call.source = s
        BY <1>9 DEF ClearCall
    <2>2. VirqClear(s)
        BY <2>1 DEF virq_call
    <2>3. ~checking'[s]
        BY <2>2, Zenon DEF VirqClear, virq_vars, SourceInv, Checks, TypeOK, VirqTypeOK
    <2>4. ~Condition(s)'
        BY <1>2, <1>3, <1>9, Zenon DEF SourceInv, ClearedRightly
    <2> QED
        BY <1>4, <1>7, <2>1, <2>3, <2>4, UncheckedStep, Zenon DEF Notified
<1>10. CASE call # AssertCall(s) /\ call # ClearCall(s)
    <2>1. /\ Owes(AssertCall(s))' <=> Owes(AssertCall(s))
          /\ Owes(ClearCall(s))' <=> Owes(ClearCall(s))
        BY <1>2, <1>10, Zenon
    <2>2. /\ bound'[s] = bound[s] /\ level'[s] = level[s] /\ fresh'[s] = fresh[s]
          /\ checking'[s] = checking[s]
        <3>1. CASE call = ResetCall
            <4>1. call.op = "reset"
                BY <3>1 DEF ResetCall
            <4>2. UNCHANGED virq_vars
                BY <4>1, ZenonT(60) DEF virq_call
            <4> QED
                BY <4>2, Zenon DEF virq_vars
        <3>2. ASSUME NEW t \in Source, t # s, call = AssertCall(t)
              PROVE  /\ bound'[s] = bound[s] /\ level'[s] = level[s] /\ fresh'[s] = fresh[s]
                     /\ checking'[s] = checking[s]
            <4>1. call.op = "assert" /\ call.source = t
                BY <3>2 DEF AssertCall
            <4>2. Assert(t, FALSE)
                BY <4>1, Zenon DEF virq_call
            <4> QED
                BY <3>2, <4>2, Zenon DEF Assert, virq_vars, TypeOK, VirqTypeOK
        <3>3. ASSUME NEW t \in Source, t # s, call = ClearCall(t)
              PROVE  /\ bound'[s] = bound[s] /\ level'[s] = level[s] /\ fresh'[s] = fresh[s]
                     /\ checking'[s] = checking[s]
            <4>1. call.op = "clear" /\ call.source = t
                BY <3>3 DEF ClearCall
            <4>2. VirqClear(t)
                BY <4>1 DEF virq_call
            <4> QED
                BY <3>3, <4>2, Zenon DEF VirqClear, virq_vars, TypeOK, VirqTypeOK
        <3> QED
            BY <1>2, <1>10, <3>1, <3>2, <3>3, Zenon DEF Call
    <2>3. seen_count'[s] = seen_count[s] /\ seen_thd'[s] = seen_thd[s]
        BY <1>7, <2>2, Zenon DEF SourceInv, Checks
    <2> QED
        BY <1>1, <2>1, <2>2, <2>3, OtherStep, Zenon
<1> QED
    BY <1>8, <1>9, <1>10, Zenon

\* The steps of the checks, of the VM, and of binding, for their own source.
LEMMA OwnNext ==
    ASSUME TypeOK, NEW s \in Source, SourceInv(s), Track,
           UNCHANGED <<count, notfull_thd, notempty_thd, todo>>
    PROVE  /\ bind(s) => SourceInv(s)'
           /\ unbind(s) => SourceInv(s)'
           /\ check_begin(s) => SourceInv(s)'
           /\ check_load_count(s) => SourceInv(s)'
           /\ check_load_thd(s) => SourceInv(s)'
           /\ check_end(s) => SourceInv(s)'
           /\ vm_ack(s) => SourceInv(s)'
<1>1. Threshold(s)' = Threshold(s) /\ (Condition(s)' <=> Condition(s))
    BY ConditionSame, Zenon
<1>2. /\ Owes(AssertCall(s))' <=> Owes(AssertCall(s))
      /\ Owes(ClearCall(s))' <=> Owes(ClearCall(s))
    BY OwesSame, Zenon
<1>3. armed'[s] => bound'[s] /\ (armed[s] \/ ~Condition(s)')
    BY Zenon DEF Track
<1>4. ClearedRightly(s)'
    BY <1>1, <1>2, Zenon DEF SourceInv, ClearedRightly
<1> USE DEF TypeOK, VirqTypeOK, seen_vars
<1>5. ASSUME bind(s) PROVE SourceInv(s)'
    <2>1. /\ ~bound[s] /\ UNCHANGED <<level, fresh, checking, seen_count, seen_thd>>
        BY <1>5, Zenon DEF bind, Bind
    <2>2. ~checking[s] /\ ~armed[s] /\ seen_count[s] = NotLoaded /\ seen_thd[s] = NotLoaded
        BY <2>1, Zenon DEF SourceInv, Checks
    <2>3. Notified(s)'
        BY <1>3, <2>2, Zenon DEF Notified
    <2> QED
        BY <1>4, <2>1, <2>2, <2>3, UncheckedStep, Zenon
<1>6. ASSUME unbind(s) PROVE SourceInv(s)'
    <2>1. ~bound'[s] /\ ~checking'[s]
        BY <1>6, Zenon DEF unbind, Unbind
    <2>2. seen_count'[s] = NotLoaded /\ seen_thd'[s] = NotLoaded
        BY <1>6, s \in {s}, ForgetAt, Zenon DEF unbind
    <2>3. Notified(s)'
        BY <2>1, Zenon DEF Notified
    <2> QED
        BY <1>4, <2>1, <2>2, <2>3, UncheckedStep, Zenon
<1>7. ASSUME check_begin(s) PROVE SourceInv(s)'
    <2>1. /\ bound[s] /\ level[s] /\ ~fresh[s] /\ ~checking[s] /\ checking'[s]
          /\ UNCHANGED <<bound, level, fresh, seen_count, seen_thd>>
        BY <1>7, Zenon DEF check_begin, CheckBegin
    <2>2. Checks(s)' /\ Notified(s)'
        BY <1>3, <2>1, Zenon DEF SourceInv, Checks, Notified
    <2>3. Seen(s)'
        BY <2>1, Zenon DEF SourceInv, Checks, Seen
    <2> QED
        BY <1>4, <2>2, <2>3, Zenon DEF SourceInv
<1>8. ASSUME check_load_count(s) PROVE SourceInv(s)'
    <2>1. /\ checking[s] /\ seen_count'[s] = count
          /\ UNCHANGED <<bound, level, fresh, checking, seen_thd>>
        BY <1>8, Zenon DEF check_load_count, virq_vars
    <2>2. Checks(s)'
        BY <1>3, <2>1, Zenon DEF SourceInv, Checks
    <2>3. Notified(s)'
        BY <1>1, <1>2, <1>3, <2>1, Zenon DEF SourceInv, Notified
    <2>4. Condition(s) => Pending(s, seen_count'[s], Threshold(s))
        BY <2>1, Zenon DEF Condition
    <2>5. Seen(s)'
        BY <1>1, <1>2, <2>1, <2>4, Zenon DEF SourceInv, Seen
    <2> QED
        BY <1>4, <2>2, <2>3, <2>5, Zenon DEF SourceInv
<1>9. ASSUME check_load_thd(s) PROVE SourceInv(s)'
    <2>1. /\ checking[s] /\ seen_thd'[s] = Threshold(s)
          /\ UNCHANGED <<bound, level, fresh, checking, seen_count>>
        BY <1>9, Zenon DEF check_load_thd, virq_vars
    <2>2. Checks(s)'
        BY <1>3, <2>1, Zenon DEF SourceInv, Checks
    <2>3. Notified(s)'
        BY <1>1, <1>2, <1>3, <2>1, Zenon DEF SourceInv, Notified
    <2>4. Seen(s)'
        BY <1>1, <1>2, <2>1, Zenon DEF SourceInv, Seen
    <2> QED
        BY <1>4, <2>2, <2>3, <2>4, Zenon DEF SourceInv
<1>10. ASSUME check_end(s) PROVE SourceInv(s)'
    <2> DEFINE pending == Pending(s, seen_count[s], seen_thd[s])
    <2>1. /\ checking[s] /\ seen_count[s] # NotLoaded /\ seen_thd[s] # NotLoaded
          /\ ~checking'[s] /\ level'[s] = pending /\ bound' = bound
        BY <1>10, Zenon DEF check_end, CheckEnd
    <2>2. seen_count'[s] = NotLoaded /\ seen_thd'[s] = NotLoaded
        BY <1>10, s \in {s}, ForgetAt, Zenon DEF check_end
    <2>3. Condition(s) => pending \/ Owes(AssertCall(s))
        <3>1. Owes(ClearCall(s)) => ~Condition(s)
            BY Zenon DEF SourceInv, ClearedRightly
        <3> QED
            BY <2>1, <3>1, Zenon DEF SourceInv, Seen
    <2>4. Notified(s)'
        BY <1>1, <1>2, <2>1, <2>3, Zenon DEF Notified
    <2> QED
        BY <1>4, <2>1, <2>2, <2>4, UncheckedStep, Zenon
<1>11. ASSUME vm_ack(s) PROVE SourceInv(s)'
    <2>1. fresh[s] /\ UNCHANGED <<bound, level, checking, seen_count, seen_thd>>
        BY <1>11, Zenon DEF vm_ack, VmAck
    <2>2. ~checking[s] /\ seen_count[s] = NotLoaded /\ seen_thd[s] = NotLoaded
        BY <2>1, Zenon DEF SourceInv, Checks
    <2>3. Notified(s)'
        BY <1>1, <1>2, <1>3, <2>1, Zenon DEF SourceInv, Notified
    <2> QED
        BY <1>4, <2>1, <2>2, <2>3, UncheckedStep, Zenon
<1> QED
    BY <1>5, <1>6, <1>7, <1>8, <1>9, <1>10, <1>11, Zenon

\* A step of one source leaves the other alone.
LEMMA Apart ==
    ASSUME TypeOK, NEW s \in Source, NEW t \in Source, t # s,
           bind(t) \/ unbind(t) \/ check(t) \/ vm_ack(t) \/ vm_eoi(t)
    PROVE  /\ bound'[s] = bound[s] /\ level'[s] = level[s] /\ fresh'[s] = fresh[s]
           /\ checking'[s] = checking[s] /\ seen_count'[s] = seen_count[s]
           /\ seen_thd'[s] = seen_thd[s]
<1> DEFINE Same == /\ bound'[s] = bound[s] /\ level'[s] = level[s] /\ fresh'[s] = fresh[s]
                   /\ checking'[s] = checking[s] /\ seen_count'[s] = seen_count[s]
                   /\ seen_thd'[s] = seen_thd[s]
<1> USE DEF TypeOK, VirqTypeOK, seen_vars
<1>1. s \notin {t}
    BY Zenon
<1>2. bind(t) => Same
    BY Zenon DEF bind, Bind
<1>3. unbind(t) => Same
    BY <1>1, ForgetAt, Zenon DEF unbind, Unbind
<1>4. check(t) => Same
    <2>1. check_begin(t) => Same
        BY Zenon DEF check_begin, CheckBegin
    <2>2. check_load_count(t) => Same
        BY Zenon DEF check_load_count, virq_vars
    <2>3. check_load_thd(t) => Same
        BY Zenon DEF check_load_thd, virq_vars
    <2>4. check_end(t) => Same
        BY <1>1, ForgetAt, Zenon DEF check_end, CheckEnd
    <2> QED
        BY <2>1, <2>2, <2>3, <2>4, Zenon DEF check
<1>5. vm_ack(t) \/ vm_eoi(t) => Same
    BY Zenon DEF vm_ack, VmAck, vm_eoi, VmEoi
<1> QED
    BY <1>2, <1>3, <1>4, <1>5, Zenon

\* Every step preserves what the invariant says of a source.
LEMMA SourceNext ==
    ASSUME TypeOK, NEW s \in Source, SourceInv(s), [Next]_vars
    PROVE  SourceInv(s)'
<1> USE DEF vars, queue_vars, thd_vars, seen_vars, virq_vars, others
<1>1. CASE UNCHANGED vars
    <2>1. Threshold(s)' = Threshold(s) /\ (Condition(s)' <=> Condition(s))
        BY <1>1, ConditionSame, Zenon
    <2>2. \A call : Owes(call)' <=> Owes(call)
        BY <1>1, OwesSame, Zenon
    <2>3. UNCHANGED <<bound, level, fresh, checking, seen_count, seen_thd, armed>>
        BY <1>1, Zenon
    <2> QED
        BY <2>1, <2>2, <2>3, Zenon
        DEF SourceInv, Checks, ClearedRightly, Notified, Seen
<1> SUFFICES ASSUME Step, Track PROVE SourceInv(s)'
    BY <1>1, Zenon DEF Next
<1>2. ASSUME UNCHANGED <<bound, level, fresh, checking, seen_vars, count, notfull_thd,
                         notempty_thd, todo>>
      PROVE  SourceInv(s)'
    BY <1>2, OwesSame, OtherStep, Zenon
<1>3. send_fault => SourceInv(s)'
    BY <1>2, Zenon DEF send_fault
<1>4. flush_empty => SourceInv(s)'
    BY <1>2, Zenon DEF flush_empty
<1>5. CASE deactivate
    <2>1. UNCHANGED <<count, notfull_thd, notempty_thd, todo>>
        BY <1>5, Zenon DEF deactivate
    <2>2. ClearedRightly(s)'
        BY <2>1, ConditionSame, OwesSame, Zenon DEF SourceInv, ClearedRightly
    <2>3. ~bound'[s] /\ ~checking'[s]
        BY <1>5 DEF deactivate
    <2>4. seen_count'[s] = NotLoaded /\ seen_thd'[s] = NotLoaded
        BY <1>5, ForgetAt, Zenon DEF deactivate
    <2> QED
        BY <2>2, <2>3, <2>4, UncheckedStep, Zenon DEF Notified
<1>6. ASSUME NEW t \in Source, bind(t) \/ unbind(t) \/ check(t) \/ vm_ack(t) \/ vm_eoi(t)
      PROVE  SourceInv(s)'
    <2>1. UNCHANGED <<count, notfull_thd, notempty_thd, todo>>
        BY <1>6, Zenon DEF bind, unbind, check, check_begin, check_load_count, check_load_thd,
                           check_end, vm_ack, vm_eoi
    <2>2. CASE t # s
        BY <1>6, <2>1, <2>2, Apart, OwesSame, OtherStep, Zenon
    <2>3. CASE t = s
        <3>1. CASE vm_eoi(s)
            BY <1>2, <2>1, <3>1, Zenon DEF vm_eoi, VmEoi
        <3>2. CASE ~vm_eoi(s)
            BY <1>6, <2>1, <2>3, <3>2, OwnNext, Zenon DEF check
        <3> QED
            BY <3>1, <3>2, Zenon
    <2> QED
        BY <2>2, <2>3, Zenon
<1>7. virq_call => SourceInv(s)'
    BY CallNext, Zenon
<1>8. CASE \/ \E m \in Msg, push \in BOOLEAN : send(m, push)
           \/ receive \/ flush
           \/ \E thd \in 0..(Depth - 1) : configure_send(thd)
           \/ \E thd \in 1..Depth : configure_receive(thd)
    BY <1>8, LockedNext, Zenon
<1> QED
    BY <1>3, <1>4, <1>5, <1>6, <1>7, <1>8, Zenon DEF Step

-----------------------------------------------------------------------------
(* The theorems *)

\* The invariant is inductive.
THEOREM Invariance == Spec => []IInv
<1>1. Init => IInv
    <2> SUFFICES ASSUME Init PROVE IInv
        BY Zenon
    <2>1. TypeOK
        BY DepthAssumption, ConfigsAssumption, CallsType
        DEF Init, VirqInit, TypeOK, VirqTypeOK, Slot, NotLoaded
    <2>2. \A call : ~Owes(call)
        BY OwesNothing, Zenon DEF Init
    <2>3. Ring
        BY <2>2, DepthAssumption DEF Init, Ring, SlotOf
    <2>4. ASSUME NEW s \in Source PROVE SourceInv(s)
        BY <2>2 DEF Init, VirqInit, SourceInv, Checks, ClearedRightly, Notified, Seen
    <2> QED
        BY <2>1, <2>3, <2>4, Zenon DEF IInv
<1>2. IInv /\ [Next]_vars => IInv'
    BY TypeNext, RingNext, SourceNext, Zenon DEF IInv
<1> QED
    BY <1>1, <1>2, PTL DEF Spec

\* For every depth, a receiver whose queue has reached the threshold is
\* notified, although the level check reads count and threshold without the
\* lock.
THEOREM ReceiverIsNotified == Spec => []ReceiverNotified
<1>1. IInv => ReceiverNotified
    BY SourceAssumption, OwesNothing DEF IInv, SourceInv, Notified, ReceiverNotified, Condition, Pending, Threshold
<1> QED
    BY <1>1, Invariance, PTL

\* The same for the sender.
THEOREM SenderIsNotified == Spec => []SenderNotified
<1>1. IInv => SenderNotified
    BY SourceAssumption, OwesNothing DEF IInv, SourceInv, Notified, SenderNotified, Condition, Pending, Threshold
<1> QED
    BY <1>1, Invariance, PTL

\* A check never withdraws an assertion that the VM has not acknowledged.
THEOREM AssertionIsKept == Spec => AssertionKept
<1> DEFINE Kept ==
        \A s \in Source : level[s] /\ fresh[s] /\ ~level'[s] =>
            ~bound'[s] \/ (todo # <<>> /\ Head(todo) = ClearCall(s))
<1>1. IInv /\ [Next]_vars => [Kept]_vars
    <2> SUFFICES ASSUME IInv, Step, NEW s \in Source, level[s], fresh[s], ~level'[s]
                 PROVE  ~bound'[s] \/ (todo # <<>> /\ Head(todo) = ClearCall(s))
        BY Zenon DEF Next
    <2>0. TypeOK /\ ~checking[s]
        BY Zenon DEF IInv, SourceInv, Checks
    <2> USE DEF virq_vars, TypeOK, VirqTypeOK
    <2>1. /\ \A m, push : ~send(m, push)
          /\ ~send_fault /\ ~receive /\ ~flush_empty /\ ~flush
          /\ \A thd : ~configure_send(thd) /\ ~configure_receive(thd)
        BY Zenon DEF send, send_fault, receive, flush_empty, flush, configure_send, configure_receive
    <2>2. CASE virq_call
        <3>1. todo \in Seq(Call) /\ todo # <<>> /\ todo' = Tail(todo)
            BY <2>0, <2>2, Zenon DEF virq_call
        <3>2. Head(todo) \in Call
            BY <3>1, OwesTail, Zenon
        <3>3. ASSUME NEW t \in Source, Head(todo) = AssertCall(t) PROVE FALSE
            <4>1. Head(todo).op = "assert" /\ Head(todo).source = t
                BY <3>3 DEF AssertCall
            <4>2. Assert(t, FALSE)
                BY <2>2, <4>1, Zenon DEF virq_call
            <4> QED
                BY <2>0, <4>2, Zenon DEF Assert
        <3>4. ASSUME NEW t \in Source, Head(todo) = ClearCall(t) PROVE t = s
            <4>1. Head(todo).op = "clear" /\ Head(todo).source = t
                BY <3>4 DEF ClearCall
            <4>2. VirqClear(t)
                BY <2>2, <4>1 DEF virq_call
            <4> QED
                BY <2>0, <4>2, Zenon DEF VirqClear
        <3>5. Head(todo) # ResetCall
            <4> SUFFICES ASSUME Head(todo) = ResetCall PROVE FALSE
                BY Zenon
            <4>1. Head(todo).op = "reset"
                BY DEF ResetCall
            <4>2. level' = level
                BY <2>2, <4>1, ZenonT(60) DEF virq_call
            <4> QED
                BY <4>2, Zenon
        <3> QED
            BY <3>1, <3>2, <3>3, <3>4, <3>5, Zenon DEF Call
    <2>3. \A t \in Source : ~bind(t) /\ ~vm_ack(t) /\ ~vm_eoi(t)
        BY Zenon DEF bind, Bind, vm_ack, VmAck, vm_eoi, VmEoi
    <2>4. ASSUME NEW t \in Source, unbind(t) PROVE ~bound'[s]
        BY <2>0, <2>4, Zenon DEF unbind, Unbind
    <2>5. deactivate => ~bound'[s]
        BY DEF deactivate
    <2>6. ASSUME NEW t \in Source, check(t) PROVE FALSE
        <3>1. ~check_begin(t) /\ ~check_load_count(t) /\ ~check_load_thd(t)
            BY Zenon DEF check_begin, CheckBegin, check_load_count, check_load_thd
        <3>2. ~check_end(t)
            BY <2>0, Zenon DEF check_end, CheckEnd
        <3> QED
            BY <2>6, <3>1, <3>2, Zenon DEF check
    <2> QED
        BY <2>1, <2>2, <2>3, <2>4, <2>5, <2>6, Zenon DEF Step
<1> QED
    BY <1>1, Invariance, PTL DEF Spec, AssertionKept

-----------------------------------------------------------------------------
(* The ring buffer implements the bounded FIFO *)

Held == [i \in 1..count |-> buf[SlotOf(i - 1)]]

\* The slots that hold messages are slots, and differ from the one to be
\* filled next.
LEMMA HeldSlots ==
    ASSUME TypeOK
    PROVE  /\ \A i \in 1..count : SlotOf(i - 1) \in Slot
           /\ count # Depth => \A i \in 1..count : SlotOf(i - 1) # SlotOf(count)
BY DepthAssumption DEF TypeOK, Slot, SlotOf

\* The messages held are a sequence.
LEMMA HeldSeq == ASSUME TypeOK PROVE Held \in Seq(Msg \cup {NoMsg}) /\ Len(Held) = count
<1>1. \A i \in 1..count : buf[SlotOf(i - 1)] \in Msg \cup {NoMsg}
    BY HeldSlots DEF TypeOK
<1>2. count \in Nat
    BY DepthAssumption DEF TypeOK
<1>3. Held \in [1..count -> Msg \cup {NoMsg}]
    BY <1>1 DEF Held
<1>4. Held \in Seq(Msg \cup {NoMsg})
    BY <1>2, <1>3, IsASeq DEF Held
<1> QED
    BY <1>2, <1>3, <1>4, LenProperties

\* A step that leaves the ring alone, or finds it empty and leaves it empty.
LEMMA HeldSame ==
    /\ UNCHANGED <<buf, head, count>> => Held' = Held
    /\ count = 0 /\ count' = 0 => Held' = Held
BY DEF Held, SlotOf

\* Sending appends to what is held.
LEMMA HeldSend ==
    ASSUME TypeOK, TypeOK', Ring, NEW m \in Msg, NEW push, send(m, push)
    PROVE  Len(Held) < Depth /\ Held' = Append(Held, m)
<1>1. /\ count \in 0..Depth /\ Depth \in Nat \ {0} /\ count # Depth /\ count' = count + 1
      /\ UNCHANGED head /\ buf' = [buf EXCEPT ![tail] = m] /\ tail = SlotOf(count)
      /\ buf \in [Slot -> Msg \cup {NoMsg}] /\ tail \in Slot
    BY DepthAssumption, OwesNothing, Zenon DEF TypeOK, Ring, send, Idle
<1>2. /\ Held \in Seq(Msg \cup {NoMsg}) /\ Len(Held) = count
      /\ Held' \in Seq(Msg \cup {NoMsg}) /\ Len(Held') = count'
    <2>1. Held \in Seq(Msg \cup {NoMsg}) /\ Len(Held) = count
        BY HeldSeq, Zenon
    <2>2. (TypeOK => Held \in Seq(Msg \cup {NoMsg}) /\ Len(Held) = count)'
        BY HeldSeq, PTL
    <2> QED
        BY <2>1, <2>2
<1>3. /\ Append(Held, m) \in Seq(Msg \cup {NoMsg}) /\ Len(Append(Held, m)) = count + 1
      /\ \A i \in 1..count : Append(Held, m)[i] = Held[i]
      /\ Append(Held, m)[count + 1] = m
    BY <1>1, <1>2, AppendProperties
<1>4. ASSUME NEW i \in 1..(count + 1) PROVE Held'[i] = Append(Held, m)[i]
    <2>1. Held'[i] = buf'[SlotOf(i - 1)]
        BY <1>1, <1>4 DEF Held, SlotOf
    <2>2. CASE i = count + 1
        <3>1. SlotOf(i - 1) = tail
            BY <1>1, <2>2
        <3> QED
            BY <1>1, <1>3, <2>1, <2>2, <3>1
    <2>3. CASE i # count + 1
        <3>1. i \in 1..count
            BY <1>1, <2>3
        <3>2. SlotOf(i - 1) \in Slot /\ SlotOf(i - 1) # tail
            BY <1>1, <3>1, HeldSlots
        <3>3. buf'[SlotOf(i - 1)] = buf[SlotOf(i - 1)]
            BY <1>1, <3>2
        <3> QED
            BY <1>3, <2>1, <3>1, <3>3, ZenonT(60) DEF Held
    <2> QED
        BY <2>2, <2>3, ZenonT(60)
<1> QED
    BY <1>1, <1>2, <1>3, <1>4, SeqEqual

\* Receiving takes the first message held.
LEMMA HeldReceive ==
    ASSUME TypeOK, TypeOK', receive
    PROVE  Held # <<>> /\ out' = Head(Held) /\ Held' = Tail(Held)
<1>1. /\ count \in 0..Depth /\ Depth \in Nat \ {0} /\ count # 0 /\ count' = count - 1
      /\ UNCHANGED buf /\ head \in Slot /\ head' = Advance(head) /\ out' = buf[head]
    BY DepthAssumption, Zenon DEF TypeOK, receive
<1>2. /\ Held \in Seq(Msg \cup {NoMsg}) /\ Len(Held) = count
      /\ Held' \in Seq(Msg \cup {NoMsg}) /\ Len(Held') = count'
    <2>1. Held \in Seq(Msg \cup {NoMsg}) /\ Len(Held) = count
        BY HeldSeq, Zenon
    <2>2. (TypeOK => Held \in Seq(Msg \cup {NoMsg}) /\ Len(Held) = count)'
        BY HeldSeq, PTL
    <2> QED
        BY <2>1, <2>2
<1>3. Held # <<>> /\ Head(Held) = Held[1]
    BY <1>1, <1>2, EmptySeq
<1>4. Held[1] = buf[head]
    BY <1>1 DEF Held, SlotOf, Slot
<1>5. /\ Tail(Held) \in Seq(Msg \cup {NoMsg}) /\ Len(Tail(Held)) = count - 1
      /\ \A i \in 1..(count - 1) : Tail(Held)[i] = Held[i + 1]
    BY <1>2, <1>3, HeadTailProperties
<1>6. ASSUME NEW i \in 1..(count - 1) PROVE Held'[i] = Held[i + 1]
    <2>1. Held'[i] = buf[SlotOf(i - 1)'] /\ Held[i + 1] = buf[SlotOf(i)]
        BY <1>1, <1>6 DEF Held
    <2>2. SlotOf(i - 1)' = SlotOf(i)
        BY <1>1, <1>6 DEF SlotOf, Advance, Slot
    <2> QED
        BY <2>1, <2>2
<1>7. Held' = Tail(Held)
    BY <1>1, <1>2, <1>5, <1>6, SeqEqual
<1> QED
    BY <1>1, <1>3, <1>4, <1>7

\* A copy that fails does not touch what is held.
LEMMA HeldFault == ASSUME TypeOK, Ring, send_fault PROVE Held' = Held
<1>1. /\ count # Depth /\ UNCHANGED <<head, count>> /\ buf' = [buf EXCEPT ![tail] = NoMsg]
      /\ tail = SlotOf(count) /\ buf \in [Slot -> Msg \cup {NoMsg}]
    BY OwesNothing, Zenon DEF TypeOK, Ring, send_fault, Idle
<1>2. ASSUME NEW i \in 1..count PROVE buf'[SlotOf(i - 1)'] = buf[SlotOf(i - 1)]
    <2>1. SlotOf(i - 1) \in Slot /\ SlotOf(i - 1) # tail
        BY <1>1, HeldSlots
    <2>2. SlotOf(i - 1)' = SlotOf(i - 1)
        BY <1>1 DEF SlotOf
    <2> QED
        BY <1>1, <2>1, <2>2
<1> QED
    BY <1>1, <1>2 DEF Held

\* The message queue implements a bounded FIFO, for every depth: no message is
\* lost, repeated or overtaken where the indices wrap or a copy fails.
THEOREM QueueIsFifo == Spec => ImplementsFifo
<1> USE DEF vars, queue_vars, thd_vars, seen_vars, others
<1>1. Init => Fifo!Init
    BY DEF Init, Fifo!Init
<1>2. IInv /\ IInv' /\ [Next]_vars => [Fifo!Next]_<<Held, out>>
    <2> SUFFICES ASSUME TypeOK, TypeOK', Ring, [Next]_vars
                 PROVE  Fifo!Next \/ UNCHANGED <<Held, out>>
        BY Zenon DEF IInv
    <2>1. ASSUME UNCHANGED <<buf, head, count, out>> PROVE UNCHANGED <<Held, out>>
        BY <2>1, HeldSame, Zenon
    <2>2. ASSUME NEW m \in Msg, NEW push \in BOOLEAN, send(m, push) PROVE Fifo!Next
        <3>1. Len(Held) < Depth /\ Held' = Append(Held, m)
            BY <2>2, HeldSend, Zenon
        <3>2. UNCHANGED out
            BY <2>2, Zenon DEF send
        <3> QED
            BY <3>1, <3>2, Zenon DEF Held, Fifo!Next, Fifo!Send
    <2>3. ASSUME receive PROVE Fifo!Next
        BY <2>3, HeldReceive, Zenon DEF Held, Fifo!Next, Fifo!Receive
    <2>4. send_fault => UNCHANGED <<Held, out>>
        BY HeldFault, Zenon DEF send_fault
    <2>5. flush_empty => UNCHANGED <<Held, out>>
        BY HeldSame, Zenon DEF flush_empty
    <2>6. ASSUME flush PROVE Fifo!Next
        <3>1. Held' = <<>> /\ UNCHANGED out
            BY <2>6 DEF flush, Held
        <3> QED
            BY <3>1, Zenon DEF Held, Fifo!Next, Fifo!Flush
    <2>7. ASSUME virq_call PROVE UNCHANGED <<Held, out>>
        <3>1. todo \in Seq(Call) /\ todo # <<>> /\ todo' = Tail(todo) /\ UNCHANGED <<buf, out, count>>
            BY <2>7, Zenon DEF virq_call, TypeOK
        <3>2. Head(todo) \in Call /\ Owes(Head(todo))
            BY <3>1, OwesTail, Zenon
        <3>3. CASE Head(todo).op \in {"assert", "clear"}
            <4>1. UNCHANGED head
                BY <2>7, <3>3, Zenon DEF virq_call
            <4> QED
                BY <2>1, <3>1, <4>1, Zenon
        <3>4. CASE Head(todo).op \notin {"assert", "clear"}
            <4>1. Head(todo) = ResetCall
                BY <3>2, <3>4 DEF Call, AssertCall, ClearCall
            <4>2. count = 0 /\ count' = 0
                BY <3>1, <3>2, <4>1, Zenon DEF Ring
            <4> QED
                BY <3>1, <4>2, HeldSame, Zenon
        <3> QED
            BY <3>3, <3>4, Zenon
    <2>8. ASSUME NEW s \in Source,
                 bind(s) \/ unbind(s) \/ deactivate \/ check(s) \/ vm_ack(s) \/ vm_eoi(s)
          PROVE  UNCHANGED <<buf, head, count, out>>
        BY <2>8, Zenon
        DEF bind, unbind, deactivate, check, check_begin, check_load_count, check_load_thd,
            check_end, vm_ack, vm_eoi
    <2>9. ASSUME NEW thd, configure_send(thd) \/ configure_receive(thd)
          PROVE  UNCHANGED <<buf, head, count, out>>
        BY <2>9, Zenon DEF configure_send, configure_receive
    <2>10. UNCHANGED vars => UNCHANGED <<buf, head, count, out>>
        BY Zenon
    <2>11. "rcv" \in Source
        BY SourceAssumption
    <2> QED
        BY <2>1, <2>2, <2>3, <2>4, <2>5, <2>6, <2>7, <2>8, <2>9, <2>10, <2>11, Zenon
        DEF Next, Step
<1> QED
    BY <1>1, <1>2, Invariance, PTL DEF Spec, ImplementsFifo, Fifo!Spec, Held
=============================================================================
