--------------------------- MODULE DoorbellProofs ---------------------------
(***************************************************************************)
(* The invariants of Doorbell for every set of flags.                      *)
(*                                                                         *)
(* The level check loads flags and mask at different times without the     *)
(* lock.  While it is under way and no call is owed, flags are only        *)
(* cleared: a doorbell_send owes a call, which cancels the check.  The     *)
(* mask only shrinks, unless a change of the mask is one of those that     *)
(* overtaken records.  So what the check combines rings if the doorbell    *)
(* rings (Seen).                                                           *)
(***************************************************************************)
EXTENDS Doorbell, TLAPS

Rings == Ringing(flags, enable_mask)

TypeOK ==
    /\ VirqTypeOK
    /\ flags \in SUBSET Flag
    /\ enable_mask \in SUBSET Flag
    /\ ack_mask \in SUBSET Flag
    /\ call \in Call
    /\ seen_flags \in (SUBSET Flag) \cup {NotLoaded}
    /\ seen_mask \in (SUBSET Flag) \cup {NotLoaded}
    /\ alive \in BOOLEAN
    /\ armed \in BOOLEAN
    /\ overtaken \in BOOLEAN

\* A check is under way only for an interrupt that is bound, asserted and
\* acknowledged; nothing is loaded otherwise; only a bound one is armed.
Checks ==
    /\ checking[db] => bound[db] /\ level[db] /\ ~fresh[db]
    /\ ~checking[db] => seen_flags = NotLoaded /\ seen_mask = NotLoaded
    /\ armed => bound[db]

\* The interrupt is cleared, or asserted as an edge, only if nothing rings.
CalledRightly == call \in {"clear", "edge"} => ~Rings

\* A ringing doorbell has its interrupt asserted, or about to be.
Notified ==
    bound[db] /\ armed /\ ~overtaken /\ Rings => level[db] \/ call = "assert"

\* What a check has loaded is no less than what there is, unless a call is
\* owed, which will cancel it.
Seen ==
    checking[db] /\ call = "none" =>
        /\ seen_flags # NotLoaded => flags \subseteq seen_flags
        /\ seen_mask # NotLoaded /\ ~overtaken /\ Rings => enable_mask \subseteq seen_mask

IInv == TypeOK /\ Checks /\ CalledRightly /\ Notified /\ Seen

-----------------------------------------------------------------------------
LEMMA InitInv == Init => IInv
<1> SUFFICES ASSUME Init PROVE IInv
    OBVIOUS
<1>1. db \in Source
    BY SourceAssumption DEF db
<1>2. TypeOK
    <2>1. VirqTypeOK
        BY Zenon DEF Init, VirqInit, VirqTypeOK
    <2> QED BY <2>1, ZenonT(60) DEF Init, TypeOK, Call
<1>3. ~checking[db] /\ ~bound[db]
    BY <1>1 DEF Init, VirqInit
<1> QED
    BY <1>2, <1>3 DEF Init, IInv, Checks, CalledRightly, Notified, Seen

\* The histories keep their types.
LEMMA TrackType == Track => armed' \in BOOLEAN /\ overtaken' \in BOOLEAN
BY Zenon DEF Track

\* Dropping what a check has loaded keeps its type.
LEMMA ForgetType ==
    Forget => /\ seen_flags' \in (SUBSET Flag) \cup {NotLoaded}
              /\ seen_mask' \in (SUBSET Flag) \cup {NotLoaded}
BY DEF Forget

\* Every step preserves the types.
LEMMA TypeNext == ASSUME TypeOK, Next PROVE TypeOK'
<1> USE DEF TypeOK, seen_vars, others, virq_vars
<1>0. armed' \in BOOLEAN /\ overtaken' \in BOOLEAN
    BY TrackType DEF Next
<1>1. "none" \in Call /\ "assert" \in Call /\ "edge" \in Call /\ "clear" \in Call
    BY DEF Call
<1>2. ASSUME NEW new \in SUBSET Flag, send(new) PROVE TypeOK'
    <2>1. flags' \in SUBSET Flag /\ call' \in Call
        BY <1>1, <1>2 DEF send
    <2> QED BY <1>0, <1>2, <2>1, Zenon DEF send, VirqTypeOK
<1>3. ASSUME NEW clear \in SUBSET Flag, receive(clear) PROVE TypeOK'
    <2>1. flags' \in SUBSET Flag
        BY <1>3 DEF receive
    <2> QED BY <1>0, <1>3, <2>1, Zenon DEF receive, VirqTypeOK
<1>4. CASE reset
    BY <1>0, <1>1, <1>4, Zenon DEF reset, VirqTypeOK
<1>5. ASSUME NEW enable \in SUBSET Flag, NEW ack \in SUBSET Flag, mask(enable, ack) PROVE TypeOK'
    <2>1. flags' \in SUBSET Flag /\ call' \in Call
        BY <1>1, <1>5 DEF mask
    <2> QED BY <1>0, <1>5, <2>1, Zenon DEF mask, VirqTypeOK
<1>6. CASE virq_call
    <2>1. VirqTypeOK'
        BY <1>6, ZenonT(60) DEF virq_call, Assert, VirqClear, VirqTypeOK
    <2>2. /\ seen_flags' \in (SUBSET Flag) \cup {NotLoaded}
          /\ seen_mask' \in (SUBSET Flag) \cup {NotLoaded}
        BY <1>6, ForgetType, Zenon DEF virq_call
    <2> QED BY <1>0, <1>1, <1>6, <2>1, <2>2, Zenon DEF virq_call
<1>7. CASE bind
    <2>1. VirqTypeOK'
        BY <1>7, Zenon DEF bind, Bind, VirqTypeOK
    <2> QED BY <1>0, <1>7, <2>1, Zenon DEF bind
<1>8. CASE unbind
    <2>1. VirqTypeOK'
        BY <1>8, Zenon DEF unbind, Unbind, VirqTypeOK
    <2> QED BY <1>0, <1>8, <2>1, ForgetType, Zenon DEF unbind
<1>9. CASE deactivate
    <2>1. VirqTypeOK'
        BY <1>9, Zenon DEF deactivate, Unbind, VirqTypeOK
    <2> QED BY <1>0, <1>9, <2>1, ForgetType, Zenon DEF deactivate
<1>10. CASE check_begin
    <2>1. VirqTypeOK'
        BY <1>10, Zenon DEF check_begin, CheckBegin, VirqTypeOK
    <2> QED BY <1>0, <1>10, <2>1, Zenon DEF check_begin
<1>11. CASE check_load_flags
    BY <1>0, <1>11, Zenon DEF check_load_flags, VirqTypeOK
<1>12. CASE check_load_mask
    BY <1>0, <1>12, Zenon DEF check_load_mask, VirqTypeOK
<1>13. CASE check_end
    <2>1. Ringing(seen_flags, seen_mask) \in BOOLEAN
        BY Zenon DEF Ringing
    <2>2. VirqTypeOK'
        BY <1>13, <2>1, Zenon DEF check_end, CheckEnd, VirqTypeOK
    <2> QED BY <1>0, <1>13, <2>2, ForgetType, Zenon DEF check_end
<1>14. CASE vm_ack
    <2>1. VirqTypeOK'
        BY <1>14, Zenon DEF vm_ack, VmAck, VirqTypeOK
    <2> QED BY <1>0, <1>14, <2>1, Zenon DEF vm_ack
<1>15. CASE vm_eoi
    <2>1. VirqTypeOK'
        BY <1>15, Zenon DEF vm_eoi, VmEoi, VirqTypeOK
    <2> QED BY <1>0, <1>15, <2>1, Zenon DEF vm_eoi
<1> QED
    BY <1>2, <1>3, <1>4, <1>5, <1>6, <1>7, <1>8, <1>9, <1>10, <1>11, <1>12, <1>13,
       <1>14, <1>15, Zenon DEF Next, Step, check

-----------------------------------------------------------------------------
(* What every step preserves *)

Safe == Checks /\ CalledRightly /\ Notified /\ Seen

\* What the histories say of a step.
LEMMA Histories ==
    ASSUME Track
    PROVE  /\ armed' => bound'[db] /\ (armed \/ ~Rings')
           /\ ~overtaken' /\ bound'[db] /\ Rings' =>
                 /\ ~overtaken
                 /\ checking[db] /\ call' = "none" => enable_mask' \subseteq enable_mask
BY Zenon DEF Track, Rings

\* An operation under the lock leaves the interrupt alone.  It owes a call if
\* it sets a flag or makes the doorbell ring.
LEMMA OperationInv ==
    ASSUME Safe, Track, call = "none", call' \in Call,
           UNCHANGED <<virq_vars, seen_vars>>,
           call' = "none" => flags' \subseteq flags /\ (Rings' => Rings),
           call' \in {"clear", "edge"} => ~Rings'
    PROVE  Safe'
<1> USE DEF Safe, virq_vars, seen_vars
<1>1. /\ armed' => bound'[db] /\ (armed \/ ~Rings')
      /\ ~overtaken' /\ bound'[db] /\ Rings' =>
            /\ ~overtaken
            /\ checking[db] /\ call' = "none" => enable_mask' \subseteq enable_mask
    BY Histories
<1>2. Checks'
    BY <1>1, Zenon DEF Checks
<1>3. CalledRightly'
    BY Zenon DEF CalledRightly
<1>4. Notified'
    <2>1. CASE call' = "none"
        BY <1>1, <2>1, Zenon DEF Notified
    <2>2. CASE call' # "none"
        BY <2>2 DEF Notified, Call
    <2> QED BY <2>1, <2>2
<1>5. Seen'
    <2> SUFFICES ASSUME checking'[db], call' = "none" PROVE Seen'
        BY Zenon DEF Seen
    <2>1. seen_flags' # NotLoaded => flags' \subseteq seen_flags'
        <3>1. seen_flags # NotLoaded => flags \subseteq seen_flags
            BY Zenon DEF Seen
        <3> QED BY <3>1
    <2>2. ASSUME seen_mask' # NotLoaded, ~overtaken', Rings' PROVE enable_mask' \subseteq seen_mask'
        <3>1. bound'[db] /\ bound[db]
            BY Zenon DEF Checks
        <3>2. ~overtaken /\ enable_mask' \subseteq enable_mask /\ Rings
            BY <1>1, <2>2, <3>1, Zenon
        <3>3. enable_mask \subseteq seen_mask
            BY <2>2, <3>2, Zenon DEF Seen
        <3> QED BY <3>2, <3>3
    <2> QED BY <2>1, <2>2, Zenon DEF Seen
<1> QED BY <1>2, <1>3, <1>4, <1>5

\* A step of the interrupt leaves the doorbell alone, and a check that is
\* under way is cancelled or goes on.
LEMMA VirqInv ==
    ASSUME Safe, Track, UNCHANGED <<flags, enable_mask>>,
           call' = call \/ call' = "none",
           Checks',
           bound'[db] => bound[db] \/ ~armed,
           bound'[db] /\ armed /\ ~overtaken /\ Rings => level'[db] \/ call' = "assert",
           checking'[db] /\ call' = "none" =>
              /\ call = "none"
              /\ seen_flags' = NotLoaded \/ seen_flags' = flags
                    \/ (checking[db] /\ seen_flags' = seen_flags)
              /\ seen_mask' = NotLoaded \/ seen_mask' = enable_mask
                    \/ (checking[db] /\ seen_mask' = seen_mask)
    PROVE  Safe'
<1> USE DEF Safe
<1>1. /\ armed' => bound'[db] /\ (armed \/ ~Rings')
      /\ ~overtaken' /\ bound'[db] /\ Rings' => ~overtaken
    BY Histories
<1>2. Rings' <=> Rings
    BY Zenon DEF Rings
<1>3. CalledRightly'
    BY <1>2 DEF CalledRightly
<1>4. Notified'
    BY <1>1, <1>2, Zenon DEF Notified
<1>5. Seen'
    <2> SUFFICES ASSUME checking'[db], call' = "none" PROVE Seen'
        BY Zenon DEF Seen
    <2>1. seen_flags' # NotLoaded => flags' \subseteq seen_flags'
        BY Zenon DEF Seen
    <2>2. ASSUME seen_mask' # NotLoaded, ~overtaken', Rings' PROVE enable_mask' \subseteq seen_mask'
        <3>1. bound'[db]
            BY Zenon DEF Checks
        <3>2. ~overtaken /\ Rings
            BY <1>1, <1>2, <2>2, <3>1, Zenon
        <3> QED BY <2>2, <3>2, Zenon DEF Seen
    <2> QED BY <2>1, <2>2, Zenon DEF Seen
<1> QED BY <1>3, <1>4, <1>5

\* Every step preserves the invariant.
LEMMA SafeNext == ASSUME TypeOK, Safe, Next PROVE Safe'
<1> USE DEF seen_vars, others, virq_vars
<1>0. Track
    BY DEF Next
<1>1. db \in Source
    BY SourceAssumption DEF db
<1>2. /\ bound \in [Source -> BOOLEAN] /\ level \in [Source -> BOOLEAN]
      /\ fresh \in [Source -> BOOLEAN] /\ active \in [Source -> BOOLEAN]
      /\ checking \in [Source -> BOOLEAN] /\ call \in Call
      /\ flags \in SUBSET Flag /\ enable_mask \in SUBSET Flag
    BY Zenon DEF TypeOK, VirqTypeOK
<1>3. /\ armed' => bound'[db] /\ (armed \/ ~Rings')
    BY <1>0, Histories
<1>4. TypeOK'
    BY TypeNext
<1>5. call' \in Call /\ flags \in SUBSET Flag /\ enable_mask \in SUBSET Flag
    BY <1>2, <1>4, Zenon DEF TypeOK
<1>6. \A f \in SUBSET Flag : f # NotLoaded
    BY NotLoadedAssumption
<1>7. ASSUME NEW new \in SUBSET Flag, send(new) PROVE Safe'
    <2>1. call' \in {"assert", "edge"} /\ (call' = "edge" => ~Rings')
        BY <1>7 DEF send, Rings
    <2> QED BY <1>0, <1>5, <1>7, <2>1, OperationInv DEF send, Idle
<1>8. ASSUME NEW clear \in SUBSET Flag, receive(clear) PROVE Safe'
    <2>1. flags' \subseteq flags /\ (Rings' => Rings) /\ call = "none" /\ call' = "none"
        BY <1>8 DEF receive, Rings, Ringing, Idle
    <2> QED BY <1>0, <1>5, <1>8, <2>1, OperationInv DEF receive
<1>9. CASE reset
    <2>1. call' = "clear" /\ ~Rings' /\ call = "none"
        BY <1>9 DEF reset, Rings, Ringing, Idle
    <2> QED BY <1>0, <1>5, <1>9, <2>1, OperationInv DEF reset
<1>10. ASSUME NEW enable \in SUBSET Flag, NEW ack \in SUBSET Flag, mask(enable, ack) PROVE Safe'
    <2>1. call = "none" /\ flags' \subseteq flags
        BY <1>10 DEF mask, Idle
    <2>2. call' = "none" => (Rings' => Rings)
        BY <1>10, SMTT(60) DEF mask, Rings, Ringing
    <2>3. call' \in {"clear", "edge"} => ~Rings'
        BY <1>10, SMTT(60) DEF mask, Rings, Ringing
    <2> QED BY <1>0, <1>5, <1>10, <2>1, <2>2, <2>3, OperationInv DEF mask
<1>11. CASE virq_call
    <2>1. /\ call # "none" /\ call' = "none"
          /\ UNCHANGED <<flags, enable_mask>>
        BY <1>11, Zenon DEF virq_call
    <2>2. bound' = bound
        BY <1>11, Zenon DEF virq_call, Assert, VirqClear
    <2>3. ~checking'[db]
        BY <1>1, <1>2, <1>11, ZenonT(60) DEF virq_call, Assert, VirqClear, Safe, Checks
    <2>4. Forget
        BY <1>11, <2>3, Zenon DEF virq_call
    <2>5. Checks'
        BY <1>3, <2>3, <2>4, Zenon DEF Checks, Forget
    <2>6. ASSUME bound[db], armed, ~overtaken, Rings PROVE level'[db]
        <3>1. call = "assert"
            BY <1>2, <2>1, <2>6, SMTT(60) DEF Safe, CalledRightly, Call
        <3> QED BY <1>1, <1>2, <1>11, <2>6, <3>1 DEF virq_call, Assert
    <2> QED BY <1>0, <2>1, <2>2, <2>3, <2>5, <2>6, VirqInv, Zenon
<1>12. CASE bind
    <2>1. /\ UNCHANGED <<level, fresh, checking, seen_flags, seen_mask, flags, enable_mask, call>>
          /\ ~bound[db]
        BY <1>12, Zenon DEF bind, Bind
    <2>2. ~armed /\ ~checking[db]
        BY <2>1, Zenon DEF Safe, Checks
    <2>3. Checks'
        BY <1>3, <2>1, <2>2, Zenon DEF Safe, Checks
    <2> QED BY <1>0, <2>1, <2>2, <2>3, VirqInv, Zenon
<1>13. CASE unbind \/ deactivate
    <2>1. /\ UNCHANGED <<flags, enable_mask, call>> /\ Forget
          /\ ~bound'[db] /\ ~checking'[db]
        BY <1>1, <1>2, <1>13, ZenonT(60) DEF unbind, deactivate, Unbind, Safe, Checks
    <2>2. Checks'
        BY <1>3, <2>1, Zenon DEF Checks, Forget
    <2> QED BY <1>0, <2>1, <2>2, VirqInv, Zenon
<1>14. CASE check_begin
    <2>1. /\ UNCHANGED <<bound, level, fresh, flags, enable_mask, call, seen_flags, seen_mask>>
          /\ bound[db] /\ level[db] /\ ~fresh[db] /\ ~checking[db] /\ checking'[db]
        BY <1>1, <1>2, <1>14, Zenon DEF check_begin, CheckBegin
    <2>2. seen_flags' = NotLoaded /\ seen_mask' = NotLoaded
        BY <2>1, Zenon DEF Safe, Checks
    <2>3. Checks'
        BY <1>3, <2>1, <2>2, Zenon DEF Checks
    <2> QED BY <1>0, <2>1, <2>2, <2>3, VirqInv, Zenon
<1>15. CASE check_load_flags \/ check_load_mask
    <2>1. /\ UNCHANGED <<virq_vars, flags, enable_mask, call>> /\ checking[db]
          /\ seen_flags' = flags \/ seen_flags' = seen_flags
          /\ seen_mask' = enable_mask \/ seen_mask' = seen_mask
        BY <1>15, Zenon DEF check_load_flags, check_load_mask
    <2>2. Checks'
        BY <1>3, <2>1, Zenon DEF Safe, Checks
    <2>3. bound'[db] /\ armed /\ ~overtaken /\ Rings => level'[db] \/ call' = "assert"
        BY <2>1, Zenon DEF Safe, Notified
    <2> QED BY <1>0, <2>1, <2>2, <2>3, VirqInv, Zenon
<1>16. CASE check_end
    <2>1. /\ checking[db] /\ seen_flags # NotLoaded /\ seen_mask # NotLoaded
          /\ level' = [level EXCEPT ![db] = Ringing(seen_flags, seen_mask)]
          /\ checking' = [checking EXCEPT ![db] = FALSE]
          /\ Forget /\ UNCHANGED <<flags, enable_mask, call, bound>>
        BY <1>16, Zenon DEF check_end, CheckEnd
    <2>2. ~checking'[db] /\ (level'[db] <=> Ringing(seen_flags, seen_mask))
        BY <1>1, <1>2, <2>1
    <2>3. Checks'
        BY <1>3, <2>1, <2>2, Zenon DEF Checks, Forget
    <2>4. ASSUME bound[db], armed, ~overtaken, Rings PROVE level'[db] \/ call' = "assert"
        <3>1. CASE call = "none"
            <4>1. flags \subseteq seen_flags /\ enable_mask \subseteq seen_mask
                BY <2>1, <2>4, <3>1, Zenon DEF Safe, Seen
            <4>2. Ringing(seen_flags, seen_mask)
                BY <2>4, <4>1 DEF Rings, Ringing
            <4> QED BY <2>2, <4>2
        <3>2. CASE call # "none"
            BY <1>2, <2>1, <2>4, <3>2, SMTT(60) DEF Safe, CalledRightly, Call
        <3> QED BY <3>1, <3>2
    <2> QED BY <1>0, <2>1, <2>2, <2>3, <2>4, VirqInv, Zenon
<1>17. CASE vm_ack \/ vm_eoi
    <2>1. /\ UNCHANGED <<bound, level, checking, flags, enable_mask, call, seen_flags, seen_mask>>
          /\ ~fresh[db] => ~fresh'[db]
        BY <1>1, <1>2, <1>17, ZenonT(60) DEF vm_ack, vm_eoi, VmAck, VmEoi
    <2>2. Checks'
        BY <1>3, <2>1, Zenon DEF Safe, Checks
    <2>3. bound'[db] /\ armed /\ ~overtaken /\ Rings => level'[db] \/ call' = "assert"
        BY <2>1, Zenon DEF Safe, Notified
    <2> QED BY <1>0, <2>1, <2>2, <2>3, VirqInv, Zenon
<1> QED
    BY <1>7, <1>8, <1>9, <1>10, <1>11, <1>12, <1>13, <1>14, <1>15, <1>16, <1>17, Zenon
    DEF Next, Step, check

LEMMA NextInv == IInv /\ [Next]_vars => IInv'
<1> SUFFICES ASSUME IInv, [Next]_vars PROVE IInv'
    OBVIOUS
<1>1. CASE Next
    BY <1>1, TypeNext, SafeNext DEF IInv, Safe
<1>2. CASE UNCHANGED vars
    BY <1>2, Zenon DEF vars, virq_vars, others, seen_vars, IInv, TypeOK, VirqTypeOK, Checks,
       CalledRightly, Notified, Seen, Rings
<1> QED BY <1>1, <1>2

-----------------------------------------------------------------------------
(* The theorems *)

\* The invariant is inductive.
THEOREM Invariance == Spec => []IInv
BY InitInv, NextInv, PTL DEF Spec

\* For every set of flags, a doorbell that rings has its interrupt asserted,
\* although the level check loads flags and mask without the lock.
THEOREM RingIsNotified == Spec => []RingNotified
<1>1. IInv => RingNotified
    BY DEF IInv, Notified, RingNotified, Rings
<1> QED BY <1>1, Invariance, PTL

\* No level check withdraws a ring that the VM has not acknowledged.
THEOREM RingIsKept == Spec => RingKept
<1> DEFINE Kept == level[db] /\ fresh[db] /\ ~level'[db] => ~bound'[db] \/ call = "clear"
<1>1. IInv /\ [Next]_vars => [Kept]_vars
    <2> SUFFICES ASSUME IInv, Next, level[db], fresh[db], ~level'[db], bound'[db]
                 PROVE  call = "clear"
        OBVIOUS
    <2> USE DEF seen_vars, others, virq_vars
    <2>1. db \in Source /\ level \in [Source -> BOOLEAN] /\ bound \in [Source -> BOOLEAN]
        BY SourceAssumption, Zenon DEF db, IInv, TypeOK, VirqTypeOK
    <2>2. ~checking[db]
        BY DEF IInv, Checks
    <2>3. level' # level
        BY Zenon
    <2>4. virq_call \/ unbind \/ deactivate \/ check_end
        BY <2>3, ZenonT(60) DEF Next, Step, check, send, receive, reset, mask, bind, Bind,
           check_begin, CheckBegin, check_load_flags, check_load_mask, vm_ack, VmAck,
           vm_eoi, VmEoi
    <2>5. ~check_end
        BY <2>2 DEF check_end, CheckEnd
    <2>6. ~unbind /\ ~deactivate
        BY <2>1, <2>3, ZenonT(60) DEF unbind, deactivate, Unbind
    <2>7. CASE virq_call /\ call # "clear"
        BY <2>1, <2>7, ZenonT(60) DEF virq_call, Assert
    <2> QED BY <2>4, <2>5, <2>6, <2>7
<1> QED BY <1>1, Invariance, PTL DEF Spec, RingKept
=============================================================================
