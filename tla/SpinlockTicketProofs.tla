------------------------ MODULE SpinlockTicketProofs ------------------------
(***************************************************************************)
(* Mutual exclusion of the ticket spinlock and its refinement of FifoLock, *)
(* for any number of cores and any ticket range larger than it.            *)
(*                                                                         *)
(* The inductive invariant counts: the tickets between now_serving and     *)
(* next_ticket are exactly those of the cores in line (so there are at     *)
(* most as many as cores, and the window never wraps onto itself), no two  *)
(* cores in line have the same ticket, and an owner's ticket is the one    *)
(* being served.  A trylock that finds next_ticket equal to the            *)
(* now_serving value it loaded earlier has seen no ticket taken in         *)
(* between, because fewer than TicketRange were.                           *)
(***************************************************************************)
EXTENDS SpinlockTicket, FiniteSetTheorems, SequenceTheorems, TLAPS

InLine(c) == Owns(c) \/ Queued(c)

Line == {c \in CPU : InLine(c)}

Waiters == After(now_serving, next_ticket)

LineCounted == Cardinality(Line) = Waiters

LineInWindow ==
    \A c \in CPU : InLine(c) => After(now_serving, ticket[c]) < Waiters

TicketsDistinct ==
    \A c, d \in CPU : InLine(c) /\ InLine(d) /\ ticket[c] = ticket[d] => c = d

OwnerServed == \A c \in CPU : Owns(c) => ticket[c] = now_serving

TrylockTracked ==
    \A c \in CPU : pc[c] = "try" =>
        /\ After(ticket[c], next_ticket) = issued[c]
        /\ Waiters <= issued[c]

IInv ==
    /\ TypeOK /\ LineCounted /\ LineInWindow /\ TicketsDistinct
    /\ OwnerServed /\ TrylockTracked /\ NoMissedWakeup

-----------------------------------------------------------------------------
(* uint16_t arithmetic stays in range. *)
LEMMA Arithmetic ==
    /\ TicketRange \in Nat /\ TicketRange > 0
    /\ \A t \in Ticket : Next16(t) \in Ticket
    /\ \A a, b \in Ticket : After(a, b) \in Ticket
    /\ \A a, b \in Ticket : After(a, b) = 0 <=> a = b
    /\ \A a, b \in Ticket : After(a, b) < TicketRange - 1
                              => After(a, Next16(b)) = After(a, b) + 1
    /\ \A a, b \in Ticket : a # b => After(Next16(a), b) = After(a, b) - 1
<1>1. TicketRange \in Nat /\ TicketRange > 0
  BY FS_CardinalityType, CoreAssumption
<1> QED
  BY <1>1 DEF Ticket, Next16, After

(* The line is a finite set with fewer members than there are tickets. *)
LEMMA LineFinite ==
    /\ IsFiniteSet(Line)
    /\ Cardinality(Line) \in Nat
    /\ Cardinality(Line) < TicketRange
    /\ (\E c \in CPU : ~InLine(c)) => Cardinality(Line) < TicketRange - 1
<1>1. IsFiniteSet(Line) /\ Cardinality(Line) <= Cardinality(CPU)
  BY FS_Subset, CoreAssumption DEF Line
<1>2. Cardinality(Line) \in Nat /\ Cardinality(CPU) \in Nat
  BY <1>1, FS_CardinalityType, CoreAssumption
<1>3. ASSUME NEW c \in CPU, ~InLine(c)
      PROVE  Cardinality(Line) < Cardinality(CPU)
  <2>1. c \notin Line /\ Line \cup {c} \subseteq CPU
    BY <1>3 DEF Line
  <2>2. Cardinality(Line \cup {c}) = Cardinality(Line) + 1
    BY <1>1, <2>1, FS_AddElement
  <2>3. Cardinality(Line \cup {c}) <= Cardinality(CPU)
    BY <2>1, FS_Subset, CoreAssumption
  <2> QED BY <1>2, <2>2, <2>3
<1> QED BY <1>1, <1>2, <1>3, CoreAssumption

LEMMA InitInv == Init => IInv
<1> SUFFICES ASSUME Init PROVE IInv
  OBVIOUS
<1>1. TypeOK
  BY Arithmetic DEF Init, TypeOK, Ticket
<1>2. Line = {} /\ Waiters = 0
  BY DEF Init, Line, InLine, Owns, Queued, Waiters, After
<1>3. LineCounted
  BY <1>2, FS_EmptySet DEF LineCounted
<1> QED
  BY <1>1, <1>3 DEF Init, IInv, LineInWindow, TicketsDistinct, OwnerServed,
     TrylockTracked, NoMissedWakeup, InLine, Owns, Queued

-----------------------------------------------------------------------------
(* A step that takes a ticket for a core c that was not in line. *)
LEMMA TakeStep ==
    ASSUME IInv, NEW c \in CPU, ~InLine(c), TakeTicket,
           UNCHANGED now_serving,
           ticket' \in [CPU -> Ticket],
           ticket'[c] = next_ticket,
           \A d \in CPU : d # c => ticket'[d] = ticket[d] /\ pc'[d] = pc[d],
           pc' \in [CPU -> {"out", "spin", "wait", "held", "release", "try"}],
           pc'[c] = "spin" \/ (pc'[c] = "held" /\ now_serving = next_ticket),
           armed' = armed
    PROVE  IInv'
<1> USE DEF IInv
<1>1. /\ now_serving \in Ticket /\ next_ticket \in Ticket
      /\ ticket \in [CPU -> Ticket] /\ issued \in [CPU -> Ticket]
  BY DEF TypeOK
<1>2. Waiters < TicketRange - 1 /\ Waiters \in Nat
  BY LineFinite DEF LineCounted
<1>3. Waiters' = Waiters + 1
  BY <1>1, <1>2, Arithmetic DEF Waiters, TakeTicket
<1>4. Line' = Line \cup {c} /\ c \notin Line
  BY DEF Line, InLine, Owns, Queued
<1>5. LineCounted'
  BY <1>2, <1>3, <1>4, LineFinite, FS_AddElement DEF LineCounted
<1>6. \A d \in CPU : InLine(d)' /\ d # c => InLine(d)
  BY DEF InLine, Owns, Queued
<1>7. After(now_serving, next_ticket) = Waiters
  BY DEF Waiters
<1>8. \A d \in CPU : After(now_serving, ticket'[d]) \in Ticket
  BY <1>1, Arithmetic
<1>9. LineInWindow'
  BY <1>1, <1>2, <1>3, <1>6, <1>7, <1>8 DEF LineInWindow, Ticket
<1>10. \A d \in CPU : InLine(d) => ticket[d] # next_ticket
  BY <1>2, <1>7 DEF LineInWindow
<1>11. TicketsDistinct'
  BY <1>6, <1>10 DEF TicketsDistinct
<1>12. OwnerServed'
  BY DEF OwnerServed, Owns
<1>13. ASSUME NEW d \in CPU, pc'[d] = "try"
       PROVE  /\ issued'[d] = issued[d] + 1 /\ issued[d] < TicketRange - 1
              /\ After(ticket'[d], next_ticket') = issued'[d]
              /\ Waiters' <= issued'[d]
  <2>1. d # c /\ pc[d] = "try" /\ ticket'[d] = ticket[d]
    BY <1>13
  <2>2. issued'[d] = issued[d] + 1 /\ issued[d] < TicketRange - 1
    BY <2>1 DEF TakeTicket, NoTrylockLapped
  <2>3. After(ticket[d], next_ticket) = issued[d] /\ Waiters <= issued[d]
    BY <2>1 DEF TrylockTracked
  <2>4. After(ticket[d], Next16(next_ticket)) = issued[d] + 1
    BY <1>1, <2>2, <2>3, Arithmetic
  <2>5. Waiters' <= issued'[d]
    BY <1>1, <1>2, <1>3, <2>2, <2>3 DEF Ticket
  <2> QED BY <2>1, <2>2, <2>4, <2>5 DEF TakeTicket
<1>14. TrylockTracked'
  BY <1>13 DEF TrylockTracked
<1>15. issued' \in [CPU -> Ticket]
  <2>1. \A t \in Ticket : t < TicketRange - 1 => t + 1 \in Ticket
    BY Arithmetic DEF Ticket
  <2>2. 0 \in Ticket
    BY Arithmetic DEF Ticket
  <2> QED BY <1>1, <2>1, <2>2 DEF TakeTicket, NoTrylockLapped
<1>16. TypeOK'
  BY <1>1, <1>15, Arithmetic DEF TypeOK, TakeTicket
<1>17. NoMissedWakeup'
  BY DEF NoMissedWakeup
<1> QED BY <1>5, <1>9, <1>11, <1>12, <1>14, <1>16, <1>17

(* A step that neither takes a ticket nor changes now_serving, and changes  *)
(* only the state of one core c, which stays where it was in the line.      *)
LEMMA LocalStep ==
    ASSUME IInv, NEW c \in CPU,
           UNCHANGED <<now_serving, next_ticket>>,
           ticket' \in [CPU -> Ticket], issued' \in [CPU -> Ticket],
           pc' \in [CPU -> {"out", "spin", "wait", "held", "release", "try"}],
           armed' \in SUBSET CPU,
           \A d \in CPU : d # c =>
               /\ ticket'[d] = ticket[d] /\ pc'[d] = pc[d]
               /\ issued'[d] = issued[d] /\ (d \in armed' => d \in armed),
           InLine(c)' <=> InLine(c),
           InLine(c) => ticket'[c] = ticket[c],
           Owns(c)' => ticket'[c] = now_serving,
           pc'[c] = "try" => /\ ticket'[c] = now_serving
                             /\ issued'[c] = Waiters,
           pc'[c] = "wait" /\ c \in armed' => now_serving # ticket'[c]
    PROVE  IInv'
<1> USE DEF IInv
<1>1. Waiters' = Waiters /\ Waiters \in Nat
  BY LineFinite DEF Waiters, LineCounted
<1>2. Line' = Line
  BY DEF Line, InLine, Owns, Queued
<1>3. LineCounted'
  BY <1>1, <1>2 DEF LineCounted
<1>4. \A d \in CPU : InLine(d)' => InLine(d) /\ ticket'[d] = ticket[d]
  BY DEF InLine, Owns, Queued
<1>5. LineInWindow' /\ TicketsDistinct'
  BY <1>1, <1>4 DEF LineInWindow, TicketsDistinct
<1>6. OwnerServed'
  BY DEF OwnerServed, Owns
<1>7. TrylockTracked'
  BY <1>1 DEF TrylockTracked, Waiters
<1>8. TypeOK' /\ NoMissedWakeup'
  BY DEF TypeOK, NoMissedWakeup
<1> QED BY <1>3, <1>5, <1>6, <1>7, <1>8

LEMMA AcquireTake == ASSUME IInv, NEW c \in CPU, acquire_take(c) PROVE IInv'
<1>1. TypeOK
  BY DEF IInv
<1> QED
  BY <1>1, TakeStep DEF acquire_take, TypeOK, InLine, Owns, Queued

LEMMA AcquireLoad == ASSUME IInv, NEW c \in CPU, acquire_load(c) PROVE IInv'
<1>1. TypeOK
  BY DEF IInv
<1> QED
  BY <1>1, LocalStep DEF acquire_load, TypeOK, InLine, Owns, Queued

LEMMA AcquireWake == ASSUME IInv, NEW c \in CPU, acquire_wake(c) PROVE IInv'
<1>1. TypeOK
  BY DEF IInv
<1> QED
  BY <1>1, LocalStep DEF acquire_wake, TypeOK, InLine, Owns, Queued

LEMMA TrylockLoad == ASSUME IInv, NEW c \in CPU, trylock_load(c) PROVE IInv'
<1>1. TypeOK
  BY DEF IInv
<1>2. Waiters \in Ticket
  BY <1>1, Arithmetic DEF TypeOK, Waiters
<1> QED
  BY <1>1, <1>2, LocalStep
     DEF trylock_load, TypeOK, InLine, Owns, Queued, Waiters

LEMMA TrylockSucceed ==
    ASSUME IInv, NEW c \in CPU, trylock_succeed(c) PROVE IInv'
<1>1. TypeOK
  BY DEF IInv
<1>2. issued[c] = 0 /\ Waiters <= issued[c]
  BY <1>1, Arithmetic DEF IInv, trylock_succeed, TrylockTracked, TypeOK
<1>3. Waiters = 0
  BY <1>1, <1>2, Arithmetic DEF TypeOK, Waiters, Ticket
<1>4. now_serving = next_ticket
  BY <1>1, <1>3, Arithmetic DEF TypeOK, Waiters
<1> QED
  BY <1>1, <1>4, TakeStep DEF trylock_succeed, TypeOK, InLine, Owns, Queued

LEMMA TrylockFail == ASSUME IInv, NEW c \in CPU, trylock_fail(c) PROVE IInv'
<1>1. TypeOK
  BY DEF IInv
<1> QED
  BY <1>1, LocalStep DEF trylock_fail, TypeOK, InLine, Owns, Queued

LEMMA ReleaseLoad == ASSUME IInv, NEW c \in CPU, release_load(c) PROVE IInv'
<1>1. TypeOK /\ (Owns(c) => ticket[c] = now_serving)
  BY DEF IInv, OwnerServed
<1> QED
  BY <1>1, LocalStep DEF release_load, TypeOK, InLine, Owns, Queued

(* The release serves the next ticket, and its core leaves the line. *)
LEMMA ReleaseStore == ASSUME IInv, NEW c \in CPU, release_store(c) PROVE IInv'
<1> USE DEF IInv
<1>1. /\ now_serving \in Ticket /\ next_ticket \in Ticket
      /\ ticket \in [CPU -> Ticket]
      /\ pc \in [CPU -> {"out", "spin", "wait", "held", "release", "try"}]
  BY DEF TypeOK
<1>2. /\ InLine(c) /\ ticket[c] = now_serving
      /\ now_serving' = Next16(now_serving)
      /\ ticket' = ticket /\ next_ticket' = next_ticket /\ issued' = issued
      /\ armed' = {} /\ pc' = [pc EXCEPT ![c] = "out"]
  BY DEF release_store, InLine, Owns, OwnerServed
<1>3. TypeOK'
  BY <1>1, <1>2, Arithmetic, ZenonT(60) DEF TypeOK
<1>4. \A d \in CPU : InLine(d)' => InLine(d) /\ d # c
  BY <1>1, <1>2 DEF InLine, Owns, Queued
<1>5. Waiters > 0 /\ Waiters \in Nat
  BY <1>1, <1>2, Arithmetic DEF LineInWindow, Waiters, Ticket
<1>6. now_serving # next_ticket
  BY <1>1, <1>5, Arithmetic DEF Waiters
<1>7. Waiters' = Waiters - 1
  BY <1>1, <1>2, <1>6, Arithmetic DEF Waiters
<1>8. Line' = Line \ {c} /\ c \in Line
  BY <1>1, <1>2 DEF Line, InLine, Owns, Queued
<1>9. LineCounted'
  BY <1>5, <1>7, <1>8, LineFinite, FS_RemoveElement, SMTT(60) DEF LineCounted
<1>10. \A d \in CPU : InLine(d)' => ticket[d] # now_serving
  BY <1>2, <1>4 DEF TicketsDistinct
<1>11. \A d \in CPU : InLine(d)' =>
          After(now_serving', ticket[d]) = After(now_serving, ticket[d]) - 1
  BY <1>1, <1>2, <1>10, Arithmetic
<1>12. \A d \in CPU : After(now_serving, ticket[d]) \in Nat
  <2>1. Ticket \subseteq Nat
    BY DEF Ticket
  <2> QED BY <1>1, <2>1, Arithmetic, ZenonT(60)
<1>13. LineInWindow'
  BY <1>2, <1>4, <1>5, <1>7, <1>11, <1>12 DEF LineInWindow
<1>14. TicketsDistinct'
  BY <1>2, <1>4 DEF TicketsDistinct
<1>15. \A d \in CPU : Owns(d)' => Owns(d) /\ InLine(d)'
  BY <1>1, <1>2 DEF Owns, InLine
<1>16. OwnerServed'
  BY <1>2, <1>10, <1>15 DEF OwnerServed
<1>17. ASSUME NEW d \in CPU, pc'[d] = "try"
       PROVE  pc[d] = "try" /\ issued[d] \in Nat
  BY <1>1, <1>2, <1>17 DEF TypeOK, Ticket
<1>18. TrylockTracked'
  BY <1>2, <1>5, <1>7, <1>17 DEF TrylockTracked
<1>19. NoMissedWakeup'
  BY <1>2 DEF NoMissedWakeup
<1> QED BY <1>3, <1>9, <1>13, <1>14, <1>16, <1>18, <1>19, SMTT(60)

LEMMA NextInv == IInv /\ [Next]_vars => IInv'
<1> SUFFICES ASSUME IInv, [Next]_vars PROVE IInv'
  OBVIOUS
<1>1. CASE UNCHANGED vars
  BY <1>1 DEF vars, IInv, TypeOK, LineCounted, LineInWindow, TicketsDistinct,
     OwnerServed, TrylockTracked, NoMissedWakeup, Line, InLine, Owns, Queued,
     Waiters
<1>2. CASE Next
  <2> PICK c \in CPU : acquire_take(c) \/ trylock_load(c) \/ Continue(c)
    BY <1>2 DEF Next
  <2> QED
    BY AcquireTake, AcquireLoad, AcquireWake, TrylockLoad, TrylockSucceed,
       TrylockFail, ReleaseLoad, ReleaseStore, SMTT(60) DEF Continue
<1> QED BY <1>1, <1>2

-----------------------------------------------------------------------------
THEOREM Invariance == Spec => []IInv
BY InitInv, NextInv, PTL DEF Spec

(* Two cores never own a spinlock at once, for any number of cores and any  *)
(* ticket range larger than it, across every wrap of the 16-bit counters.   *)
THEOREM MutuallyExclusive == Spec => []MutualExclusion
<1>1. IInv => MutualExclusion
  BY DEF IInv, TicketsDistinct, OwnerServed, MutualExclusion, InLine
<1> QED BY <1>1, Invariance, PTL

(* A core asleep in asm_event_wait is never asleep on its own turn. *)
THEOREM WakeupsNotMissed == Spec => []NoMissedWakeup
<1>1. IInv => NoMissedWakeup
  BY DEF IInv
<1> QED BY <1>1, Invariance, PTL

-----------------------------------------------------------------------------
(* The refinement of FifoLock.  The cores in line stand at the places       *)
(* 0 .. Waiters - 1 after now_serving, one at each; the abstract queue is   *)
(* the line without the owner.                                              *)
Place(c) == After(now_serving, ticket[c])

Free(o) == IF o = Nobody THEN 0 ELSE 1

(* o and q are the abstract owner and queue. *)
Abstracts(o, q) ==
    /\ (o = Nobody /\ \A c \in CPU : ~Owns(c)) \/ (o \in CPU /\ Owns(o))
    /\ q \in Seq(CPU)
    /\ Len(q) = Waiters - Free(o)
    /\ \A i \in 1 .. Len(q) : Queued(q[i]) /\ Place(q[i]) = i - 1 + Free(o)

(* Two cores in line at the same place are the same. *)
LEMMA PlacesDistinct ==
    ASSUME IInv, NEW c \in CPU, NEW d \in CPU, InLine(c), InLine(d), Place(c) = Place(d)
    PROVE  c = d
<1>1. now_serving \in Ticket /\ ticket[c] \in Ticket /\ ticket[d] \in Ticket
  BY DEF IInv, TypeOK
<1>2. ticket[c] = ticket[d]
  <2>1. TicketRange \in Nat
    BY CoreAssumption
  <2> QED BY <1>1, <2>1 DEF Place, After, Ticket
<1> QED BY <1>2 DEF IInv, TicketsDistinct

(* Nobody is missing from the line: as many places as cores, each taken at  *)
(* most once.                                                               *)
LEMMA EveryPlaceTaken ==
    ASSUME IInv, NEW n \in 0 .. Waiters - 1
    PROVE  \E c \in CPU : InLine(c) /\ Place(c) = n
<1> DEFINE f == [c \in Line |-> Place(c)]
           P == 0 .. Waiters - 1
<1>1. Waiters \in Nat /\ Cardinality(Line) = Waiters
  BY LineFinite DEF IInv, LineCounted
<1>2. \A c \in Line : Place(c) \in P
  <2>1. \A c \in CPU : Place(c) \in Nat
    <3>1. Ticket \subseteq Nat
      BY DEF Ticket
    <3>2. now_serving \in Ticket /\ ticket \in [CPU -> Ticket]
      BY DEF IInv, TypeOK
    <3> QED BY <3>1, <3>2, Arithmetic, ZenonT(60) DEF Place
  <2> QED BY <1>1, <2>1 DEF IInv, LineInWindow, Line, Place
<1>3. f \in Injection(Line, P)
  <2>1. \A c, d \in Line : f[c] = f[d] => c = d
    BY PlacesDistinct DEF Line
  <2> QED BY <1>2, <2>1 DEF Injection, IsInjective
<1>4. IsFiniteSet(P) /\ Cardinality(P) = Waiters
  BY <1>1, FS_Interval
<1>5. f \in Surjection(Line, P)
  BY <1>1, <1>3, <1>4, FS_Injection
<1>6. \E c \in Line : f[c] = n
  BY <1>5, ZenonT(60) DEF Surjection
<1> QED BY <1>6 DEF Line

(* The cores that wait are the line without its owner. *)
LEMMA QueueLength ==
    ASSUME IInv
    PROVE  Cardinality({c \in CPU : Queued(c)}) = Waiters - FirstQueued
<1> DEFINE Q == {c \in CPU : Queued(c)}
<1>1. IsFiniteSet(Line) /\ Cardinality(Line) = Waiters
  BY LineFinite DEF IInv, LineCounted
<1>2. CASE \E c \in CPU : Owns(c)
  <2>1. PICK c \in CPU : Owns(c)
    BY <1>2
  <2>2. \A d \in CPU : Owns(d) => d = c
    BY <2>1 DEF IInv, OwnerServed, TicketsDistinct, InLine
  <2>3. Q = Line \ {c} /\ c \in Line
    BY <2>1, <2>2 DEF Line, InLine, Owns, Queued
  <2>4. FirstQueued = 1
    BY <2>1, CoreAssumption DEF FirstQueued, Owner
  <2> QED BY <1>1, <2>3, <2>4, FS_RemoveElement
<1>3. CASE \A c \in CPU : ~Owns(c)
  <2>1. Q = Line /\ FirstQueued = 0
    BY <1>3 DEF Line, InLine, FirstQueued, Owner
  <2>2. Waiters \in Nat
    BY <1>1, LineFinite
  <2> QED BY <1>1, <2>1, <2>2
<1> QED BY <1>2, <1>3

(* Owner and Queue are an abstract owner and queue ... *)
LEMMA OwnerAndQueue == ASSUME IInv PROVE Abstracts(Owner, Queue)
<1> DEFINE n == Waiters - FirstQueued
<1>1. (Owner = Nobody /\ \A c \in CPU : ~Owns(c)) \/ (Owner \in CPU /\ Owns(Owner))
  BY DEF Owner
<1>2. FirstQueued = Free(Owner) /\ FirstQueued \in {0, 1}
  BY DEF FirstQueued, Free
<1>3. n \in Nat /\ Waiters \in Nat /\ Cardinality({c \in CPU : Queued(c)}) = n
  <2>1. IsFiniteSet({c \in CPU : Queued(c)})
    BY FS_Subset, CoreAssumption
  <2> QED BY <2>1, QueueLength, LineFinite, FS_CardinalityType DEF IInv, LineCounted
<1>4. ASSUME NEW i \in 1 .. n
      PROVE  Queue[i] \in CPU /\ Queued(Queue[i]) /\ Place(Queue[i]) = i - 1 + FirstQueued
  <2>1. i - 1 + FirstQueued \in 0 .. Waiters - 1
    BY <1>2, <1>3
  <2>2. PICK c \in CPU : InLine(c) /\ Place(c) = i - 1 + FirstQueued
    BY <2>1, EveryPlaceTaken
  <2>3. Queued(c)
    <3>1. SUFFICES ASSUME Owns(c) PROVE FALSE
      BY <2>2 DEF InLine
    <3>2. FirstQueued = 1
      BY <1>1, <3>1, CoreAssumption DEF FirstQueued
    <3>3. ticket[c] = now_serving /\ now_serving \in Ticket
      BY <3>1 DEF IInv, OwnerServed, TypeOK
    <3>4. Place(c) = 0
      BY <3>3, Arithmetic DEF Place
    <3> QED BY <2>2, <3>2, <3>4
  <2>4. c \in QueuedAt(i - 1 + FirstQueued)
    BY <2>2, <2>3 DEF QueuedAt, Place
  <2>5. Queue[i] = CHOOSE d \in CPU : d \in QueuedAt(i - 1 + FirstQueued)
    BY <1>3, <2>4 DEF Queue
  <2>6. Queue[i] \in CPU /\ Queue[i] \in QueuedAt(i - 1 + FirstQueued)
    BY <2>4, <2>5
  <2> QED BY <2>6 DEF QueuedAt, Place
<1>5. Queue \in [1 .. n -> CPU]
  BY <1>3, <1>4, ZenonT(60) DEF Queue
<1>6. Queue \in Seq(CPU) /\ Len(Queue) = n
  BY <1>3, <1>5, SeqDef, LenProperties
<1> QED BY <1>1, <1>2, <1>4, <1>6 DEF Abstracts

(* ... and the only ones. *)
LEMMA AbstractionUnique ==
    ASSUME IInv, NEW o, NEW q, Abstracts(o, q)
    PROVE  o = Owner /\ q = Queue
<1>1. Abstracts(Owner, Queue)
  BY OwnerAndQueue
<1>2. o = Owner
  <2>1. \A c, d \in CPU : Owns(c) /\ Owns(d) => c = d
    BY DEF IInv, TicketsDistinct, OwnerServed, InLine
  <2> QED BY <1>1, <2>1, CoreAssumption DEF Abstracts
<1>3. \A i \in 1 .. Len(q) : q[i] = Queue[i]
  <2> SUFFICES ASSUME NEW i \in 1 .. Len(q) PROVE q[i] = Queue[i]
    OBVIOUS
  <2>1. Len(q) = Len(Queue) /\ q[i] \in CPU /\ Queue[i] \in CPU
    BY <1>1, <1>2, ElementOfSeq DEF Abstracts
  <2>2. InLine(q[i]) /\ InLine(Queue[i]) /\ Place(q[i]) = Place(Queue[i])
    BY <1>1, <1>2, <2>1 DEF Abstracts, InLine
  <2> QED BY <2>1, <2>2, PlacesDistinct
<1> QED BY <1>1, <1>2, <1>3, SeqEqual DEF Abstracts

(* The same in the next state. *)
LEMMA NextAbstraction ==
    ASSUME NEW o, NEW q
    PROVE  (IInv /\ Abstracts(o, q) => o = Owner /\ q = Queue)'
<1>1. IInv /\ Abstracts(o, q) => o = Owner /\ q = Queue
  BY AbstractionUnique
<1> QED BY <1>1, PTL

LEMMA NextAbstractionUnique ==
    ASSUME IInv', NEW o, NEW q, Abstracts(o, q)'
    PROVE  o = Owner' /\ q = Queue'
BY NextAbstraction

(* A core that holds a place in the abstract queue. *)
LEMMA QueueMember ==
    ASSUME NEW o, NEW q, Abstracts(o, q), NEW i \in 1 .. Len(q)
    PROVE  q[i] \in CPU /\ Queued(q[i]) /\ Place(q[i]) = i - 1 + Free(o)
BY ElementOfSeq DEF Abstracts

LEMMA TakeWaiters ==
    ASSUME IInv, NEW c \in CPU, ~InLine(c), TakeTicket, UNCHANGED now_serving
    PROVE  Waiters \in Nat /\ Waiters' = Waiters + 1
<1>1. now_serving \in Ticket /\ next_ticket \in Ticket
  BY DEF IInv, TypeOK
<1>2. Waiters < TicketRange - 1 /\ Waiters \in Nat
  BY LineFinite DEF IInv, LineCounted
<1> QED BY <1>1, <1>2, Arithmetic DEF Waiters, TakeTicket

(* A core that takes a ticket joins the end of the queue. *)
LEMMA TakeRequests ==
    ASSUME IInv, NEW c \in CPU, acquire_take(c), NEW o, NEW q, Abstracts(o, q)
    PROVE  /\ Abstracts(o, Append(q, c))'
           /\ o # c /\ \A i \in DOMAIN q : q[i] # c
<1>1. /\ pc \in [CPU -> {"out", "spin", "wait", "held", "release", "try"}]
      /\ ticket \in [CPU -> Ticket]
  BY DEF IInv, TypeOK
<1>2. ~Owns(c) /\ ~Queued(c) /\ ~InLine(c)
  BY DEF acquire_take, InLine, Owns, Queued
<1>3. Waiters \in Nat /\ Waiters' = Waiters + 1
  BY <1>2, TakeWaiters DEF acquire_take
<1>4. q \in Seq(CPU) /\ Len(q) \in Nat /\ Len(q) = Waiters - Free(o) /\ Free(o) \in {0, 1}
  BY LenProperties DEF Abstracts, Free
<1>5. o # c
  BY <1>2, CoreAssumption DEF Abstracts
<1>6. \A i \in 1 .. Len(q) : q[i] \in CPU /\ q[i] # c
  BY <1>2, QueueMember
<1>7. \A d \in CPU : d # c => pc'[d] = pc[d] /\ ticket'[d] = ticket[d]
  BY <1>1 DEF acquire_take
<1>8. (o = Nobody /\ \A d \in CPU : ~Owns(d)') \/ (o \in CPU /\ Owns(o)')
  BY <1>1, <1>5, <1>7 DEF Abstracts, Owns, acquire_take
<1>9. Append(q, c) \in Seq(CPU) /\ Len(Append(q, c)) = Len(q) + 1
  BY <1>4, AppendProperties
<1>10. ASSUME NEW i \in 1 .. Len(q) + 1
       PROVE  Queued(Append(q, c)[i])' /\ Place(Append(q, c)[i])' = i - 1 + Free(o)
  <2>1. CASE i \in 1 .. Len(q)
    <3>1. Append(q, c)[i] = q[i]
      BY <1>4, <2>1, AppendProperties
    <3>2. q[i] \in CPU /\ Queued(q[i]) /\ Place(q[i]) = i - 1 + Free(o)
      BY <2>1, QueueMember
    <3>3. Queued(q[i])' /\ Place(q[i])' = Place(q[i])
      BY <1>6, <1>7, <2>1, <3>2, SMTT(60) DEF Queued, Place, acquire_take
    <3> QED BY <3>1, <3>2, <3>3, SMTT(60)
  <2>2. CASE i = Len(q) + 1
    <3>1. Append(q, c)[i] = c
      BY <1>4, <2>2, AppendProperties
    <3>2. pc'[c] = "spin" /\ ticket'[c] = next_ticket /\ now_serving' = now_serving
      BY <1>1 DEF acquire_take
    <3>3. Queued(c)' /\ Place(c)' = Waiters
      BY <3>2 DEF Queued, Place, Waiters
    <3> QED BY <1>3, <1>4, <2>2, <3>1, <3>3, SMTT(60)
  <2> QED BY <1>4, <2>1, <2>2, SMTT(60)
<1>11. Len(Append(q, c)) = Waiters' - Free(o)
  BY <1>3, <1>4, <1>9
<1>12. \A i \in 1 .. Len(Append(q, c)) :
           Queued(Append(q, c)[i])' /\ Place(Append(q, c)[i])' = i - 1 + Free(o)
  BY <1>9, <1>10
<1>13. Abstracts(o, Append(q, c))'
  BY <1>8, <1>9, <1>11, <1>12 DEF Abstracts
<1> QED BY <1>5, <1>6, <1>13, <1>4, LenProperties, SMTT(60)

(* The core whose ticket is served is granted the lock. *)
LEMMA LoadGrants ==
    ASSUME IInv, NEW c \in CPU, acquire_load(c), now_serving = ticket[c],
           NEW o, NEW q, Abstracts(o, q)
    PROVE  /\ o = Nobody /\ q # <<>> /\ c = Head(q)
           /\ Abstracts(c, Tail(q))'
<1>1. /\ pc \in [CPU -> {"out", "spin", "wait", "held", "release", "try"}]
      /\ ticket \in [CPU -> Ticket] /\ now_serving \in Ticket
  BY DEF IInv, TypeOK
<1>2. Queued(c) /\ InLine(c) /\ ~Owns(c)
  BY DEF acquire_load, InLine, Owns, Queued
<1>3. o = Nobody
  BY <1>2 DEF Abstracts, IInv, OwnerServed, TicketsDistinct, InLine
<1>4. Place(c) = 0 /\ Waiters > 0 /\ Waiters \in Nat
  <2>1. Place(c) = 0
    BY <1>1, Arithmetic DEF Place
  <2>2. Waiters \in Nat
    BY LineFinite DEF IInv, LineCounted
  <2> QED BY <1>2, <2>1, <2>2 DEF IInv, LineInWindow, Place
<1>5. q \in Seq(CPU) /\ Len(q) = Waiters /\ Free(o) = 0
  BY <1>3, <1>4 DEF Abstracts, Free
<1>6. q # <<>>
  BY <1>4, <1>5, EmptySeq, SMTT(60)
<1>7. q[1] = c
  <2>1. 1 \in 1 .. Len(q)
    BY <1>4, <1>5
  <2>2. q[1] \in CPU /\ Queued(q[1]) /\ Place(q[1]) = 1 - 1 + Free(o)
    BY <2>1, QueueMember
  <2>3. Place(q[1]) = 0 /\ InLine(q[1])
    BY <1>5, <2>2 DEF InLine
  <2> QED BY <1>2, <1>4, <2>2, <2>3, PlacesDistinct
<1>8. c = Head(q)
  BY <1>5, <1>6, <1>7, HeadTailProperties
<1>9. /\ Tail(q) \in Seq(CPU) /\ Len(Tail(q)) = Len(q) - 1
      /\ \A i \in 1 .. Len(Tail(q)) : Tail(q)[i] = q[i + 1]
  BY <1>5, <1>6, HeadTailProperties
<1>10. now_serving' = now_serving /\ next_ticket' = next_ticket /\ ticket' = ticket
       /\ pc' = [pc EXCEPT ![c] = "held"]
  BY DEF acquire_load
<1>11. Waiters' = Waiters
  BY <1>10 DEF Waiters
<1>12. ASSUME NEW i \in 1 .. Len(Tail(q))
       PROVE  Queued(Tail(q)[i])' /\ Place(Tail(q)[i])' = i - 1 + 1
  <2>1. i + 1 \in 1 .. Len(q) /\ Tail(q)[i] = q[i + 1]
    BY <1>4, <1>5, <1>9
  <2>2. /\ q[i + 1] \in CPU /\ Queued(q[i + 1])
        /\ Place(q[i + 1]) = (i + 1) - 1 + Free(o)
    BY <2>1, QueueMember
  <2>3. Place(q[i + 1]) = i /\ i # 0
    BY <1>5, <2>2, SMTT(60)
  <2>4. q[i + 1] # c
    BY <1>4, <2>3
  <2>5. Queued(q[i + 1])' /\ Place(q[i + 1])' = Place(q[i + 1])
    BY <1>1, <1>10, <2>2, <2>4, SMTT(60) DEF Queued, Place
  <2> QED BY <2>1, <2>3, <2>5, SMTT(60)
<1>13. Free(c) = 1 /\ Owns(c)'
  BY <1>1, <1>10, CoreAssumption DEF Free, Owns
<1>14. Len(Tail(q)) = Waiters' - Free(c)
  BY <1>5, <1>9, <1>11, <1>13, SMTT(60)
<1>15. Abstracts(c, Tail(q))'
  BY <1>9, <1>12, <1>13, <1>14 DEF Abstracts
<1> QED BY <1>3, <1>6, <1>8, <1>15

(* A trylock succeeds only on a lock that nobody owns or awaits. *)
LEMMA TrylockGrants ==
    ASSUME IInv, NEW c \in CPU, trylock_succeed(c), NEW o, NEW q, Abstracts(o, q)
    PROVE  o = Nobody /\ q = <<>> /\ Abstracts(c, <<>>)'
<1>1. pc \in [CPU -> {"out", "spin", "wait", "held", "release", "try"}]
      /\ TypeOK
  BY DEF IInv, TypeOK
<1>2. issued[c] = 0 /\ Waiters <= issued[c]
  BY <1>1, Arithmetic, SMTT(60) DEF IInv, trylock_succeed, TrylockTracked, TypeOK
<1>3. ~InLine(c)
  BY SMTT(60) DEF trylock_succeed, InLine, Owns, Queued
<1>4. Waiters \in Nat /\ Waiters' = Waiters + 1
  BY <1>3, TakeWaiters DEF trylock_succeed
<1>5. Waiters = 0
  BY <1>2, <1>4
<1>6. q \in Seq(CPU) /\ Len(q) \in Nat /\ Len(q) = Waiters - Free(o) /\ Free(o) \in {0, 1}
  BY LenProperties DEF Abstracts, Free
<1>7. Len(q) = 0 /\ Free(o) = 0
  BY <1>5, <1>6
<1>8. q = <<>> /\ o = Nobody
  BY <1>6, <1>7, EmptySeq DEF Free
<1>9. Free(c) = 1 /\ Owns(c)'
  BY <1>1, CoreAssumption DEF Free, Owns, trylock_succeed
<1>10. << >> \in Seq(CPU) /\ Len(<< >>) = 0
  BY <1>6, <1>7, <1>8
<1>11. Len(<< >>) = Waiters' - Free(c)
  BY <1>4, <1>5, <1>9, <1>10
<1>12. Abstracts(c, << >>)'
  BY <1>9, <1>10, <1>11 DEF Abstracts
<1> QED BY <1>8, <1>12

(* The release frees the lock; every place moves up by one. *)
LEMMA StoreReleases ==
    ASSUME IInv, NEW c \in CPU, release_store(c), NEW o, NEW q, Abstracts(o, q)
    PROVE  o # Nobody /\ Abstracts(Nobody, q)'
<1>1. /\ now_serving \in Ticket /\ next_ticket \in Ticket
      /\ ticket \in [CPU -> Ticket]
      /\ pc \in [CPU -> {"out", "spin", "wait", "held", "release", "try"}]
  BY DEF IInv, TypeOK
<1>2. /\ Owns(c) /\ InLine(c) /\ ticket[c] = now_serving
      /\ now_serving' = Next16(now_serving)
      /\ ticket' = ticket /\ next_ticket' = next_ticket
      /\ pc' = [pc EXCEPT ![c] = "out"]
  BY DEF release_store, InLine, Owns, OwnerServed, IInv
<1>3. \A d \in CPU : InLine(d) /\ ticket[d] = now_serving => d = c
  BY <1>2 DEF IInv, TicketsDistinct
<1>4. o = c /\ o # Nobody /\ Free(o) = 1
  BY <1>2, <1>3, CoreAssumption DEF Abstracts, IInv, OwnerServed, InLine, Free
<1>5. Waiters \in Nat /\ Waiters' = Waiters - 1
  <2>1. Waiters > 0 /\ Waiters \in Nat
    BY <1>1, <1>2, Arithmetic DEF IInv, LineInWindow, Waiters, Ticket
  <2>2. now_serving # next_ticket
    BY <1>1, <2>1, Arithmetic DEF Waiters
  <2> QED BY <1>1, <1>2, <2>1, <2>2, Arithmetic, SMTT(60) DEF Waiters
<1>6. q \in Seq(CPU) /\ Len(q) \in Nat /\ Len(q) = Waiters - 1
  BY <1>4, LenProperties DEF Abstracts
<1>7. \A d \in CPU : ~Owns(d)'
  BY <1>1, <1>2, <1>3 DEF Owns, IInv, OwnerServed, InLine
<1>8. ASSUME NEW i \in 1 .. Len(q)
      PROVE  Queued(q[i])' /\ Place(q[i])' = i - 1
  <2>1. q[i] \in CPU /\ Queued(q[i]) /\ Place(q[i]) = i - 1 + Free(o)
    BY QueueMember, SMTT(60)
  <2>2. q[i] # c
    BY <1>2, <2>1, SMTT(60) DEF Owns, Queued
  <2>3. ticket[q[i]] # now_serving
    BY <1>3, <2>1, <2>2, SMTT(60) DEF InLine
  <2>4. Place(q[i])' = Place(q[i]) - 1
    BY <1>1, <1>2, <2>1, <2>3, Arithmetic, ZenonT(60) DEF Place
  <2>5. Queued(q[i])'
    BY <1>1, <1>2, <2>1, <2>2, SMTT(60) DEF Queued
  <2> QED BY <1>4, <2>1, <2>4, <2>5, SMTT(60)
<1>9. Free(Nobody) = 0
  BY SMTT(60) DEF Free
<1>10. Len(q) = Waiters' - Free(Nobody)
  BY <1>5, <1>6, <1>9
<1>11. \A i \in 1 .. Len(q) : Queued(q[i])' /\ Place(q[i])' = i - 1 + Free(Nobody)
  BY <1>6, <1>8, <1>9
<1>12. Abstracts(Nobody, q)'
  BY <1>6, <1>7, <1>10, <1>11 DEF Abstracts
<1> QED BY <1>4, <1>12

(* The other steps change neither the owner nor the queue. *)
LEMMA OthersStutter ==
    ASSUME UNCHANGED <<now_serving, next_ticket>>,
           \A d \in CPU : /\ Queued(d)' <=> Queued(d)
                          /\ Owns(d)' <=> Owns(d)
                          /\ Queued(d) => ticket'[d] = ticket[d],
           NEW o, NEW q, Abstracts(o, q)
    PROVE  Abstracts(o, q)'
<1>1. Waiters' = Waiters
  BY DEF Waiters
<1>2. q \in Seq(CPU) /\ Len(q) = Waiters' - Free(o)
  BY <1>1 DEF Abstracts
<1>3. (o = Nobody /\ \A c \in CPU : ~Owns(c)') \/ (o \in CPU /\ Owns(o)')
  BY DEF Abstracts
<1>4. ASSUME NEW i \in 1 .. Len(q)
      PROVE  Queued(q[i])' /\ Place(q[i])' = i - 1 + Free(o)
  <2>1. q[i] \in CPU /\ Queued(q[i]) /\ Place(q[i]) = i - 1 + Free(o)
    BY QueueMember
  <2> QED BY <2>1 DEF Place
<1> QED BY <1>2, <1>3, <1>4 DEF Abstracts

(* A step of the lock is a step of FifoLock or leaves it alone. *)
LEMMA StepRefines ==
    ASSUME IInv, IInv', [Next]_vars
    PROVE  [Fifo!Next]_(Fifo!vars)
<1>1. PICK o, q : o = Owner /\ q = Queue
  OBVIOUS
<1>2. Abstracts(o, q)
  BY <1>1, OwnerAndQueue
<1>3. pc \in [CPU -> {"out", "spin", "wait", "held", "release", "try"}]
      /\ ticket \in [CPU -> Ticket]
  BY DEF IInv, TypeOK
<1>4. ASSUME Abstracts(o, q)' PROVE UNCHANGED Fifo!vars
  <2>1. o = Owner' /\ q = Queue'
    BY <1>4, NextAbstractionUnique
  <2> QED BY <1>1, <2>1 DEF Fifo!vars
<1>5. CASE UNCHANGED vars
  <2>1. Abstracts(o, q)'
    BY <1>2, <1>5, OthersStutter DEF vars, Owns, Queued
  <2> QED BY <1>4, <2>1
<1>6. ASSUME NEW c \in CPU, acquire_take(c) PROVE Fifo!Next
  <2>1. /\ Abstracts(o, Append(q, c))'
        /\ o # c /\ \A i \in DOMAIN q : q[i] # c
    BY <1>2, <1>6, TakeRequests
  <2>2. o = Owner' /\ Append(q, c) = Queue'
    BY <2>1, NextAbstractionUnique, ZenonT(60)
  <2>3. Fifo!Request(c)
    BY <1>1, <2>1, <2>2 DEF Fifo!Request, Fifo!Waiting
  <2> QED BY <2>3 DEF Fifo!Next
<1>7. ASSUME NEW c \in CPU, acquire_load(c) PROVE [Fifo!Next]_(Fifo!vars)
  <2>1. CASE now_serving = ticket[c]
    <3>1. o = Nobody /\ q # <<>> /\ c = Head(q) /\ Abstracts(c, Tail(q))'
      BY <1>2, <1>7, <2>1, LoadGrants
    <3>2. c = Owner' /\ Tail(q) = Queue'
      BY <3>1, NextAbstractionUnique, ZenonT(60)
    <3>3. Fifo!Grant
      BY <1>1, <3>1, <3>2 DEF Fifo!Grant
    <3> QED BY <3>3 DEF Fifo!Next
  <2>2. CASE now_serving # ticket[c]
    <3>1. Abstracts(o, q)'
      BY <1>2, <1>3, <1>7, <2>2, OthersStutter DEF acquire_load, Owns, Queued
    <3> QED BY <1>4, <3>1
  <2> QED BY <2>1, <2>2
<1>8. ASSUME NEW c \in CPU, trylock_succeed(c) PROVE Fifo!Next
  <2>1. o = Nobody /\ q = <<>> /\ Abstracts(c, <<>>)'
    BY <1>2, <1>8, TrylockGrants
  <2>2. c = Owner' /\ << >> = Queue'
    BY <2>1, NextAbstractionUnique
  <2>3. Fifo!TryGrant(c)
    BY <1>1, <2>1, <2>2 DEF Fifo!TryGrant
  <2> QED BY <2>3 DEF Fifo!Next
<1>9. ASSUME NEW c \in CPU, release_store(c) PROVE Fifo!Next
  <2>1. o # Nobody /\ Abstracts(Nobody, q)'
    BY <1>2, <1>9, StoreReleases
  <2>2. Nobody = Owner' /\ q = Queue'
    BY <2>1, NextAbstractionUnique
  <2>3. Fifo!Release
    BY <1>1, <2>1, <2>2 DEF Fifo!Release
  <2> QED BY <2>3 DEF Fifo!Next
<1>10. ASSUME NEW c \in CPU,
              acquire_wake(c) \/ trylock_load(c) \/ trylock_fail(c) \/ release_load(c)
       PROVE  UNCHANGED Fifo!vars
  <2>1. Abstracts(o, q)'
    BY <1>2, <1>3, <1>10, OthersStutter
       DEF acquire_wake, trylock_load, trylock_fail, release_load, Owns, Queued
  <2> QED BY <1>4, <2>1
<1>11. CASE Next
  <2>1. PICK c \in CPU : acquire_take(c) \/ trylock_load(c) \/ Continue(c)
    BY <1>11 DEF Next
  <2> QED BY <2>1, <1>6, <1>7, <1>8, <1>9, <1>10, SMTT(60) DEF Continue
<1> QED BY <1>5, <1>11

LEMMA InitRefines == ASSUME Init PROVE Fifo!Init
<1>1. IInv
  BY InitInv
<1>2. Abstracts(Owner, Queue) /\ Waiters = 0 /\ \A c \in CPU : ~Owns(c)
  BY <1>1, OwnerAndQueue DEF Init, Owns, Waiters, After
<1>3. Owner = Nobody
  BY <1>2 DEF Owner
<1>4. Queue \in Seq(CPU) /\ Len(Queue) = 0
  BY <1>2, <1>3 DEF Abstracts, Free
<1> QED BY <1>3, <1>4, EmptySeq DEF Fifo!Init

(* The ticket lock implements FifoLock, for any number of cores: it grants  *)
(* the lock in the order of the atomic increments of next_ticket, and a     *)
(* trylock overtakes nobody.                                                *)
THEOREM LockIsFifo == Spec => ImplementsFifoLock
<1>1. Init => Fifo!Init
  BY InitRefines
<1>2. IInv /\ IInv' /\ [Next]_vars => [Fifo!Next]_(Fifo!vars)
  BY StepRefines
<1> QED
  BY <1>1, <1>2, Invariance, PTL DEF Spec, ImplementsFifoLock, Fifo!Spec
=============================================================================
