-------------------------- MODULE TimerQueueProofs --------------------------
(***************************************************************************)
(* The invariants of TimerQueue for any number of cores and timers, any    *)
(* length of the clock, and any number of calls and power transitions.     *)
(*                                                                         *)
(* A queue pointer agrees with the lists because a core that dequeues or   *)
(* updates a timer holds its lock from the load of the pointer on, and     *)
(* only the expiry loop may clear the pointer meanwhile (Locks, Pointers); *)
(* and because a queue that is being drained takes no timers (Draining).   *)
(* No timeout is lost because every step that changes the head of a list   *)
(* keeps tq->timeout that of its earliest timer, and the steps that make   *)
(* it earlier program the hardware timer or send an IPI (Timeouts, Armed). *)
(***************************************************************************)
EXTENDS TimerQueue, WellFoundedInduction, TLAPS

Label == {"run", "off", "dequeue", "update_dequeue", "update_enqueue", "panic_queued", "expired",
          "action", "suspended", "wait_online", "drain", "migrate", "panic_target", "warm"}

Queue == CPU \cup {None}

TypeOK ==
    /\ queue \in [Timer -> Queue]
    /\ timeout \in [Timer -> Timeout]
    /\ lock \in [Timer -> Queue]
    /\ list \in [CPU -> SUBSET Timer]
    /\ tq_timeout \in [CPU -> Timeout]
    /\ online \in [CPU -> BOOLEAN]
    /\ hw \in [CPU -> Timeout]
    /\ sync \in [CPU -> BOOLEAN]
    /\ now \in Tick
    /\ pc \in [CPU -> Label]
    /\ arg \in [CPU -> Timer \cup {None}]
    /\ old_tq \in [CPU -> Queue]
    /\ new_timeout \in [CPU -> Timeout]
    /\ nested \in [CPU -> BOOLEAN]
    /\ ticks \in [CPU -> Tick]
    /\ calls \in Nat

Locking == {"dequeue", "update_dequeue", "update_enqueue"}

\* A core in a call that takes two steps holds its timer's lock.
Locks ==
    \A c \in CPU :
       /\ pc[c] \in Locking => arg[c] \in Timer /\ lock[arg[c]] = c
       /\ nested[c] => pc[c] \in Locking

\* The queue that the call found the timer on is still the timer's, unless the
\* timer has expired meanwhile; and a timer to be enqueued is not queued.
Pointers ==
    \A c \in CPU :
       /\ pc[c] \in {"dequeue", "update_dequeue"} =>
             old_tq[c] \in CPU /\ queue[arg[c]] \in {old_tq[c], None}
       /\ pc[c] \in {"update_dequeue", "update_enqueue"} => new_timeout[c] \in Tick
       /\ pc[c] = "update_enqueue" => queue[arg[c]] = None
       /\ pc[c] # "panic_queued"

\* A queue that is being drained is offline; the timer being moved is on no
\* list of its core, and a core powers off with an empty list.
Draining ==
    \A c \in CPU :
       /\ pc[c] \in {"off", "drain", "migrate", "panic_target"} => ~online[c]
       /\ pc[c] \in {"migrate", "panic_target"} => arg[c] \in Timer /\ arg[c] \notin list[c]
       /\ pc[c] = "off" => list[c] = {}

\* A timer that is queued has a timeout that the clock can reach.
Timeouts ==
    /\ \A t \in Timer : queue[t] # None => timeout[t] \in Tick
    /\ \A c \in CPU : tq_timeout[c] = Earliest(list[c], timeout)

\* NoLostTimeout for a core that is coming up as well.
Armed ==
    \A c \in CPU :
       pc[c] \notin {"off", "drain", "migrate", "panic_target"} =>
          hw[c] <= tq_timeout[c] \/ Looking(c)

IInv == TypeOK /\ Locks /\ Pointers /\ Draining /\ ListedWhereQueued /\ Timeouts /\ Armed

-----------------------------------------------------------------------------
(* The earliest timeout of a list                                          *)

\* What the assumptions say of the constants: every tick is before Invalid.
LEMMA Constants ==
    /\ BootCpu \in CPU /\ None \notin CPU /\ None \notin Timer /\ Functional \subseteq CPU
    /\ Tick \subseteq Timeout /\ Timeout \subseteq Nat
    /\ Invalid \in Timeout /\ Invalid \notin Tick /\ 0 \in Tick
    /\ \A v \in Tick : v < Invalid
    /\ \A v \in Timeout : v <= Invalid
    BY TimerAssumption, SMTT(60) DEF CPU, Tick, Timeout, Invalid

\* The labels and queue pointers that the actions assign.
LEMMA LabelType ==
    /\ "run" \in Label /\ "off" \in Label /\ "dequeue" \in Label /\ "update_dequeue" \in Label
    /\ "update_enqueue" \in Label /\ "panic_queued" \in Label /\ "expired" \in Label
    /\ "action" \in Label /\ "suspended" \in Label /\ "wait_online" \in Label
    /\ "drain" \in Label /\ "migrate" \in Label /\ "panic_target" \in Label /\ "warm" \in Label
    /\ None \in Queue /\ CPU \subseteq Queue
    BY DEF Label, Queue

\* The naturals are well-ordered.
LEMMA NatMin ==
    ASSUME NEW S, S \subseteq Nat, S # {}
    PROVE  \E x \in S : \A y \in S : x <= y
<1> DEFINE R == {p \in Nat \X Nat : p[1] < p[2]}
<1>1. IsWellFoundedOn(R, Nat)
    BY NatLessThanWellFounded DEF OpToRel
<1>2. PICK x \in S : \A y \in S : ~ (<<y, x>> \in R)
    <2> HIDE DEF R
    <2> QED
        BY <1>1, WFMin, ZenonT(60)
<1>3. \A y \in S : x <= y
    <2> TAKE y \in S
    <2>1. ~ (<<y, x>> \in R) /\ x \in Nat /\ y \in Nat
        BY <1>2
    <2> QED
        BY <2>1, SMTT(60)
<1> QED
    BY <1>3

\* A list that is not empty has a head, and Earliest is its timeout.
LEMMA EarliestIs ==
    ASSUME NEW s \in SUBSET Timer, NEW to \in [Timer -> Timeout]
    PROVE  /\ Earliest(s, to) \in Timeout
           /\ s = {} => Earliest(s, to) = Invalid
           /\ s # {} => \E t \in s : Earliest(s, to) = to[t] /\ \A u \in s : to[t] <= to[u]
<1>1. CASE s = {}
    BY <1>1, Constants, ZenonT(60) DEF Earliest
<1>2. CASE s # {}
    <2> DEFINE S == {to[t] : t \in s}
    <2>1. S \subseteq Nat /\ S # {}
        BY <1>2, Constants, ZenonT(60)
    <2>2. PICK x \in S : \A y \in S : x <= y
        <3> HIDE DEF S
        <3> QED
            BY <2>1, NatMin, ZenonT(60)
    <2>3. \E t \in s : \A u \in s : to[t] <= to[u]
        BY <2>2, ZenonT(60)
    <2> DEFINE m == CHOOSE t \in s : \A u \in s : to[t] <= to[u]
    <2>4. m \in s /\ \A u \in s : to[m] <= to[u]
        BY <2>3, ZenonT(60)
    <2>5. Earliest(s, to) = to[m]
        BY <1>2, ZenonT(60) DEF Earliest
    <2>6. to[m] \in Timeout
        BY <2>4
    <2> QED
        BY <1>2, <2>4, <2>5, <2>6, ZenonT(60)
<1> QED
    BY <1>1, <1>2

\* A listed timer with the least timeout gives the timeout of the list.
LEMMA EarliestOf ==
    ASSUME NEW s \in SUBSET Timer, NEW to \in [Timer -> Timeout], NEW t \in s,
           \A u \in s : to[t] <= to[u]
    PROVE  Earliest(s, to) = to[t]
<1>1. PICK m \in s : Earliest(s, to) = to[m] /\ \A u \in s : to[m] <= to[u]
    BY EarliestIs, ZenonT(60)
<1>2. to[m] <= to[t] /\ to[t] <= to[m] /\ to[m] \in Nat /\ to[t] \in Nat
    BY <1>1, Constants, ZenonT(60)
<1> QED
    BY <1>1, <1>2, SMTT(60)

\* Timeouts are naturals, so they can be compared.
LEMMA TimeoutNat ==
    ASSUME NEW to \in [Timer -> Timeout]
    PROVE  \A t \in Timer : to[t] \in Nat
    BY Constants, ZenonT(60)

\* No listed timer is earlier than the timeout of the list.
LEMMA EarliestLeast ==
    ASSUME NEW s \in SUBSET Timer, NEW to \in [Timer -> Timeout]
    PROVE  \A u \in s : Earliest(s, to) <= to[u]
    BY EarliestIs, ZenonT(60)

\* Timeouts of timers that are not listed do not matter.
LEMMA EarliestSame ==
    ASSUME NEW s \in SUBSET Timer, NEW to \in [Timer -> Timeout], NEW too \in [Timer -> Timeout],
           \A u \in s : too[u] = to[u]
    PROVE  Earliest(s, too) = Earliest(s, to)
<1>1. CASE s = {}
    BY <1>1, EarliestIs, ZenonT(60)
<1>2. CASE s # {}
    <2>1. PICK m \in s : Earliest(s, to) = to[m] /\ \A u \in s : to[m] <= to[u]
        BY <1>2, EarliestIs, ZenonT(60)
    <2>2. \A u \in s : too[m] <= too[u]
        BY <2>1, ZenonT(60)
    <2> QED
        BY <2>1, <2>2, EarliestOf, ZenonT(60)
<1> QED
    BY <1>1, <1>2

\* Removing a timer does not make the earliest timeout earlier, and leaves it
\* alone if another timer is at the head.
LEMMA EarliestRemove ==
    ASSUME NEW s \in SUBSET Timer, NEW to \in [Timer -> Timeout], NEW t
    PROVE  /\ Earliest(s, to) <= Earliest(s \ {t}, to)
           /\ \A h \in Heads(s, to) : h # t => Earliest(s \ {t}, to) = Earliest(s, to)
<1> DEFINE r == s \ {t}
<1>0. r \in SUBSET Timer
    OBVIOUS
<1>1. Earliest(s, to) <= Earliest(r, to)
    <2>1. CASE r = {}
        <3>1. Earliest(r, to) = Invalid /\ Earliest(s, to) \in Timeout
            BY <1>0, <2>1, EarliestIs, ZenonT(60)
        <3> QED
            BY <3>1, Constants, ZenonT(60)
    <2>2. CASE r # {}
        <3>1. PICK m \in r : Earliest(r, to) = to[m]
            BY <1>0, <2>2, EarliestIs, ZenonT(60)
        <3> QED
            BY <3>1, EarliestLeast, ZenonT(60)
    <2> QED
        BY <2>1, <2>2
<1>2. ASSUME NEW h \in Heads(s, to), h # t
      PROVE  Earliest(r, to) = Earliest(s, to)
    <2>1. h \in s /\ h \in r /\ (\A u \in s : to[h] <= to[u]) /\ (\A u \in r : to[h] <= to[u])
        BY <1>2, ZenonT(60) DEF Heads
    <2>2. Earliest(s, to) = to[h]
        BY <2>1, EarliestOf, ZenonT(60)
    <2>3. Earliest(r, to) = to[h]
        <3> HIDE DEF r
        <3> QED
            BY <1>0, <2>1, EarliestOf, ZenonT(60)
    <2> QED
        BY <2>2, <2>3
<1> QED
    BY <1>1, <1>2

\* A timer that is inserted becomes the head exactly as list_insert_in_order
\* says: its timeout is then the earliest, and otherwise that does not change.
LEMMA EarliestInsert ==
    ASSUME NEW s \in SUBSET Timer, NEW to \in [Timer -> Timeout], NEW t \in Timer, t \notin s
    PROVE  Earliest(s \cup {t}, to) =
              IF BecomesHead(s, to, to[t]) THEN to[t] ELSE Earliest(s, to)
<1> DEFINE r == s \cup {t}
<1>0. r \in SUBSET Timer /\ t \in r
    OBVIOUS
<1>1. CASE BecomesHead(s, to, to[t])
    <2>1. \A u \in r : to[t] <= to[u]
        BY <1>1, TimeoutNat, SMTT(60) DEF BecomesHead
    <2>2. Earliest(r, to) = to[t]
        <3> HIDE DEF r
        <3> QED
            BY <1>0, <2>1, EarliestOf, ZenonT(60)
    <2> QED
        BY <1>1, <2>2, ZenonT(60)
<1>2. CASE ~ BecomesHead(s, to, to[t])
    <2>1. PICK u \in s : ~ (to[t] < to[u])
        BY <1>2, ZenonT(60) DEF BecomesHead
    <2>2. PICK m \in s : Earliest(s, to) = to[m] /\ \A w \in s : to[m] <= to[w]
        BY <2>1, EarliestIs, ZenonT(60)
    <2>3. m \in r /\ \A w \in r : to[m] <= to[w]
        BY <2>1, <2>2, TimeoutNat, SMTT(60)
    <2>4. Earliest(r, to) = to[m]
        <3> HIDE DEF r
        <3> QED
            BY <1>0, <2>3, EarliestOf, ZenonT(60)
    <2> QED
        BY <1>2, <2>2, <2>4, ZenonT(60)
<1> QED
    BY <1>1, <1>2

-----------------------------------------------------------------------------
(* What the operations on lists do                                         *)

\* What removing a timer from a list does to the queue of core q.
LEMMA UnlistEffect ==
    ASSUME TypeOK, Timeouts, NEW q \in CPU, NEW t, NEW h \in HeadOf(q), Unlist(q, t, h)
    PROVE  /\ list' \in [CPU -> SUBSET Timer] /\ tq_timeout' \in [CPU -> Timeout]
           /\ list'[q] = list[q] \ {t}
           /\ \A d \in CPU \ {q} : list'[d] = list[d] /\ tq_timeout'[d] = tq_timeout[d]
           /\ tq_timeout'[q] = Earliest(list[q] \ {t}, timeout)
           /\ tq_timeout[q] <= tq_timeout'[q]
           /\ ~HeadChanged(q, t, h) => tq_timeout'[q] = tq_timeout[q]
<1> DEFINE e == Earliest(list[q] \ {t}, timeout)
           n == IF list[q] \ {t} = {} THEN Invalid ELSE IF t = h THEN e ELSE tq_timeout[q]
<1>1. list[q] \in SUBSET Timer /\ list[q] \ {t} \in SUBSET Timer /\ timeout \in [Timer -> Timeout]
    BY DEF TypeOK
<1>2. tq_timeout[q] = Earliest(list[q], timeout)
    BY DEF Timeouts
<1>3. e \in Timeout /\ tq_timeout[q] <= e
    <2> HIDE DEF e
    <2>1. e \in Timeout
        BY <1>1, EarliestIs, ZenonT(60) DEF e
    <2>2. tq_timeout[q] <= e
        BY <1>1, <1>2, EarliestRemove, ZenonT(60) DEF e
    <2> QED
        BY <2>1, <2>2
<1>4. n = e
    <2>1. CASE list[q] \ {t} = {}
        BY <1>1, <2>1, EarliestIs, ZenonT(60)
    <2>2. CASE list[q] \ {t} # {} /\ t # h
        <3>1. h \in Heads(list[q], timeout)
            BY <2>2, ZenonT(60) DEF HeadOf
        <3>2. e = Earliest(list[q], timeout)
            BY <1>1, <2>2, <3>1, EarliestRemove, ZenonT(60)
        <3> QED
            BY <1>2, <2>2, <3>2, ZenonT(60)
    <2>3. CASE list[q] \ {t} # {} /\ t = h
        BY <2>3, ZenonT(60)
    <2> QED
        BY <2>1, <2>2, <2>3
<1>5. tq_timeout' = [tq_timeout EXCEPT ![q] = n] /\ list' = [list EXCEPT ![q] = @ \ {t}]
    BY DEF Unlist
<1>6. tq_timeout' = [tq_timeout EXCEPT ![q] = e]
    BY <1>4, <1>5, ZenonT(60)
<1>7. ~HeadChanged(q, t, h) => e = tq_timeout[q]
    BY <1>4, ZenonT(60) DEF HeadChanged
<1> HIDE DEF e, n
<1>8. /\ tq_timeout' \in [CPU -> Timeout] /\ tq_timeout'[q] = e
      /\ \A d \in CPU \ {q} : tq_timeout'[d] = tq_timeout[d]
    BY <1>3, <1>6, SMTT(60) DEF TypeOK
<1>9. /\ list' \in [CPU -> SUBSET Timer] /\ list'[q] = list[q] \ {t}
      /\ \A d \in CPU \ {q} : list'[d] = list[d]
    BY <1>5, SMTT(60) DEF TypeOK
<1> QED
    BY <1>3, <1>7, <1>8, <1>9, ZenonT(60) DEF e

\* A list that gets a timer t with timeout v: tq->timeout follows if the caller
\* sets it as timer_enqueue_internal does.
LEMMA ListInsert ==
    ASSUME TypeOK, Timeouts, NEW c \in CPU, NEW t \in Timer, NEW v \in Timeout,
           \A d \in CPU : t \notin list[d],
           timeout' = [timeout EXCEPT ![t] = v],
           list' = [list EXCEPT ![c] = @ \cup {t}],
           tq_timeout' = IF BecomesHead(list[c], timeout, v) THEN [tq_timeout EXCEPT ![c] = v]
                         ELSE tq_timeout
    PROVE  /\ timeout' \in [Timer -> Timeout] /\ list' \in [CPU -> SUBSET Timer]
           /\ tq_timeout' \in [CPU -> Timeout]
           /\ timeout'[t] = v /\ \A u \in Timer \ {t} : timeout'[u] = timeout[u]
           /\ list'[c] = list[c] \cup {t} /\ \A d \in CPU \ {c} : list'[d] = list[d]
           /\ \A d \in CPU : tq_timeout'[d] = Earliest(list'[d], timeout')
           /\ \A d \in CPU \ {c} : tq_timeout'[d] = tq_timeout[d]
           /\ IF BecomesHead(list[c], timeout, v) THEN tq_timeout'[c] = v
                                                  ELSE tq_timeout'[c] = tq_timeout[c]
<1>1. /\ timeout' \in [Timer -> Timeout]
      /\ timeout'[t] = v /\ \A u \in Timer \ {t} : timeout'[u] = timeout[u]
    BY ZenonT(60) DEF TypeOK
<1>2. /\ list' \in [CPU -> SUBSET Timer]
      /\ list'[c] = list[c] \cup {t} /\ \A d \in CPU \ {c} : list'[d] = list[d]
    BY SMTT(60) DEF TypeOK
<1>3. /\ tq_timeout' \in [CPU -> Timeout]
      /\ \A d \in CPU \ {c} : tq_timeout'[d] = tq_timeout[d]
      /\ IF BecomesHead(list[c], timeout, v) THEN tq_timeout'[c] = v
                                             ELSE tq_timeout'[c] = tq_timeout[c]
    <2>1. CASE BecomesHead(list[c], timeout, v)
        BY <2>1, ZenonT(60) DEF TypeOK
    <2>2. CASE ~BecomesHead(list[c], timeout, v)
        BY <2>2, ZenonT(60) DEF TypeOK
    <2> QED
        BY <2>1, <2>2
<1>4. \A d \in CPU : list[d] \in SUBSET Timer /\ \A u \in list[d] : timeout'[u] = timeout[u]
    BY <1>1, SMTT(60) DEF TypeOK
<1>5. \A d \in CPU : Earliest(list[d], timeout') = tq_timeout[d]
    BY <1>1, <1>4, EarliestSame, ZenonT(60) DEF TypeOK, Timeouts
<1>6. BecomesHead(list[c], timeout', timeout'[t]) <=> BecomesHead(list[c], timeout, v)
    BY <1>1, <1>4, ZenonT(60) DEF BecomesHead
<1>7. Earliest(list[c] \cup {t}, timeout') =
         IF BecomesHead(list[c], timeout', timeout'[t]) THEN timeout'[t]
         ELSE Earliest(list[c], timeout')
    BY <1>1, <1>4, EarliestInsert, ZenonT(60)
<1>8. tq_timeout'[c] = Earliest(list'[c], timeout')
    BY <1>1, <1>2, <1>3, <1>5, <1>6, <1>7, ZenonT(60)
<1>9. \A d \in CPU \ {c} : tq_timeout'[d] = Earliest(list'[d], timeout')
    BY <1>2, <1>3, <1>5, ZenonT(60)
<1> QED
    BY <1>1, <1>2, <1>3, <1>8, <1>9, ZenonT(60)

\* What timer_enqueue_internal does to the queues and the hardware timer.
LEMMA EnqueueEffect ==
    ASSUME TypeOK, Timeouts, NEW c \in CPU, NEW t \in Timer, NEW v \in Tick,
           \A d \in CPU : t \notin list[d], EnqueueInternal(c, t, v)
    PROVE  /\ queue' \in [Timer -> Queue] /\ timeout' \in [Timer -> Timeout]
           /\ list' \in [CPU -> SUBSET Timer] /\ tq_timeout' \in [CPU -> Timeout]
           /\ hw' \in [CPU -> Timeout]
           /\ queue'[t] = c /\ \A u \in Timer \ {t} : queue'[u] = queue[u]
           /\ timeout'[t] = v /\ \A u \in Timer \ {t} : timeout'[u] = timeout[u]
           /\ list'[c] = list[c] \cup {t} /\ \A d \in CPU \ {c} : list'[d] = list[d]
           /\ \A d \in CPU : tq_timeout'[d] = Earliest(list'[d], timeout')
           /\ \A d \in CPU \ {c} : tq_timeout'[d] = tq_timeout[d] /\ hw'[d] = hw[d]
           /\ \/ hw'[c] = tq_timeout'[c]
              \/ hw'[c] = hw[c] /\ tq_timeout'[c] = tq_timeout[c]
<1>1. /\ timeout' = [timeout EXCEPT ![t] = v] /\ list' = [list EXCEPT ![c] = @ \cup {t}]
      /\ tq_timeout' = IF BecomesHead(list[c], timeout, v) THEN [tq_timeout EXCEPT ![c] = v]
                       ELSE tq_timeout
    BY ZenonT(60) DEF EnqueueInternal
<1>2. v \in Timeout
    BY Constants, ZenonT(60)
<1>3. /\ timeout' \in [Timer -> Timeout] /\ list' \in [CPU -> SUBSET Timer]
      /\ tq_timeout' \in [CPU -> Timeout]
      /\ timeout'[t] = v /\ \A u \in Timer \ {t} : timeout'[u] = timeout[u]
      /\ list'[c] = list[c] \cup {t} /\ \A d \in CPU \ {c} : list'[d] = list[d]
      /\ \A d \in CPU : tq_timeout'[d] = Earliest(list'[d], timeout')
      /\ \A d \in CPU \ {c} : tq_timeout'[d] = tq_timeout[d]
      /\ IF BecomesHead(list[c], timeout, v) THEN tq_timeout'[c] = v
                                             ELSE tq_timeout'[c] = tq_timeout[c]
    BY <1>1, <1>2, ListInsert, ZenonT(60)
<1>4. /\ queue' \in [Timer -> Queue]
      /\ queue'[t] = c /\ \A u \in Timer \ {t} : queue'[u] = queue[u]
    BY LabelType, ZenonT(60) DEF EnqueueInternal, TypeOK
<1>5. /\ hw' \in [CPU -> Timeout] /\ \A d \in CPU \ {c} : hw'[d] = hw[d]
      /\ IF BecomesHead(list[c], timeout, v) THEN hw'[c] = v ELSE hw'[c] = hw[c]
    <2>1. CASE BecomesHead(list[c], timeout, v)
        BY <1>2, <2>1, ZenonT(60) DEF TypeOK, EnqueueInternal
    <2>2. CASE ~BecomesHead(list[c], timeout, v)
        BY <2>2, ZenonT(60) DEF TypeOK, EnqueueInternal
    <2> QED
        BY <2>1, <2>2
<1> QED
    BY <1>3, <1>4, <1>5, ZenonT(60)

\* timer_update_internal leaves the timer on the list; if it keeps tq->timeout,
\* another timer is at the head before and after.
LEMMA UpdateEffect ==
    ASSUME TypeOK, Timeouts, NEW c \in CPU, NEW t \in list[c], NEW v \in Tick,
           \A d \in CPU \ {c} : t \notin list[d], NEW h \in HeadOf(c), UpdateInternal(c, t, v, h)
    PROVE  /\ timeout' \in [Timer -> Timeout] /\ tq_timeout' \in [CPU -> Timeout]
           /\ hw' \in [CPU -> Timeout] /\ list' = list
           /\ timeout'[t] = v /\ \A u \in Timer \ {t} : timeout'[u] = timeout[u]
           /\ \A d \in CPU : tq_timeout'[d] = Earliest(list'[d], timeout')
           /\ \A d \in CPU \ {c} : tq_timeout'[d] = tq_timeout[d] /\ hw'[d] = hw[d]
           /\ \/ hw'[c] = tq_timeout'[c]
              \/ hw'[c] = hw[c] /\ tq_timeout'[c] = tq_timeout[c]
<1> DEFINE rest == list[c] \ {t}
           to   == [timeout EXCEPT ![t] = v]
           e    == Earliest(list[c], to)
<1>0. /\ t \in Timer /\ v \in Timeout /\ list[c] \in SUBSET Timer
      /\ timeout \in [Timer -> Timeout]
    BY Constants, ZenonT(60) DEF TypeOK
<1>1. /\ to \in [Timer -> Timeout] /\ to[t] = v
      /\ \A u \in Timer \ {t} : to[u] = timeout[u]
    BY <1>0, ZenonT(60)
<1>2. rest \cup {t} = list[c] /\ \A u \in rest : u \in Timer \ {t} /\ u \in list[c]
    BY <1>0, ZenonT(60)
<1>3. timeout' = to /\ list' = [list EXCEPT ![c] = list[c]]
    BY <1>2, ZenonT(60) DEF UpdateInternal
<1>4. list' = list
    BY <1>3, SMTT(60) DEF TypeOK
<1>5. \A d \in CPU \ {c} : list[d] \in SUBSET Timer /\ \A u \in list[d] : to[u] = timeout[u]
    <2> TAKE d \in CPU \ {c}
    <2>1. list[d] \in SUBSET Timer /\ t \notin list[d]
        BY DEF TypeOK
    <2> QED
        BY <1>1, <2>1, ZenonT(60)
<1>6. \A d \in CPU \ {c} : Earliest(list[d], to) = tq_timeout[d]
    <2> TAKE d \in CPU \ {c}
    <2>1. tq_timeout[d] = Earliest(list[d], timeout)
        BY DEF Timeouts
    <2>2. Earliest(list[d], to) = Earliest(list[d], timeout)
        <3> HIDE DEF to
        <3> QED
            BY <1>0, <1>1, <1>5, EarliestSame, ZenonT(60)
    <2> QED
        BY <2>1, <2>2
<1>7. e \in Timeout
    <2> HIDE DEF to
    <2> QED
        BY <1>0, <1>1, EarliestIs, ZenonT(60)
<1>8. CASE timeout[t] # v /\ ((t = h /\ rest # {}) \/ BecomesHead(rest, timeout, v))
    <2>1. tq_timeout' = [tq_timeout EXCEPT ![c] = e] /\ hw' = [hw EXCEPT ![c] = e]
        BY <1>2, <1>8, ZenonT(60) DEF UpdateInternal
    <2> HIDE DEF e
    <2>2. /\ tq_timeout' \in [CPU -> Timeout] /\ hw' \in [CPU -> Timeout]
          /\ tq_timeout'[c] = e /\ hw'[c] = e
          /\ \A d \in CPU \ {c} : tq_timeout'[d] = tq_timeout[d] /\ hw'[d] = hw[d]
        BY <1>7, <2>1, ZenonT(60) DEF TypeOK
    <2>3. \A d \in CPU : tq_timeout'[d] = Earliest(list'[d], timeout')
        BY <1>3, <1>4, <1>6, <2>2, ZenonT(60) DEF e
    <2> QED
        BY <1>1, <1>3, <1>4, <2>2, <2>3, ZenonT(60)
<1>9. CASE ~ (timeout[t] # v /\ ((t = h /\ rest # {}) \/ BecomesHead(rest, timeout, v)))
    <2>1. UNCHANGED <<tq_timeout, hw>>
        BY <1>9, ZenonT(60) DEF UpdateInternal
    <2>2. e = tq_timeout[c]
        <3>0. tq_timeout[c] = Earliest(list[c], timeout)
            BY DEF Timeouts
        <3>1. CASE timeout[t] = v
            <4>1. to = timeout
                BY <1>0, <1>1, <3>1, ZenonT(60)
            <4> QED
                BY <3>0, <4>1, ZenonT(60)
        <3>2. CASE timeout[t] # v
            <4>1. PICK u \in rest : ~ (v < timeout[u])
                BY <1>9, <3>2, ZenonT(60) DEF BecomesHead
            <4>2. t # h
                BY <1>9, <3>2, <4>1, ZenonT(60)
            <4>3. h \in list[c] /\ \A w \in list[c] : timeout[h] <= timeout[w]
                BY ZenonT(60) DEF HeadOf, Heads
            <4>4. tq_timeout[c] = timeout[h]
                BY <1>0, <3>0, <4>3, EarliestOf, ZenonT(60)
            <4>5. to[h] = timeout[h]
                BY <1>0, <1>1, <4>2, <4>3, ZenonT(60)
            <4>6. timeout[h] <= v
                <5>1. timeout[h] <= timeout[u] /\ timeout[h] \in Nat /\ timeout[u] \in Nat /\ v \in Nat
                    BY <1>0, <1>2, <4>1, <4>3, Constants, ZenonT(60)
                <5> QED
                    BY <4>1, <5>1, SMTT(60)
            <4>7. \A w \in list[c] : to[h] <= to[w]
                BY <1>0, <1>1, <4>3, <4>5, <4>6, ZenonT(60)
            <4>8. e = to[h]
                <5> HIDE DEF to
                <5> QED
                    BY <1>0, <1>1, <4>3, <4>7, EarliestOf, ZenonT(60)
            <4> QED
                BY <4>4, <4>5, <4>8
        <3> QED
            BY <3>1, <3>2
    <2> HIDE DEF e
    <2>3. \A d \in CPU : tq_timeout'[d] = Earliest(list'[d], timeout')
        BY <1>3, <1>4, <1>6, <2>1, <2>2, ZenonT(60) DEF e
    <2>4. tq_timeout \in [CPU -> Timeout] /\ hw \in [CPU -> Timeout]
        BY DEF TypeOK
    <2> QED
        BY <1>1, <1>3, <1>4, <2>1, <2>3, <2>4, ZenonT(60)
<1> QED
    BY <1>8, <1>9

-----------------------------------------------------------------------------
(* Facts about a single state                                              *)

\* A timer without a queue is on no list.
LEMMA Unlisted ==
    ASSUME ListedWhereQueued, NEW t \in Timer, queue[t] = None
    PROVE  \A d \in CPU : t \notin list[d]
    BY Constants, ZenonT(60) DEF ListedWhereQueued

\* A timer is on no list but that of its queue.
LEMMA OneList ==
    ASSUME ListedWhereQueued, NEW c \in CPU, NEW t \in Timer, queue[t] = c
    PROVE  \A d \in CPU \ {c} : t \notin list[d]
    BY ZenonT(60) DEF ListedWhereQueued

\* tq->timeout is TIMER_INVALID_TIMEOUT exactly while the list is empty.
LEMMA EmptyList ==
    ASSUME TypeOK, ListedWhereQueued, Timeouts, NEW c \in CPU
    PROVE  tq_timeout[c] = Invalid <=> list[c] = {}
<1>1. list[c] \in SUBSET Timer /\ timeout \in [Timer -> Timeout]
    BY DEF TypeOK
<1>2. tq_timeout[c] = Earliest(list[c], timeout)
    BY DEF Timeouts
<1>3. ASSUME list[c] # {}
      PROVE  tq_timeout[c] # Invalid
    <2>1. PICK t \in list[c] : tq_timeout[c] = timeout[t]
        BY <1>1, <1>2, <1>3, EarliestIs, ZenonT(60)
    <2>2. queue[t] # None
        BY <1>1, Constants, ZenonT(60) DEF ListedWhereQueued
    <2> QED
        BY <1>1, <2>1, <2>2, Constants, ZenonT(60) DEF Timeouts
<1> QED
    BY <1>1, <1>2, <1>3, EarliestIs, ZenonT(60)

\* While it is not, the head of the list is a timer of this queue.
LEMMA HeadTimer ==
    ASSUME TypeOK, ListedWhereQueued, Timeouts, NEW c \in CPU, tq_timeout[c] # Invalid,
           NEW h \in HeadOf(c)
    PROVE  h \in list[c] /\ h \in Timer /\ queue[h] = c
<1>1. list[c] # {}
    BY EmptyList
<1>2. h \in list[c] /\ list[c] \in SUBSET Timer
    BY <1>1, ZenonT(60) DEF HeadOf, Heads, TypeOK
<1> QED
    BY <1>2, ZenonT(60) DEF ListedWhereQueued

\* A queue whose timeout has been reached has one.
LEMMA NotDue ==
    ASSUME TypeOK, NEW c \in CPU, tq_timeout[c] <= ticks[c]
    PROVE  tq_timeout[c] # Invalid
    BY TimerAssumption, SMTT(60) DEF TypeOK, Tick, Timeout, Invalid

-----------------------------------------------------------------------------
(* Types                                                                   *)

\* Returning from an operation keeps the types of the locals.
LEMMA ReturnType ==
    ASSUME TypeOK, NEW c \in CPU, Return(c)
    PROVE  /\ pc' \in [CPU -> Label] /\ arg' \in [CPU -> Timer \cup {None}]
           /\ old_tq' \in [CPU -> Queue] /\ new_timeout' \in [CPU -> Timeout]
           /\ nested' \in [CPU -> BOOLEAN]
<1>1. nested' \in [CPU -> BOOLEAN]
    BY ZenonT(60) DEF TypeOK, Return
<1>2. pc' \in [CPU -> Label]
    BY LabelType, ZenonT(60) DEF TypeOK, Return
<1>3. arg' \in [CPU -> Timer \cup {None}] /\ old_tq' \in [CPU -> Queue]
    BY LabelType, ZenonT(60) DEF TypeOK, Return
<1>4. new_timeout' \in [CPU -> Timeout]
    BY Constants, ZenonT(60) DEF TypeOK, Return
<1> QED
    BY <1>1, <1>2, <1>3, <1>4

\* Every step preserves the types.
LEMMA TypeNext ==
    ASSUME IInv, [Next]_vars
    PROVE  TypeOK'
<1> USE DEF timers, queues, local, bounds, IInv
<1>1. CASE UNCHANGED vars
    BY <1>1, ZenonT(60) DEF TypeOK, vars
<1>2. CASE tick
    <2>1. now' \in Tick
        BY <1>2, TimerAssumption, SMTT(60) DEF tick, TypeOK, Tick
    <2> QED
        BY <1>2, <2>1, ZenonT(60) DEF tick, TypeOK
<1>3. ASSUME NEW c \in CPU, NEW t \in Timer, NEW v \in Tick,
             timer_enqueue(c, t, v) \/ timer_update_local(c, t, v)
      PROVE  TypeOK'
    <2>1. calls' \in Nat /\ Return(c) /\ UNCHANGED <<lock, online, sync, now, ticks>>
        BY <1>3, SMTT(60) DEF timer_enqueue, timer_update_local, Begin, TypeOK
    <2>2. /\ queue' \in [Timer -> Queue] /\ timeout' \in [Timer -> Timeout]
          /\ list' \in [CPU -> SUBSET Timer] /\ tq_timeout' \in [CPU -> Timeout]
          /\ hw' \in [CPU -> Timeout]
        <3>1. CASE queue[t] = None
            <4>1. EnqueueInternal(c, t, v)
                BY <1>3, <3>1, Constants, ZenonT(60) DEF timer_enqueue, timer_update_local
            <4> QED
                BY <3>1, <4>1, Unlisted, EnqueueEffect
        <3>2. CASE queue[t] # None
            <4>1. /\ queue[t] = c /\ UNCHANGED queue
                  /\ \E h \in HeadOf(c) : UpdateInternal(c, t, v, h)
                  /\ pc[c] \in {"run", "action"}
                BY <1>3, <3>2, ZenonT(60) DEF timer_enqueue, timer_update_local, Begin
            <4>2. pc[c] \notin {"migrate", "panic_target"}
                BY <4>1, SMTT(60)
            <4>3. t \in list[c]
                BY <4>1, <4>2, ZenonT(60) DEF ListedWhereQueued, Migrating
            <4>4. PICK h \in HeadOf(c) : UpdateInternal(c, t, v, h)
                BY <4>1
            <4>5. \A d \in CPU \ {c} : t \notin list[d]
                BY <4>1, OneList
            <4>6. queue' \in [Timer -> Queue] /\ list \in [CPU -> SUBSET Timer]
                BY <4>1 DEF TypeOK
            <4> QED
                BY <4>3, <4>4, <4>5, <4>6, UpdateEffect
        <3> QED
            BY <3>1, <3>2
    <2> QED
        BY <2>1, <2>2, ReturnType, ZenonT(60) DEF TypeOK
<1>4. ASSUME NEW c \in CPU, NEW t \in Timer, timer_dequeue(c, t)
      PROVE  TypeOK'
    <2>1. calls' \in Nat
        BY <1>4, SMTT(60) DEF timer_dequeue, Begin, TypeOK
    <2>2. CASE queue[t] = None
        BY <1>4, <2>1, <2>2, ReturnType, ZenonT(60) DEF timer_dequeue, TypeOK
    <2>3. CASE queue[t] # None
        <3>1. /\ nested' \in [CPU -> BOOLEAN] /\ pc' \in [CPU -> Label]
              /\ arg' \in [CPU -> Timer \cup {None}] /\ lock' \in [Timer -> Queue]
            <4>1. /\ nested' = [nested EXCEPT ![c] = pc[c] = "action"]
                  /\ pc' = [pc EXCEPT ![c] = "dequeue"]
                  /\ arg' = [arg EXCEPT ![c] = t] /\ lock' = [lock EXCEPT ![t] = c]
                BY <1>4, <2>3, ZenonT(60) DEF timer_dequeue
            <4> QED
                BY <4>1, LabelType, ZenonT(60) DEF TypeOK
        <3>2. old_tq' \in [CPU -> Queue] /\ new_timeout' \in [CPU -> Timeout]
            <4>1. old_tq' = [old_tq EXCEPT ![c] = queue[t]] /\ UNCHANGED new_timeout
                BY <1>4, <2>3, ZenonT(60) DEF timer_dequeue
            <4>2. queue[t] \in Queue
                BY ZenonT(60) DEF TypeOK
            <4> QED
                BY <4>1, <4>2, ZenonT(60) DEF TypeOK
        <3>3. UNCHANGED <<queue, timeout, list, tq_timeout, online, hw, sync, now, ticks>>
            BY <1>4, ZenonT(60) DEF timer_dequeue, queues
        <3> QED
            BY <2>1, <3>1, <3>2, <3>3, ZenonT(60) DEF TypeOK
    <2> QED
        BY <2>2, <2>3
<1>5. ASSUME NEW c \in CPU, dequeue_finish(c)
      PROVE  TypeOK'
    <2>1. pc[c] = "dequeue" /\ old_tq[c] \in CPU
        BY <1>5, SMTT(60) DEF dequeue_finish, Pointers
    <2>2. PICK h \in HeadOf(old_tq[c]) :
             /\ Unlist(old_tq[c], arg[c], h)
             /\ hw' = [hw EXCEPT ![c] = IF old_tq[c] = c /\ HeadChanged(old_tq[c], arg[c], h)
                                          THEN tq_timeout'[c] ELSE @]
        BY <1>5, ZenonT(60) DEF dequeue_finish
    <2>3. list' \in [CPU -> SUBSET Timer] /\ tq_timeout' \in [CPU -> Timeout]
        BY <2>1, <2>2, UnlistEffect, ZenonT(60)
    <2>4. hw' \in [CPU -> Timeout]
        BY <2>2, <2>3, ZenonT(60) DEF TypeOK
    <2>5. queue' \in [Timer -> Queue] /\ lock' \in [Timer -> Queue] /\ Return(c)
        BY <1>5, LabelType, ZenonT(60) DEF TypeOK, dequeue_finish
    <2> QED
        BY <1>5, <2>3, <2>4, <2>5, ReturnType, ZenonT(60) DEF TypeOK, dequeue_finish
<1>6. ASSUME NEW c \in CPU, NEW t \in Timer, NEW v \in Tick, timer_update_remote(c, t, v)
      PROVE  TypeOK'
    <2>1. calls' \in Nat
        BY <1>6, SMTT(60) DEF timer_update_remote, Begin, TypeOK
    <2>2. /\ nested' \in [CPU -> BOOLEAN] /\ pc' \in [CPU -> Label]
          /\ arg' \in [CPU -> Timer \cup {None}] /\ lock' \in [Timer -> Queue]
        BY <1>6, LabelType, ZenonT(60) DEF timer_update_remote, TypeOK
    <2>3. old_tq' \in [CPU -> Queue] /\ new_timeout' \in [CPU -> Timeout]
        BY <1>6, Constants, ZenonT(60) DEF timer_update_remote, TypeOK
    <2> QED
        BY <1>6, <2>1, <2>2, <2>3, ZenonT(60) DEF timer_update_remote, TypeOK
<1>7. ASSUME NEW c \in CPU, update_dequeue(c)
      PROVE  TypeOK'
    <2>1. pc[c] = "update_dequeue" /\ old_tq[c] \in CPU
        BY <1>7, SMTT(60) DEF update_dequeue, Pointers
    <2>2. list' \in [CPU -> SUBSET Timer] /\ tq_timeout' \in [CPU -> Timeout]
        BY <1>7, <2>1, UnlistEffect, ZenonT(60) DEF update_dequeue
    <2>3. queue' \in [Timer -> Queue] /\ pc' \in [CPU -> Label]
        BY <1>7, LabelType, ZenonT(60) DEF TypeOK, update_dequeue
    <2> QED
        BY <1>7, <2>2, <2>3, ZenonT(60) DEF TypeOK, update_dequeue
<1>8. ASSUME NEW c \in CPU, update_enqueue(c)
      PROVE  TypeOK'
    <2>1. /\ pc[c] = "update_enqueue" /\ arg[c] \in Timer /\ queue[arg[c]] = None
          /\ new_timeout[c] \in Tick
        BY <1>8, SMTT(60) DEF update_enqueue, Pointers, Locks, Locking
    <2>2. EnqueueInternal(c, arg[c], new_timeout[c]) /\ Return(c)
        BY <1>8, <2>1, ZenonT(60) DEF update_enqueue
    <2>3. /\ queue' \in [Timer -> Queue] /\ timeout' \in [Timer -> Timeout]
          /\ list' \in [CPU -> SUBSET Timer] /\ tq_timeout' \in [CPU -> Timeout]
          /\ hw' \in [CPU -> Timeout]
        BY <2>1, <2>2, Unlisted, EnqueueEffect, SMTT(60)
    <2>4. lock' \in [Timer -> Queue]
        BY <1>8, <2>1, LabelType, ZenonT(60) DEF update_enqueue, TypeOK
    <2> QED
        BY <1>8, <2>2, <2>3, <2>4, ReturnType, ZenonT(60) DEF update_enqueue, TypeOK
<1>9. ASSUME NEW c \in CPU, platform_timer_expiry(c) \/ ipi_received(c) \/ power_cpu_resume(c)
      PROVE  TypeOK'
    <2>1. ticks' \in [CPU -> Tick] /\ pc' \in [CPU -> Label] /\ sync' \in [CPU -> BOOLEAN]
        BY <1>9, LabelType, ZenonT(60) DEF TypeOK, platform_timer_expiry, ipi_received,
            power_cpu_resume, DequeueExpired
    <2> QED
        BY <1>9, <2>1, ZenonT(60) DEF TypeOK, platform_timer_expiry, ipi_received,
            power_cpu_resume, DequeueExpired
<1>10. ASSUME NEW c \in CPU, expired_next(c)
      PROVE  TypeOK'
    <2>1. CASE tq_timeout[c] <= ticks[c]
        <3>1. PICK h \in HeadOf(c) :
                 /\ Unlist(c, h, h) /\ queue' = [queue EXCEPT ![h] = None]
                 /\ arg' = [arg EXCEPT ![c] = h] /\ pc' = [pc EXCEPT ![c] = "action"]
            BY <1>10, <2>1, ZenonT(60) DEF expired_next
        <3>2. h \in Timer
            BY <2>1, NotDue, HeadTimer
        <3>3. list' \in [CPU -> SUBSET Timer] /\ tq_timeout' \in [CPU -> Timeout]
            BY <3>1, UnlistEffect, ZenonT(60)
        <3>4. queue' \in [Timer -> Queue] /\ pc' \in [CPU -> Label] /\ arg' \in [CPU -> Timer \cup {None}]
            BY <3>1, <3>2, LabelType, ZenonT(60) DEF TypeOK
        <3>5. UNCHANGED <<hw, ticks, timeout, lock, online, sync, now, old_tq, new_timeout, nested, calls>>
            BY <1>10, <2>1, ZenonT(60) DEF expired_next
        <3> QED
            BY <3>3, <3>4, <3>5, ZenonT(60) DEF TypeOK
    <2>2. CASE ~ (tq_timeout[c] <= ticks[c])
        <3>1. hw' \in [CPU -> Timeout] /\ pc' \in [CPU -> Label] /\ ticks' \in [CPU -> Tick]
            <4>1. /\ hw' = [hw EXCEPT ![c] = tq_timeout[c]] /\ pc' = [pc EXCEPT ![c] = "run"]
                  /\ ticks' = [ticks EXCEPT ![c] = 0]
                BY <1>10, <2>2, ZenonT(60) DEF expired_next
            <4>2. 0 \in Tick
                BY Constants
            <4> QED
                BY <4>1, <4>2, LabelType, ZenonT(60) DEF TypeOK
        <3> QED
            BY <1>10, <2>2, <3>1, ZenonT(60) DEF expired_next, TypeOK
    <2> QED
        BY <2>1, <2>2
<1>11. ASSUME NEW c \in CPU, action_return(c)
      PROVE  TypeOK'
    BY <1>11, ReturnType, ZenonT(60) DEF action_return, TypeOK
<1>12. ASSUME NEW c \in CPU, power_cpu_suspend(c) \/ idle_yield(c) \/ count_online(c)
      PROVE  TypeOK'
    BY <1>12, LabelType, ZenonT(60) DEF power_cpu_suspend, idle_yield, count_online, TypeOK
<1>13. ASSUME NEW c \in CPU, power_cpu_offline(c) \/ power_cpu_online(c)
      PROVE  TypeOK'
    <2>1. /\ online' \in [CPU -> BOOLEAN] /\ hw' \in [CPU -> Timeout] /\ pc' \in [CPU -> Label]
        <3>1. Invalid \in Timeout
            BY Constants
        <3>2. CASE power_cpu_offline(c)
            BY <3>1, <3>2, LabelType, ZenonT(60) DEF power_cpu_offline, TypeOK
        <3>3. CASE power_cpu_online(c)
            BY <3>3, LabelType, ZenonT(60) DEF power_cpu_online, TypeOK
        <3> QED
            BY <1>13, <3>2, <3>3
    <2> QED
        BY <1>13, <2>1, ZenonT(60) DEF power_cpu_offline, power_cpu_online, TypeOK
<1>14. ASSUME NEW c \in CPU, offline_next(c)
      PROVE  TypeOK'
    <2>0. UNCHANGED <<hw, ticks, queue, timeout, lock, online, sync, now, old_tq, new_timeout, nested, calls>>
        BY <1>14, ZenonT(60) DEF offline_next
    <2>1. CASE tq_timeout[c] # Invalid
        <3>1. PICK h \in HeadOf(c) :
                 /\ Unlist(c, h, h)
                 /\ arg' = [arg EXCEPT ![c] = h] /\ pc' = [pc EXCEPT ![c] = "migrate"]
            BY <1>14, <2>1, ZenonT(60) DEF offline_next
        <3>2. h \in Timer
            BY <2>1, HeadTimer
        <3>3. list' \in [CPU -> SUBSET Timer] /\ tq_timeout' \in [CPU -> Timeout]
            BY <3>1, UnlistEffect, ZenonT(60)
        <3>4. pc' \in [CPU -> Label] /\ arg' \in [CPU -> Timer \cup {None}]
            BY <3>1, <3>2, LabelType, ZenonT(60) DEF TypeOK
        <3> QED
            BY <2>0, <3>3, <3>4, ZenonT(60) DEF TypeOK
    <2>2. CASE ~ (tq_timeout[c] # Invalid)
        <3>1. pc' \in [CPU -> Label] /\ arg' \in [CPU -> Timer \cup {None}] /\ UNCHANGED <<list, tq_timeout>>
            BY <1>14, <2>2, LabelType, ZenonT(60) DEF offline_next, TypeOK
        <3> QED
            BY <2>0, <3>1, ZenonT(60) DEF TypeOK
    <2> QED
        BY <2>1, <2>2
<1>15. ASSUME NEW c \in CPU, try_move_to_cpu(c)
      PROVE  TypeOK'
    <2>0. UNCHANGED <<timeout, lock, online, hw, now, arg, old_tq, new_timeout, nested, ticks, calls>>
        BY <1>15, ZenonT(60) DEF try_move_to_cpu
    <2>1. pc' \in [CPU -> Label]
        BY <1>15, LabelType, ZenonT(60) DEF try_move_to_cpu, TypeOK
    <2>2. CASE CanTake(target[c]) /\ queue[arg[c]] = c
        <3>1. target[c] \in CPU /\ arg[c] \in Timer
            BY <1>15, <2>2, Constants, SMTT(60) DEF CanTake, try_move_to_cpu, Draining
        <3>2. Insert(c, arg[c], target[c])
            BY <1>15, <2>2, ZenonT(60) DEF try_move_to_cpu
        <3>3. queue' \in [Timer -> Queue] /\ sync' \in [CPU -> BOOLEAN] /\ tq_timeout' \in [CPU -> Timeout]
            BY <2>2, <3>1, <3>2, LabelType, ZenonT(60) DEF Insert, TypeOK
        <3>4. list' \in [CPU -> SUBSET Timer]
            BY <2>2, <3>1, <3>2, SMTT(60) DEF Insert, TypeOK
        <3> QED
            BY <2>0, <2>1, <3>3, <3>4, ZenonT(60) DEF TypeOK
    <2>3. CASE ~ (CanTake(target[c]) /\ queue[arg[c]] = c)
        <3>1. UNCHANGED <<queue, list, tq_timeout, sync>>
            BY <1>15, <2>3, ZenonT(60) DEF try_move_to_cpu, Insert
        <3> QED
            BY <2>0, <2>1, <3>1, ZenonT(60) DEF TypeOK
    <2> QED
        BY <2>2, <2>3
<1> QED
    BY <1>1, <1>2, <1>3, <1>4, <1>5, <1>6, <1>7, <1>8, <1>9, <1>10, <1>11, <1>12, <1>13, <1>14,
       <1>15, ZenonT(60) DEF Next, Step, Call

-----------------------------------------------------------------------------
(* What a step of core c must do for each part of the invariant: what the  *)
(* part says of the other cores follows from how little the step changes   *)
(* of theirs.                                                              *)

Others(c) ==
    \A d \in CPU \ {c} :
       /\ pc'[d] = pc[d] /\ arg'[d] = arg[d] /\ old_tq'[d] = old_tq[d]
       /\ new_timeout'[d] = new_timeout[d] /\ (nested'[d] <=> nested[d])

Closed == {"off", "drain", "migrate", "panic_target"}

\* A step of core c that respects the locks of the others preserves Locks.
LEMMA LocksKept ==
    ASSUME Locks, NEW c \in CPU, Others(c),
           \A u \in Timer : lock[u] \notin {None, c} => lock'[u] = lock[u],
           pc'[c] \in Locking => arg'[c] \in Timer /\ lock'[arg'[c]] = c,
           nested'[c] => pc'[c] \in Locking
    PROVE  Locks'
<1>1. ASSUME NEW d \in CPU \ {c}
      PROVE  /\ pc'[d] \in Locking => arg'[d] \in Timer /\ lock'[arg'[d]] = d
             /\ nested'[d] => pc'[d] \in Locking
    <2>1. pc'[d] = pc[d] /\ arg'[d] = arg[d] /\ (nested'[d] <=> nested[d])
        BY SMTT(60) DEF Others
    <2>2. /\ pc[d] \in Locking => arg[d] \in Timer /\ lock[arg[d]] = d
          /\ nested[d] => pc[d] \in Locking
        BY DEF Locks
    <2>3. d \notin {None, c}
        BY Constants, ZenonT(60)
    <2> QED
        BY <2>1, <2>2, <2>3, ZenonT(60)
<1> QED
    BY <1>1, ZenonT(60) DEF Locks

\* A step of core c preserves Pointers if it only empties the queue pointers of timers that
\* others hold.
LEMMA PointersKept ==
    ASSUME Locks, Pointers, NEW c \in CPU, Others(c),
           \A u \in Timer : lock[u] \notin {None, c} => queue'[u] \in {queue[u], None},
           pc'[c] \in {"dequeue", "update_dequeue"} =>
              old_tq'[c] \in CPU /\ queue'[arg'[c]] \in {old_tq'[c], None},
           pc'[c] \in {"update_dequeue", "update_enqueue"} => new_timeout'[c] \in Tick,
           pc'[c] = "update_enqueue" => queue'[arg'[c]] = None,
           pc'[c] # "panic_queued"
    PROVE  Pointers'
<1>1. ASSUME NEW d \in CPU \ {c}
      PROVE  /\ pc'[d] \in {"dequeue", "update_dequeue"} =>
                   old_tq'[d] \in CPU /\ queue'[arg'[d]] \in {old_tq'[d], None}
             /\ pc'[d] \in {"update_dequeue", "update_enqueue"} => new_timeout'[d] \in Tick
             /\ pc'[d] = "update_enqueue" => queue'[arg'[d]] = None
             /\ pc'[d] # "panic_queued"
    <2>1. /\ pc'[d] = pc[d] /\ arg'[d] = arg[d] /\ old_tq'[d] = old_tq[d]
          /\ new_timeout'[d] = new_timeout[d]
        BY DEF Others
    <2>2. /\ pc[d] \in {"dequeue", "update_dequeue"} =>
                old_tq[d] \in CPU /\ queue[arg[d]] \in {old_tq[d], None}
          /\ pc[d] \in {"update_dequeue", "update_enqueue"} => new_timeout[d] \in Tick
          /\ pc[d] = "update_enqueue" => queue[arg[d]] = None
          /\ pc[d] # "panic_queued"
        BY SMTT(60) DEF Pointers
    <2>3. d \notin {None, c}
        BY Constants, ZenonT(60)
    <2>4. pc[d] \in Locking => queue'[arg[d]] \in {queue[arg[d]], None}
        BY <2>3, ZenonT(60) DEF Locks
    <2>5. /\ pc[d] \in {"dequeue", "update_dequeue"} => pc[d] \in Locking
          /\ pc[d] = "update_enqueue" => pc[d] \in Locking
        BY ZenonT(60) DEF Locking
    <2> QED
        BY <2>1, <2>2, <2>4, <2>5, ZenonT(60)
<1> QED
    BY <1>1, ZenonT(60) DEF Pointers

\* A step of core c preserves Draining if it adds nothing to the lists of cores that are
\* offline.
LEMMA DrainingKept ==
    ASSUME Draining, NEW c \in CPU, Others(c),
           \A d \in CPU \ {c} : online'[d] <=> online[d],
           \A d \in CPU \ {c} : ~online[d] => list'[d] \subseteq list[d],
           pc'[c] \in {"off", "drain", "migrate", "panic_target"} => ~online'[c],
           pc'[c] \in {"migrate", "panic_target"} => arg'[c] \in Timer /\ arg'[c] \notin list'[c],
           pc'[c] = "off" => list'[c] = {}
    PROVE  Draining'
<1>1. ASSUME NEW d \in CPU \ {c}
      PROVE  /\ pc'[d] \in {"off", "drain", "migrate", "panic_target"} => ~online'[d]
             /\ pc'[d] \in {"migrate", "panic_target"} => arg'[d] \in Timer /\ arg'[d] \notin list'[d]
             /\ pc'[d] = "off" => list'[d] = {}
    <2>1. pc'[d] = pc[d] /\ arg'[d] = arg[d]
        BY DEF Others
    <2>2. /\ pc[d] \in {"off", "drain", "migrate", "panic_target"} => ~online[d]
          /\ pc[d] \in {"migrate", "panic_target"} => arg[d] \in Timer /\ arg[d] \notin list[d]
          /\ pc[d] = "off" => list[d] = {}
        BY DEF Draining
    <2>3. pc[d] \in {"off", "drain", "migrate", "panic_target"} => list'[d] \subseteq list[d]
        BY <2>2, ZenonT(60)
    <2> QED
        BY <2>1, <2>2, <2>3, ZenonT(60)
<1> QED
    BY <1>1, ZenonT(60) DEF Draining

\* A step that takes timer t from or to a list.
LEMMA ListedKept ==
    ASSUME ListedWhereQueued, Draining', NEW c \in CPU, Others(c), NEW t \in Timer,
           \A u \in Timer \ {t} : queue'[u] = queue[u],
           \A u \in Timer \ {t}, d \in CPU : u \in list'[d] <=> u \in list[d],
           \A u \in Timer \ {t} : Migrating(c, u) => Migrating(c, u)',
           \A d \in CPU : t \in list'[d] => queue'[t] = d,
           \A d \in CPU : queue'[t] = d => t \in list'[d] \/ Migrating(d, t)'
    PROVE  ListedWhereQueued'
<1>1. \A u \in Timer, d \in CPU : u \in list'[d] => pc'[d] # "off"
    BY ZenonT(60) DEF Draining
<1>2. ASSUME NEW u \in Timer \ {t}, NEW d \in CPU
      PROVE  /\ u \in list'[d] => queue'[u] = d
             /\ queue'[u] = d => u \in list'[d] \/ Migrating(d, u)'
    <2>1. /\ u \in list[d] => queue[u] = d
          /\ queue[u] = d => u \in list[d] \/ Migrating(d, u)
        BY ZenonT(60) DEF ListedWhereQueued
    <2>2. Migrating(d, u) => Migrating(d, u)'
        BY ZenonT(60) DEF Migrating, Others
    <2> QED
        BY <2>1, <2>2, ZenonT(60)
<1>3. ASSUME NEW u \in Timer, NEW d \in CPU
      PROVE  /\ u \in list'[d] => queue'[u] = d
             /\ queue'[u] = d => u \in list'[d] \/ Migrating(d, u)'
    <2>1. CASE u = t
        BY <2>1, ZenonT(60)
    <2>2. CASE u # t
        BY <1>2, <2>2, ZenonT(60)
    <2> QED
        BY <2>1, <2>2
<1> QED
    BY <1>1, <1>3, ZenonT(60) DEF ListedWhereQueued

\* A step that moves no timer preserves ListedWhereQueued.
LEMMA ListedSame ==
    ASSUME ListedWhereQueued, Draining', NEW c \in CPU, Others(c), UNCHANGED <<queue, list>>,
           \A u \in Timer : Migrating(c, u) => Migrating(c, u)'
    PROVE  ListedWhereQueued'
<1>1. \A u \in Timer, d \in CPU : u \in list'[d] => pc'[d] # "off"
    BY ZenonT(60) DEF Draining
<1>2. \A u \in Timer, d \in CPU : Migrating(d, u) => Migrating(d, u)'
    BY ZenonT(60) DEF Migrating, Others
<1> QED
    BY <1>1, <1>2, ZenonT(60) DEF ListedWhereQueued

\* A step of core c preserves Armed if it makes no other core's timeout earlier without a
\* request to reprogram.
LEMMA ArmedKept ==
    ASSUME TypeOK, TypeOK', Armed, NEW c \in CPU, Others(c),
           \A d \in CPU \ {c} : hw'[d] = hw[d] /\ (sync[d] => sync'[d]),
           \A d \in CPU \ {c} : tq_timeout[d] <= tq_timeout'[d] \/ sync'[d],
           pc'[c] \notin Closed => hw'[c] <= tq_timeout'[c] \/ Looking(c)'
    PROVE  Armed'
<1>1. ASSUME NEW d \in CPU \ {c}, pc'[d] \notin Closed
      PROVE  hw'[d] <= tq_timeout'[d] \/ Looking(d)'
    <2>1. pc'[d] = pc[d] /\ (nested'[d] <=> nested[d])
        BY DEF Others
    <2>2. hw[d] <= tq_timeout[d] \/ Looking(d)
        BY <1>1, <2>1, ZenonT(60) DEF Armed, Closed
    <2>3. Looking(d) => Looking(d)'
        BY <2>1, ZenonT(60) DEF Looking
    <2>4. sync'[d] => Looking(d)'
        BY DEF Looking
    <2>5. hw[d] \in Nat /\ tq_timeout[d] \in Nat /\ tq_timeout'[d] \in Nat /\ hw'[d] = hw[d]
        BY Constants, ZenonT(60) DEF TypeOK
    <2>6. tq_timeout[d] <= tq_timeout'[d] /\ hw[d] <= tq_timeout[d] => hw'[d] <= tq_timeout'[d]
        BY <2>5, SMTT(60)
    <2> QED
        BY <2>2, <2>3, <2>4, <2>6, ZenonT(60)
<1> QED
    BY <1>1, ZenonT(60) DEF Armed, Closed

\* A timeout that stays is no earlier than it was.
LEMMA SameTimeout ==
    ASSUME TypeOK
    PROVE  \A d \in CPU : tq_timeout[d] <= tq_timeout[d]
<1>1. \A d \in CPU : tq_timeout[d] \in Nat
    BY Constants, ZenonT(60) DEF TypeOK
<1> QED
    BY <1>1, SMTT(60)

\* Returning from an operation: where core c goes on, and that the others stay where they
\* are.
LEMMA ReturnFrame ==
    ASSUME TypeOK, NEW c \in CPU, Return(c)
    PROVE  /\ Others(c)
           /\ pc'[c] = IF pc[c] = "action" \/ nested[c] THEN "expired" ELSE "run"
           /\ ~nested'[c]
           /\ pc'[c] \notin Locking /\ pc'[c] \notin Closed /\ pc'[c] # "panic_queued"
<1>1. /\ pc'[c] = IF pc[c] = "action" \/ nested[c] THEN "expired" ELSE "run"
      /\ \A d \in CPU \ {c} : pc'[d] = pc[d]
    BY ZenonT(60) DEF Return, TypeOK
<1>2. /\ ~nested'[c]
      /\ \A d \in CPU \ {c} : nested'[d] <=> nested[d]
    BY ZenonT(60) DEF Return, TypeOK
<1>3. \A d \in CPU \ {c} : arg'[d] = arg[d] /\ old_tq'[d] = old_tq[d] /\ new_timeout'[d] = new_timeout[d]
    BY ZenonT(60) DEF Return, TypeOK
<1>4. pc'[c] = "expired" \/ pc'[c] = "run"
    BY <1>1, ZenonT(60)
<1>5. pc'[c] \notin Locking /\ pc'[c] \notin Closed /\ pc'[c] # "panic_queued"
    BY <1>4, SMTT(60) DEF Locking, Closed
<1> QED
    BY <1>1, <1>2, <1>3, <1>5, ZenonT(60) DEF Others

-----------------------------------------------------------------------------
(* The steps that change a list                                            *)

Safe == Locks /\ Pointers /\ Draining /\ ListedWhereQueued /\ Timeouts /\ Armed

\* timer_enqueue_internal on the caller's own queue, at the end of a call.
LEMMA EnqueueStep ==
    ASSUME IInv, TypeOK', NEW c \in CPU, NEW t \in Timer, NEW v \in Tick,
           pc[c] \in {"run", "action", "update_enqueue"}, queue[t] = None,
           EnqueueInternal(c, t, v), Return(c), UNCHANGED <<online, sync>>,
           lock[t] \in {None, c}, \A u \in Timer \ {t} : lock'[u] = lock[u]
    PROVE  Safe'
<1> USE DEF IInv
<1>0. /\ queue'[t] = c /\ \A u \in Timer \ {t} : queue'[u] = queue[u]
      /\ timeout'[t] = v /\ \A u \in Timer \ {t} : timeout'[u] = timeout[u]
      /\ list'[c] = list[c] \cup {t} /\ \A d \in CPU \ {c} : list'[d] = list[d]
      /\ \A d \in CPU : tq_timeout'[d] = Earliest(list'[d], timeout')
      /\ \A d \in CPU \ {c} : tq_timeout'[d] = tq_timeout[d] /\ hw'[d] = hw[d]
      /\ \/ hw'[c] = tq_timeout'[c]
         \/ hw'[c] = hw[c] /\ tq_timeout'[c] = tq_timeout[c]
    BY Unlisted, EnqueueEffect, SMTT(60)
<1>1. /\ Others(c)
      /\ pc'[c] = IF pc[c] = "action" \/ nested[c] THEN "expired" ELSE "run"
      /\ ~nested'[c]
      /\ pc'[c] \notin Locking /\ pc'[c] \notin Closed /\ pc'[c] # "panic_queued"
    BY ReturnFrame
<1>2. \A u \in Timer : lock[u] \notin {None, c} => u # t
    BY ZenonT(60)
<1>3. Locks'
    BY <1>1, <1>2, LocksKept, ZenonT(60)
<1>4. Pointers'
    <2>1. pc'[c] \notin {"dequeue", "update_dequeue", "update_enqueue"}
        BY <1>1 DEF Locking
    <2>2. \A u \in Timer : lock[u] \notin {None, c} => queue'[u] \in {queue[u], None}
        BY <1>0, <1>2, ZenonT(60)
    <2> QED
        BY <1>1, <2>1, <2>2, PointersKept, ZenonT(60)
<1>5. Draining'
    <2>1. pc'[c] \notin {"off", "drain", "migrate", "panic_target"}
        BY <1>1 DEF Closed
    <2>2. \A d \in CPU \ {c} : online'[d] <=> online[d]
        OBVIOUS
    <2>3. \A d \in CPU \ {c} : ~online[d] => list'[d] \subseteq list[d]
        BY <1>0, ZenonT(60)
    <2> QED
        BY <1>1, <2>1, <2>2, <2>3, DrainingKept, ZenonT(60)
<1>6. ListedWhereQueued'
    <2>0. \A d \in CPU : t \notin list[d]
        BY Unlisted
    <2>1. \A u \in Timer \ {t}, d \in CPU : u \in list'[d] <=> u \in list[d]
        BY <1>0, ZenonT(60)
    <2>2. \A u \in Timer : ~Migrating(c, u)
        BY SMTT(60) DEF Migrating
    <2>3. \A d \in CPU : t \in list'[d] => queue'[t] = d
        BY <1>0, <2>0, ZenonT(60)
    <2>4. \A d \in CPU : queue'[t] = d => t \in list'[d]
        BY <1>0, ZenonT(60)
    <2> QED
        BY <1>0, <1>1, <1>5, <2>1, <2>2, <2>3, <2>4, ListedKept, ZenonT(60)
<1>7. Timeouts'
    BY <1>0, ZenonT(60) DEF Timeouts
<1>8. Armed'
    <2>1. \A d \in CPU \ {c} : tq_timeout[d] <= tq_timeout'[d]
        BY <1>0, SameTimeout, ZenonT(60)
    <2>2. hw'[c] <= tq_timeout'[c] \/ Looking(c)'
        <3>1. CASE hw'[c] = tq_timeout'[c]
            <4>1. hw'[c] \in Nat
                BY Constants, ZenonT(60) DEF TypeOK
            <4> QED
                BY <3>1, <4>1, SMTT(60)
        <3>2. CASE hw'[c] = hw[c] /\ tq_timeout'[c] = tq_timeout[c]
            <4>1. pc[c] \notin {"off", "drain", "migrate", "panic_target"} /\ pc[c] # "expired"
                BY SMTT(60)
            <4>2. hw[c] <= tq_timeout[c] \/ Looking(c)
                BY <4>1, ZenonT(60) DEF Armed
            <4>3. Looking(c) => Looking(c)'
                BY <1>1, <4>1, ZenonT(60) DEF Looking
            <4> QED
                BY <3>2, <4>2, <4>3, ZenonT(60)
        <3> QED
            BY <1>0, <3>1, <3>2, SMTT(60)
    <2>3. \A d \in CPU \ {c} : hw'[d] = hw[d] /\ (sync[d] => sync'[d])
        BY <1>0, ZenonT(60)
    <2> QED
        BY <1>1, <2>1, <2>2, <2>3, ArmedKept, ZenonT(60)
<1> QED
    BY <1>3, <1>4, <1>5, <1>6, <1>7, <1>8, ZenonT(60) DEF Safe

\* timer_update_internal on the caller's own queue.
LEMMA UpdateStep ==
    ASSUME IInv, TypeOK', NEW c \in CPU, NEW t \in Timer, NEW v \in Tick,
           pc[c] \in {"run", "action"}, queue[t] = c, NEW h \in HeadOf(c),
           UpdateInternal(c, t, v, h), Return(c), UNCHANGED <<queue, online, sync, lock>>
    PROVE  Safe'
<1> USE DEF IInv
<1>9. \A u \in Timer : ~Migrating(c, u)
    BY SMTT(60) DEF Migrating
<1>10. t \in list[c]
    BY <1>9, ZenonT(60) DEF ListedWhereQueued
<1>0. /\ list' = list
      /\ timeout'[t] = v /\ \A u \in Timer \ {t} : timeout'[u] = timeout[u]
      /\ \A d \in CPU : tq_timeout'[d] = Earliest(list'[d], timeout')
      /\ \A d \in CPU \ {c} : tq_timeout'[d] = tq_timeout[d] /\ hw'[d] = hw[d]
      /\ \/ hw'[c] = tq_timeout'[c]
         \/ hw'[c] = hw[c] /\ tq_timeout'[c] = tq_timeout[c]
    BY <1>10, OneList, UpdateEffect, SMTT(60)
<1>1. /\ Others(c)
      /\ pc'[c] = IF pc[c] = "action" \/ nested[c] THEN "expired" ELSE "run"
      /\ ~nested'[c]
      /\ pc'[c] \notin Locking /\ pc'[c] \notin Closed /\ pc'[c] # "panic_queued"
    BY ReturnFrame
<1>3. Locks'
    BY <1>1, LocksKept, ZenonT(60)
<1>4. Pointers'
    <2>1. pc'[c] \notin {"dequeue", "update_dequeue", "update_enqueue"}
        BY <1>1 DEF Locking
    <2> QED
        BY <1>1, <2>1, PointersKept, ZenonT(60)
<1>5. Draining'
    <2>1. pc'[c] \notin {"off", "drain", "migrate", "panic_target"}
        BY <1>1 DEF Closed
    <2>2. \A d \in CPU \ {c} : online'[d] <=> online[d]
        OBVIOUS
    <2>3. \A d \in CPU \ {c} : ~online[d] => list'[d] \subseteq list[d]
        BY <1>0, ZenonT(60)
    <2> QED
        BY <1>1, <2>1, <2>2, <2>3, DrainingKept, ZenonT(60)
<1>6. ListedWhereQueued'
    BY <1>0, <1>1, <1>5, <1>9, ListedSame, ZenonT(60)
<1>7. Timeouts'
    BY <1>0, ZenonT(60) DEF Timeouts
<1>8. Armed'
    <2>1. \A d \in CPU \ {c} : tq_timeout[d] <= tq_timeout'[d]
        BY <1>0, SameTimeout, ZenonT(60)
    <2>2. hw'[c] <= tq_timeout'[c] \/ Looking(c)'
        <3>1. CASE hw'[c] = tq_timeout'[c]
            <4>1. hw'[c] \in Nat
                BY Constants, ZenonT(60) DEF TypeOK
            <4> QED
                BY <3>1, <4>1, SMTT(60)
        <3>2. CASE hw'[c] = hw[c] /\ tq_timeout'[c] = tq_timeout[c]
            <4>1. pc[c] \notin {"off", "drain", "migrate", "panic_target"} /\ pc[c] # "expired"
                BY SMTT(60)
            <4>2. hw[c] <= tq_timeout[c] \/ Looking(c)
                BY <4>1, ZenonT(60) DEF Armed
            <4>3. Looking(c) => Looking(c)'
                BY <1>1, <4>1, ZenonT(60) DEF Looking
            <4> QED
                BY <3>2, <4>2, <4>3, ZenonT(60)
        <3> QED
            BY <1>0, <3>1, <3>2, SMTT(60)
    <2>3. \A d \in CPU \ {c} : hw'[d] = hw[d] /\ (sync[d] => sync'[d])
        BY <1>0, ZenonT(60)
    <2> QED
        BY <1>1, <2>1, <2>2, <2>3, ArmedKept, ZenonT(60)
<1> QED
    BY <1>3, <1>4, <1>5, <1>6, <1>7, <1>8, SMTT(60) DEF Safe

\* A timer taken off its list, and its queue pointer cleared.
LEMMA UnqueueEffect ==
    ASSUME IInv, NEW q \in CPU, NEW t \in Timer, queue[t] \in {q, None}, NEW h \in HeadOf(q),
           Unlist(q, t, h), queue' = [queue EXCEPT ![t] = None], UNCHANGED timeout
    PROVE  /\ queue'[t] = None /\ \A u \in Timer \ {t} : queue'[u] = queue[u]
           /\ \A d \in CPU : t \notin list'[d]
           /\ \A u \in Timer \ {t}, d \in CPU : u \in list'[d] <=> u \in list[d]
           /\ \A d \in CPU : list'[d] \subseteq list[d]
           /\ Timeouts'
           /\ \A d \in CPU : tq_timeout[d] <= tq_timeout'[d]
           /\ ~HeadChanged(q, t, h) => tq_timeout'[q] = tq_timeout[q]
<1> USE DEF IInv
<1>1. queue'[t] = None /\ \A u \in Timer \ {t} : queue'[u] = queue[u]
    BY ZenonT(60) DEF TypeOK
<1>2. /\ list'[q] = list[q] \ {t}
      /\ \A d \in CPU \ {q} : list'[d] = list[d] /\ tq_timeout'[d] = tq_timeout[d]
      /\ tq_timeout'[q] = Earliest(list[q] \ {t}, timeout)
      /\ tq_timeout[q] <= tq_timeout'[q]
      /\ ~HeadChanged(q, t, h) => tq_timeout'[q] = tq_timeout[q]
    BY UnlistEffect, ZenonT(60)
<1>3. \A d \in CPU \ {q} : t \notin list[d]
    <2>1. \A d \in CPU : t \in list[d] => queue[t] = d
        BY ZenonT(60) DEF ListedWhereQueued
    <2> QED
        BY <2>1, Constants, SMTT(60)
<1>4. \A d \in CPU : t \notin list'[d]
    BY <1>2, <1>3, ZenonT(60)
<1>5. \A u \in Timer \ {t}, d \in CPU : u \in list'[d] <=> u \in list[d]
    BY <1>2, ZenonT(60)
<1>6. \A d \in CPU : list'[d] \subseteq list[d]
    BY <1>2, ZenonT(60)
<1>7. Timeouts'
    <2>1. \A d \in CPU : tq_timeout'[d] = Earliest(list'[d], timeout')
        BY <1>2, ZenonT(60) DEF Timeouts
    <2>2. \A u \in Timer : queue'[u] # None => timeout'[u] \in Tick
        BY <1>1, ZenonT(60) DEF Timeouts
    <2> QED
        BY <2>1, <2>2, SMTT(60) DEF Timeouts
<1>8. \A d \in CPU : tq_timeout[d] <= tq_timeout'[d]
    BY <1>2, SameTimeout, ZenonT(60)
<1> QED
    BY <1>1, <1>2, <1>4, <1>5, <1>6, <1>7, <1>8, SMTT(60)

\* timer_dequeue, in the critical section of the queue it loaded.
LEMMA DequeueFinishStep ==
    ASSUME IInv, TypeOK', NEW c \in CPU, dequeue_finish(c)
    PROVE  Safe'
<1> USE DEF IInv
<1>0. /\ pc[c] = "dequeue" /\ pc[c] \in Locking
      /\ pc[c] \notin {"off", "drain", "migrate", "panic_target"}
    BY SMTT(60) DEF dequeue_finish, Locking
<1>1. PICK t \in Timer : t = arg[c] /\ lock[t] = c
    BY <1>0, ZenonT(60) DEF Locks
<1>2. PICK q \in CPU : q = old_tq[c] /\ queue[t] \in {q, None}
    BY <1>0, <1>1, SMTT(60) DEF Pointers
<1>3. PICK h \in HeadOf(q) :
         /\ Unlist(q, t, h)
         /\ hw' = [hw EXCEPT ![c] = IF q = c /\ HeadChanged(q, t, h) THEN tq_timeout'[c] ELSE @]
    BY <1>1, <1>2, ZenonT(60) DEF dequeue_finish
<1>4. /\ queue' = [queue EXCEPT ![t] = None] /\ lock' = [lock EXCEPT ![t] = None]
      /\ Return(c) /\ UNCHANGED <<timeout, online, sync>>
    BY <1>1, <1>2, ZenonT(60) DEF dequeue_finish
<1>5. /\ queue'[t] = None /\ \A u \in Timer \ {t} : queue'[u] = queue[u]
      /\ \A d \in CPU : t \notin list'[d]
      /\ \A u \in Timer \ {t}, d \in CPU : u \in list'[d] <=> u \in list[d]
      /\ \A d \in CPU : list'[d] \subseteq list[d]
      /\ Timeouts'
      /\ \A d \in CPU : tq_timeout[d] <= tq_timeout'[d]
      /\ ~HeadChanged(q, t, h) => tq_timeout'[q] = tq_timeout[q]
    BY <1>1, <1>2, <1>3, <1>4, UnqueueEffect, ZenonT(60)
<1>6. \A u \in Timer : lock[u] \notin {None, c} => lock'[u] = lock[u]
    BY <1>1, <1>4, ZenonT(60) DEF TypeOK
<1>7. /\ Others(c)
      /\ pc'[c] = IF pc[c] = "action" \/ nested[c] THEN "expired" ELSE "run"
      /\ ~nested'[c]
      /\ pc'[c] \notin Locking /\ pc'[c] \notin Closed /\ pc'[c] # "panic_queued"
    BY <1>4, ReturnFrame, SMTT(60)
<1>8. Locks'
    BY <1>6, <1>7, LocksKept, ZenonT(60)
<1>9. Pointers'
    <2>1. pc'[c] \notin {"dequeue", "update_dequeue", "update_enqueue"}
        BY <1>7, SMTT(60) DEF Locking
    <2>2. \A u \in Timer : lock[u] \notin {None, c} => queue'[u] \in {queue[u], None}
        BY <1>5, ZenonT(60)
    <2> QED
        BY <1>7, <2>1, <2>2, PointersKept, ZenonT(60)
<1>10. Draining'
    <2>1. pc'[c] \notin {"off", "drain", "migrate", "panic_target"}
        BY <1>7, SMTT(60) DEF Closed
    <2>2. \A d \in CPU \ {c} : online'[d] <=> online[d]
        BY <1>4
    <2> QED
        BY <1>5, <1>7, <2>1, <2>2, DrainingKept, ZenonT(60)
<1>11. ListedWhereQueued'
    <2>1. \A u \in Timer : ~Migrating(c, u)
        BY <1>0, ZenonT(60) DEF Migrating
    <2>2. /\ \A d \in CPU : t \in list'[d] => queue'[t] = d
          /\ \A d \in CPU : queue'[t] = d => t \in list'[d] \/ Migrating(d, t)'
        BY <1>5, Constants, ZenonT(60)
    <2>3. \A u \in Timer \ {t} : Migrating(c, u) => Migrating(c, u)'
        BY <2>1, ZenonT(60)
    <2> QED
        BY <1>1, <1>5, <1>7, <1>10, <2>2, <2>3, ListedKept, ZenonT(60)
<1>12. Armed'
    <2>1. /\ \A d \in CPU \ {c} : hw'[d] = hw[d]
          /\ hw'[c] = IF q = c /\ HeadChanged(q, t, h) THEN tq_timeout'[c] ELSE hw[c]
        BY <1>3, ZenonT(60) DEF TypeOK
    <2>2. hw'[c] <= tq_timeout'[c] \/ Looking(c)'
        <3>1. /\ hw[c] \in Nat /\ tq_timeout[c] \in Nat /\ tq_timeout'[c] \in Nat
            BY Constants, ZenonT(60) DEF TypeOK
        <3>2. hw[c] <= tq_timeout[c] \/ Looking(c)
            BY <1>0, ZenonT(60) DEF Armed
        <3>3. Looking(c) => Looking(c)'
            <4>1. pc[c] # "expired" /\ pc[c] # "action"
                BY <1>0, SMTT(60)
            <4> QED
                BY <1>4, <1>7, <4>1, ZenonT(60) DEF Looking
        <3>4. tq_timeout[c] <= tq_timeout'[c]
            BY <1>5
        <3>5. hw'[c] = tq_timeout'[c] \/ hw'[c] = hw[c]
            BY <2>1, ZenonT(60)
        <3>6. hw[c] <= tq_timeout[c] => hw'[c] <= tq_timeout'[c]
            BY <3>1, <3>4, <3>5, SMTT(60)
        <3> QED
            BY <3>2, <3>3, <3>6
    <2>3. \A d \in CPU \ {c} : hw'[d] = hw[d] /\ (sync[d] => sync'[d])
        BY <1>4, <2>1, ZenonT(60)
    <2> QED
        BY <1>5, <1>7, <2>2, <2>3, ArmedKept, ZenonT(60)
<1> QED
    BY <1>5, <1>8, <1>9, <1>10, <1>11, <1>12, SMTT(60) DEF Safe

\* timer_update takes the timer off the queue it was on.
LEMMA UpdateDequeueStep ==
    ASSUME IInv, TypeOK', NEW c \in CPU, update_dequeue(c)
    PROVE  Safe'
<1> USE DEF IInv
<1>0. /\ pc[c] = "update_dequeue" /\ pc[c] \in Locking
      /\ pc[c] \notin {"off", "drain", "migrate", "panic_target"}
    BY SMTT(60) DEF update_dequeue, Locking
<1>1. PICK t \in Timer : t = arg[c] /\ lock[t] = c
    BY <1>0, ZenonT(60) DEF Locks
<1>2. PICK q \in CPU : q = old_tq[c] /\ queue[t] \in {q, None} /\ new_timeout[c] \in Tick
    BY <1>0, <1>1, SMTT(60) DEF Pointers
<1>3. PICK h \in HeadOf(q) : Unlist(q, t, h)
    BY <1>1, <1>2, ZenonT(60) DEF update_dequeue
<1>4. /\ queue' = [queue EXCEPT ![t] = None] /\ pc' = [pc EXCEPT ![c] = "update_enqueue"]
      /\ UNCHANGED <<timeout, lock, online, hw, sync, arg, old_tq, new_timeout, nested>>
    BY <1>1, <1>2, ZenonT(60) DEF update_dequeue
<1>13. arg'[c] = t
    BY <1>1, <1>4, SMTT(60)
<1>5. /\ queue'[t] = None /\ \A u \in Timer \ {t} : queue'[u] = queue[u]
      /\ \A d \in CPU : t \notin list'[d]
      /\ \A u \in Timer \ {t}, d \in CPU : u \in list'[d] <=> u \in list[d]
      /\ \A d \in CPU : list'[d] \subseteq list[d]
      /\ Timeouts'
      /\ \A d \in CPU : tq_timeout[d] <= tq_timeout'[d]
    BY <1>1, <1>2, <1>3, <1>4, UnqueueEffect, ZenonT(60)
<1>6. pc'[c] = "update_enqueue" /\ \A d \in CPU \ {c} : pc'[d] = pc[d]
    BY <1>4, ZenonT(60) DEF TypeOK
<1>7. Others(c)
    BY <1>4, <1>6, ZenonT(60) DEF Others
<1>14. /\ pc'[c] \in Locking /\ pc'[c] \notin {"off", "drain", "migrate", "panic_target"}
       /\ pc'[c] \notin {"dequeue", "update_dequeue"} /\ pc'[c] # "panic_queued"
    BY <1>6, SMTT(60) DEF Locking
<1>8. Locks'
    BY <1>1, <1>4, <1>7, <1>13, <1>14, LocksKept, ZenonT(60)
<1>9. Pointers'
    <2>2. \A u \in Timer : lock[u] \notin {None, c} => queue'[u] \in {queue[u], None}
        BY <1>5, ZenonT(60)
    <2>3. queue'[arg'[c]] = None /\ new_timeout'[c] \in Tick
        BY <1>2, <1>4, <1>5, <1>13, ZenonT(60)
    <2> QED
        BY <1>7, <1>14, <2>2, <2>3, PointersKept, ZenonT(60)
<1>10. Draining'
    <2>1. pc'[c] \notin {"off", "drain", "migrate", "panic_target"}
        BY <1>14, SMTT(60)
    <2>2. \A d \in CPU \ {c} : online'[d] <=> online[d]
        BY <1>4
    <2> QED
        BY <1>5, <1>7, <2>1, <2>2, DrainingKept, ZenonT(60)
<1>11. ListedWhereQueued'
    <2>1. \A u \in Timer : ~Migrating(c, u)
        BY <1>0, ZenonT(60) DEF Migrating
    <2>2. /\ \A d \in CPU : t \in list'[d] => queue'[t] = d
          /\ \A d \in CPU : queue'[t] = d => t \in list'[d] \/ Migrating(d, t)'
        BY <1>5, Constants, ZenonT(60)
    <2>3. \A u \in Timer \ {t} : Migrating(c, u) => Migrating(c, u)'
        BY <2>1, ZenonT(60)
    <2> QED
        BY <1>1, <1>5, <1>7, <1>10, <2>2, <2>3, ListedKept, ZenonT(60)
<1>12. Armed'
    <2>2. hw'[c] <= tq_timeout'[c] \/ Looking(c)'
        <3>1. /\ hw[c] \in Nat /\ tq_timeout[c] \in Nat /\ tq_timeout'[c] \in Nat
            BY Constants, ZenonT(60) DEF TypeOK
        <3>2. hw[c] <= tq_timeout[c] \/ Looking(c)
            BY <1>0, ZenonT(60) DEF Armed
        <3>3. Looking(c) => Looking(c)'
            <4>1. pc[c] # "expired" /\ pc[c] # "action"
                BY <1>0, SMTT(60)
            <4> QED
                BY <1>4, <4>1, ZenonT(60) DEF Looking
        <3>4. tq_timeout[c] <= tq_timeout'[c] /\ hw'[c] = hw[c]
            BY <1>4, <1>5, SMTT(60)
        <3>6. hw[c] <= tq_timeout[c] => hw'[c] <= tq_timeout'[c]
            BY <3>1, <3>4, SMTT(60)
        <3> QED
            BY <3>2, <3>3, <3>6
    <2>3. \A d \in CPU \ {c} : hw'[d] = hw[d] /\ (sync[d] => sync'[d])
        BY <1>4, ZenonT(60)
    <2> QED
        BY <1>5, <1>7, <2>2, <2>3, ArmedKept, ZenonT(60)
<1> QED
    BY <1>5, <1>8, <1>9, <1>10, <1>11, <1>12, SMTT(60) DEF Safe

\* timer_dequeue_expired takes the head off the list of its own core.
LEMMA ExpireStep ==
    ASSUME IInv, TypeOK', NEW c \in CPU, expired_next(c), tq_timeout[c] <= ticks[c]
    PROVE  Safe'
<1> USE DEF IInv
<1>0. pc[c] = "expired" /\ UNCHANGED <<hw, timeout, lock, online, sync, old_tq, new_timeout, nested>>
    BY ZenonT(60) DEF expired_next
<1>1. PICK h \in HeadOf(c) :
         /\ Unlist(c, h, h) /\ queue' = [queue EXCEPT ![h] = None]
         /\ arg' = [arg EXCEPT ![c] = h] /\ pc' = [pc EXCEPT ![c] = "action"]
    BY ZenonT(60) DEF expired_next
<1>2. h \in Timer /\ queue[h] = c
    BY NotDue, HeadTimer, SMTT(60)
<1>3. /\ queue'[h] = None /\ \A u \in Timer \ {h} : queue'[u] = queue[u]
      /\ \A d \in CPU : h \notin list'[d]
      /\ \A u \in Timer \ {h}, d \in CPU : u \in list'[d] <=> u \in list[d]
      /\ \A d \in CPU : list'[d] \subseteq list[d]
      /\ Timeouts'
      /\ \A d \in CPU : tq_timeout[d] <= tq_timeout'[d]
    <2>1. queue[h] \in {c, None} /\ UNCHANGED timeout
        BY <1>0, <1>2, SMTT(60)
    <2> QED
        BY <1>1, <1>2, <2>1, UnqueueEffect, ZenonT(60)
<1>4. pc'[c] = "action" /\ \A d \in CPU \ {c} : pc'[d] = pc[d] /\ arg'[d] = arg[d]
    BY <1>1, ZenonT(60) DEF TypeOK
<1>5. Others(c)
    BY <1>0, <1>4, ZenonT(60) DEF Others
<1>6. /\ pc'[c] \notin Locking /\ pc[c] \notin Locking
      /\ pc'[c] \notin {"off", "drain", "migrate", "panic_target"}
      /\ pc'[c] \notin {"dequeue", "update_dequeue", "update_enqueue"} /\ pc'[c] # "panic_queued"
      /\ pc[c] \notin {"migrate", "panic_target"}
    BY <1>0, <1>4, SMTT(60) DEF Locking
<1>7. Locks'
    <2>1. ~nested'[c]
        BY <1>0, <1>6, ZenonT(60) DEF Locks
    <2> QED
        BY <1>0, <1>5, <1>6, <2>1, LocksKept, ZenonT(60)
<1>8. Pointers'
    <2>1. \A u \in Timer : lock[u] \notin {None, c} => queue'[u] \in {queue[u], None}
        BY <1>3, ZenonT(60)
    <2> QED
        BY <1>5, <1>6, <2>1, PointersKept, ZenonT(60)
<1>9. Draining'
    <2>1. \A d \in CPU \ {c} : online'[d] <=> online[d]
        BY <1>0
    <2> QED
        BY <1>3, <1>5, <1>6, <2>1, DrainingKept, ZenonT(60)
<1>10. ListedWhereQueued'
    <2>1. \A u \in Timer \ {h} : Migrating(c, u) => Migrating(c, u)'
        BY <1>6, ZenonT(60) DEF Migrating
    <2>2. /\ \A d \in CPU : h \in list'[d] => queue'[h] = d
          /\ \A d \in CPU : queue'[h] = d => h \in list'[d] \/ Migrating(d, h)'
        BY <1>3, Constants, ZenonT(60)
    <2> QED
        BY <1>2, <1>3, <1>5, <1>9, <2>1, <2>2, ListedKept, ZenonT(60)
<1>11. Armed'
    <2>1. Looking(c)'
        BY <1>4, SMTT(60) DEF Looking
    <2>2. \A d \in CPU \ {c} : hw'[d] = hw[d] /\ (sync[d] => sync'[d])
        BY <1>0, ZenonT(60)
    <2> QED
        BY <1>3, <1>5, <2>1, <2>2, ArmedKept, ZenonT(60)
<1> QED
    BY <1>3, <1>7, <1>8, <1>9, <1>10, <1>11, SMTT(60) DEF Safe

\* timer_handle_power_cpu_offline takes the head off the list and keeps its
\* queue pointer.
LEMMA TakeStep ==
    ASSUME IInv, TypeOK', NEW c \in CPU, offline_next(c), tq_timeout[c] # Invalid
    PROVE  Safe'
<1> USE DEF IInv
<1>0. /\ pc[c] = "drain"
      /\ UNCHANGED <<hw, queue, timeout, lock, online, sync, old_tq, new_timeout, nested>>
    BY ZenonT(60) DEF offline_next, timers
<1>1. PICK h \in HeadOf(c) :
         /\ Unlist(c, h, h)
         /\ arg' = [arg EXCEPT ![c] = h] /\ pc' = [pc EXCEPT ![c] = "migrate"]
    BY ZenonT(60) DEF offline_next
<1>2. h \in Timer /\ h \in list[c] /\ queue[h] = c
    BY HeadTimer, SMTT(60)
<1>3. /\ list'[c] = list[c] \ {h}
      /\ \A d \in CPU \ {c} : list'[d] = list[d] /\ tq_timeout'[d] = tq_timeout[d]
      /\ tq_timeout'[c] = Earliest(list[c] \ {h}, timeout)
    BY <1>1, UnlistEffect, ZenonT(60)
<1>4. /\ pc'[c] = "migrate" /\ arg'[c] = h
      /\ \A d \in CPU \ {c} : pc'[d] = pc[d] /\ arg'[d] = arg[d]
    BY <1>1, ZenonT(60) DEF TypeOK
<1>5. Others(c)
    BY <1>0, <1>4, ZenonT(60) DEF Others
<1>6. /\ pc'[c] \notin Locking /\ pc[c] \notin Locking
      /\ pc'[c] # "off" /\ pc[c] \in {"off", "drain", "migrate", "panic_target"}
      /\ pc'[c] \notin {"dequeue", "update_dequeue", "update_enqueue"} /\ pc'[c] # "panic_queued"
      /\ pc[c] \notin {"migrate", "panic_target"} /\ pc'[c] \in {"migrate", "panic_target"}
      /\ pc'[c] \in Closed
    BY <1>0, <1>4, SMTT(60) DEF Locking, Closed
<1>7. Locks'
    <2>1. ~nested'[c]
        BY <1>0, <1>6, ZenonT(60) DEF Locks
    <2> QED
        BY <1>0, <1>5, <1>6, <2>1, LocksKept, ZenonT(60)
<1>8. Pointers'
    BY <1>0, <1>5, <1>6, PointersKept, ZenonT(60)
<1>9. Draining'
    <2>1. \A d \in CPU \ {c} : online'[d] <=> online[d]
        BY <1>0
    <2>2. ~online'[c]
        BY <1>0, <1>6, ZenonT(60) DEF Draining
    <2>3. arg'[c] \in Timer /\ arg'[c] \notin list'[c]
        BY <1>2, <1>3, <1>4, ZenonT(60)
    <2>4. \A d \in CPU \ {c} : ~online[d] => list'[d] \subseteq list[d]
        BY <1>3, ZenonT(60)
    <2> QED
        BY <1>5, <1>6, <2>1, <2>2, <2>3, <2>4, DrainingKept, ZenonT(60)
<1>10. ListedWhereQueued'
    <2>1. \A u \in Timer \ {h} : Migrating(c, u) => Migrating(c, u)'
        BY <1>6, ZenonT(60) DEF Migrating
    <2>2. Migrating(c, h)'
        BY <1>4, <1>6, ZenonT(60) DEF Migrating
    <2>3. \A d \in CPU : h \in list'[d] => queue'[h] = d
        BY <1>0, <1>2, <1>3, ZenonT(60) DEF ListedWhereQueued
    <2>4. \A d \in CPU : queue'[h] = d => h \in list'[d] \/ Migrating(d, h)'
        BY <1>0, <1>2, <2>2, ZenonT(60)
    <2>5. \A u \in Timer \ {h}, d \in CPU : u \in list'[d] <=> u \in list[d]
        BY <1>3, ZenonT(60)
    <2>6. \A u \in Timer \ {h} : queue'[u] = queue[u]
        BY <1>0, SMTT(60)
    <2> QED
        BY <1>2, <1>5, <1>9, <2>1, <2>3, <2>4, <2>5, <2>6, ListedKept, ZenonT(60)
<1>11. Timeouts'
    <2>1. \A d \in CPU : tq_timeout'[d] = Earliest(list'[d], timeout')
        BY <1>0, <1>3, ZenonT(60) DEF Timeouts
    <2>2. \A u \in Timer : queue'[u] # None => timeout'[u] \in Tick
        BY <1>0, ZenonT(60) DEF Timeouts
    <2> QED
        BY <2>1, <2>2 DEF Timeouts
<1>12. Armed'
    <2>1. \A d \in CPU \ {c} : hw'[d] = hw[d] /\ (sync[d] => sync'[d])
        BY <1>0, ZenonT(60)
    <2>2. \A d \in CPU \ {c} : tq_timeout[d] <= tq_timeout'[d] \/ sync'[d]
        BY <1>3, SameTimeout, ZenonT(60)
    <2> QED
        BY <1>5, <1>6, <2>1, <2>2, ArmedKept, ZenonT(60)
<1> QED
    BY <1>7, <1>8, <1>9, <1>10, <1>11, <1>12, SMTT(60) DEF Safe

\* timer_try_move_to_cpu puts the timer on the target's list: the target is
\* told with an IPI if that is its earliest timer.
LEMMA MoveStep ==
    ASSUME IInv, TypeOK', NEW c \in CPU, try_move_to_cpu(c), CanTake(target[c]), queue[arg[c]] = c
    PROVE  Safe'
<1> USE DEF IInv
<1>0. /\ pc[c] = "migrate"
      /\ UNCHANGED <<timeout, lock, online, hw, arg, old_tq, new_timeout, nested>>
      /\ pc' = [pc EXCEPT ![c] = "drain"]
    BY ZenonT(60) DEF try_move_to_cpu
<1>1. PICK t \in Timer : t = arg[c] /\ t \notin list[c]
    BY <1>0, SMTT(60) DEF Draining
<1>2. PICK d \in CPU : d = target[c] /\ online[d] /\ d \in Functional
    BY Constants, ZenonT(60) DEF CanTake
<1>3. lock[t] = None /\ Insert(c, t, d) /\ queue[t] = c
    BY <1>1, <1>2, ZenonT(60) DEF try_move_to_cpu
<1>4. d # c
    <2>1. ~online[c]
        BY <1>0, SMTT(60) DEF Draining
    <2> QED
        BY <1>2, <2>1, SMTT(60)
<1>5. \A e \in CPU : t \notin list[e]
    BY <1>1, <1>3, OneList, ZenonT(60)
<1>6. /\ queue' = [queue EXCEPT ![t] = d]
      /\ list' = [list EXCEPT ![d] = @ \cup {t}]
      /\ IF BecomesHead(list[d], timeout, timeout[t])
           THEN /\ tq_timeout' = [tq_timeout EXCEPT ![d] = timeout[t]]
                /\ sync' = [sync EXCEPT ![d] = TRUE]
           ELSE UNCHANGED <<tq_timeout, sync>>
    BY <1>3, ZenonT(60) DEF Insert
<1>7. queue'[t] = d /\ \A u \in Timer \ {t} : queue'[u] = queue[u]
    BY <1>6, ZenonT(60) DEF TypeOK
<1>8. /\ list'[d] = list[d] \cup {t} /\ \A e \in CPU \ {d} : list'[e] = list[e]
      /\ \A e \in CPU : tq_timeout'[e] = Earliest(list'[e], timeout')
      /\ \A e \in CPU \ {d} : tq_timeout'[e] = tq_timeout[e]
      /\ ~BecomesHead(list[d], timeout, timeout[t]) => tq_timeout'[d] = tq_timeout[d]
    <2>1. timeout[t] \in Timeout
        BY SMTT(60) DEF TypeOK
    <2>2. timeout' = [timeout EXCEPT ![t] = timeout[t]]
        BY <1>0, SMTT(60) DEF TypeOK
    <2>3. tq_timeout' = IF BecomesHead(list[d], timeout, timeout[t])
                          THEN [tq_timeout EXCEPT ![d] = timeout[t]] ELSE tq_timeout
        BY <1>6, ZenonT(60)
    <2>4. PICK v \in Timeout : v = timeout[t]
        BY <2>1
    <2>5. /\ timeout' = [timeout EXCEPT ![t] = v]
          /\ tq_timeout' = IF BecomesHead(list[d], timeout, v)
                             THEN [tq_timeout EXCEPT ![d] = v] ELSE tq_timeout
        BY <2>2, <2>3, <2>4, ZenonT(60)
    <2>6. /\ list'[d] = list[d] \cup {t} /\ \A e \in CPU \ {d} : list'[e] = list[e]
          /\ \A e \in CPU : tq_timeout'[e] = Earliest(list'[e], timeout')
          /\ \A e \in CPU \ {d} : tq_timeout'[e] = tq_timeout[e]
          /\ IF BecomesHead(list[d], timeout, v) THEN tq_timeout'[d] = v
                                                 ELSE tq_timeout'[d] = tq_timeout[d]
        BY <1>5, <1>6, <2>5, ListInsert, ZenonT(60)
    <2> QED
        BY <2>4, <2>6, ZenonT(60)
<1>9. /\ \A e \in CPU : sync[e] => sync'[e]
      /\ BecomesHead(list[d], timeout, timeout[t]) => sync'[d]
    BY <1>6, ZenonT(60) DEF TypeOK
<1>10. pc'[c] = "drain" /\ \A e \in CPU \ {c} : pc'[e] = pc[e]
    BY <1>0, ZenonT(60) DEF TypeOK
<1>11. Others(c)
    BY <1>0, <1>10, ZenonT(60) DEF Others
<1>12. /\ pc'[c] \notin Locking /\ pc[c] \notin Locking
       /\ pc'[c] # "off" /\ pc[c] \in {"off", "drain", "migrate", "panic_target"}
       /\ pc'[c] \notin {"dequeue", "update_dequeue", "update_enqueue"} /\ pc'[c] # "panic_queued"
       /\ pc'[c] \notin {"migrate", "panic_target"}
       /\ pc'[c] \in Closed
    BY <1>0, <1>10, SMTT(60) DEF Locking, Closed
<1>13. Locks'
    <2>1. ~nested'[c]
        BY <1>0, <1>12, ZenonT(60) DEF Locks
    <2> QED
        BY <1>0, <1>11, <1>12, <2>1, LocksKept, ZenonT(60)
<1>14. Pointers'
    <2>1. \A u \in Timer : lock[u] \notin {None, c} => queue'[u] \in {queue[u], None}
        BY <1>3, <1>7, ZenonT(60)
    <2> QED
        BY <1>11, <1>12, <2>1, PointersKept, ZenonT(60)
<1>15. Draining'
    <2>1. \A e \in CPU \ {c} : online'[e] <=> online[e]
        BY <1>0
    <2>2. ~online'[c]
        BY <1>0, <1>12, ZenonT(60) DEF Draining
    <2>3. \A e \in CPU \ {c} : ~online[e] => list'[e] \subseteq list[e]
        BY <1>2, <1>8, ZenonT(60)
    <2> QED
        BY <1>11, <1>12, <2>1, <2>2, <2>3, DrainingKept, ZenonT(60)
<1>16. ListedWhereQueued'
    <2>1. \A u \in Timer \ {t} : ~Migrating(c, u)
        BY <1>1, ZenonT(60) DEF Migrating
    <2>2. \A e \in CPU : t \in list'[e] => queue'[t] = e
        BY <1>5, <1>7, <1>8, ZenonT(60)
    <2>3. \A e \in CPU : queue'[t] = e => t \in list'[e] \/ Migrating(e, t)'
        BY <1>7, <1>8, ZenonT(60)
    <2>4. \A u \in Timer \ {t}, e \in CPU : u \in list'[e] <=> u \in list[e]
        BY <1>8, ZenonT(60)
    <2> QED
        BY <1>7, <1>11, <1>15, <2>1, <2>2, <2>3, <2>4, ListedKept, ZenonT(60)
<1>17. Timeouts'
    <2>1. \A u \in Timer : queue'[u] # None => timeout'[u] \in Tick
        BY <1>0, <1>3, <1>7, Constants, ZenonT(60) DEF Timeouts
    <2> QED
        BY <1>8, <2>1 DEF Timeouts
<1>18. Armed'
    <2>1. \A e \in CPU \ {c} : hw'[e] = hw[e] /\ (sync[e] => sync'[e])
        BY <1>0, <1>9, ZenonT(60)
    <2>2. \A e \in CPU \ {c} : tq_timeout[e] <= tq_timeout'[e] \/ sync'[e]
        BY <1>8, <1>9, SameTimeout, ZenonT(60)
    <2> QED
        BY <1>11, <1>12, <2>1, <2>2, ArmedKept, ZenonT(60)
<1> QED
    BY <1>13, <1>14, <1>15, <1>16, <1>17, <1>18, SMTT(60) DEF Safe

-----------------------------------------------------------------------------
(* The steps that change no list                                           *)

\* A step that leaves the queues alone preserves the invariant if its locals are as
\* required.
LEMMA QuietStep ==
    ASSUME IInv, TypeOK', NEW c \in CPU, Others(c), UNCHANGED <<queue, timeout, list, tq_timeout>>,
           \A u \in Timer : lock[u] \notin {None, c} => lock'[u] = lock[u],
           \A d \in CPU \ {c} : (online'[d] <=> online[d]) /\ hw'[d] = hw[d] /\ (sync[d] => sync'[d]),
           pc'[c] \in Locking => arg'[c] \in Timer /\ lock'[arg'[c]] = c,
           nested'[c] => pc'[c] \in Locking,
           pc'[c] \in {"dequeue", "update_dequeue"} =>
              old_tq'[c] \in CPU /\ queue'[arg'[c]] \in {old_tq'[c], None},
           pc'[c] \in {"update_dequeue", "update_enqueue"} => new_timeout'[c] \in Tick,
           pc'[c] # "update_enqueue", pc'[c] # "panic_queued",
           pc'[c] \in {"off", "drain", "migrate", "panic_target"} => ~online'[c],
           pc'[c] \in {"migrate", "panic_target"} => arg'[c] \in Timer /\ arg'[c] \notin list'[c],
           pc'[c] = "off" => list'[c] = {},
           \A u \in Timer : Migrating(c, u) /\ queue[u] = c => Migrating(c, u)',
           pc'[c] \notin Closed => hw'[c] <= tq_timeout'[c] \/ Looking(c)'
    PROVE  Safe'
<1> USE DEF IInv
<1>1. Locks'
    BY LocksKept, ZenonT(60)
<1>2. Pointers'
    BY PointersKept, ZenonT(60)
<1>3. Draining'
    BY DrainingKept, ZenonT(60)
<1>4. ListedWhereQueued'
    <2>1. \A u \in Timer, d \in CPU : u \in list'[d] => pc'[d] # "off"
        BY <1>3, ZenonT(60) DEF Draining
    <2>2. \A u \in Timer, d \in CPU : Migrating(d, u) /\ queue[u] = d => Migrating(d, u)'
        BY ZenonT(60) DEF Migrating, Others
    <2> QED
        BY <2>1, <2>2, ZenonT(60) DEF ListedWhereQueued
<1>5. Timeouts'
    BY ZenonT(60) DEF Timeouts
<1>6. Armed'
    <2>1. \A d \in CPU \ {c} : tq_timeout[d] <= tq_timeout'[d] \/ sync'[d]
        BY SameTimeout, ZenonT(60)
    <2> QED
        BY <2>1, ArmedKept, ZenonT(60)
<1> QED
    BY <1>1, <1>2, <1>3, <1>4, <1>5, <1>6, ZenonT(60) DEF Safe

\* The steps to a place where the core is in no call and its queue is open.
Plain == {"run", "expired", "action", "suspended", "wait_online", "warm"}

\* The same for a step that leaves the locks alone too and ends outside the operations.
LEMMA PlainStep ==
    ASSUME IInv, TypeOK', NEW c \in CPU, Others(c), UNCHANGED <<queue, timeout, list, tq_timeout, lock>>,
           \A d \in CPU \ {c} : (online'[d] <=> online[d]) /\ hw'[d] = hw[d] /\ (sync[d] => sync'[d]),
           pc[c] \notin {"migrate", "panic_target"}, pc'[c] \in Plain, ~nested'[c],
           hw'[c] <= tq_timeout'[c] \/ Looking(c)'
    PROVE  Safe'
<1>1. /\ pc'[c] \notin Locking /\ pc'[c] # "off"
      /\ pc'[c] \notin {"dequeue", "update_dequeue"}
      /\ pc'[c] \notin {"update_dequeue", "update_enqueue"}
      /\ pc'[c] # "update_enqueue" /\ pc'[c] # "panic_queued"
      /\ pc'[c] \notin {"off", "drain", "migrate", "panic_target"}
      /\ pc'[c] \notin {"migrate", "panic_target"}
    BY SMTT(60) DEF Plain, Locking
<1>2. \A u \in Timer : ~Migrating(c, u)
    BY ZenonT(60) DEF Migrating
<1> QED
    BY <1>1, <1>2, QuietStep, ZenonT(60)

\* What the invariant says of a core that is in its thread.
LEMMA AtRun ==
    ASSUME IInv, NEW c \in CPU, pc[c] \in {"run", "action", "expired", "suspended", "wait_online", "warm"}
    PROVE  /\ ~nested[c] /\ pc[c] \notin {"migrate", "panic_target"}
           /\ pc[c] \notin {"action", "expired"} => hw[c] <= tq_timeout[c] \/ sync[c]
<1>1. pc[c] \notin Locking /\ pc[c] \notin {"off", "drain", "migrate", "panic_target"}
    BY SMTT(60) DEF Locking
<1>2. ~nested[c]
    BY <1>1, ZenonT(60) DEF IInv, Locks
<1>3. hw[c] <= tq_timeout[c] \/ Looking(c)
    BY <1>1, ZenonT(60) DEF IInv, Armed
<1> QED
    BY <1>1, <1>2, <1>3, ZenonT(60) DEF Looking

\* A call that returns at once, or an action.
LEMMA ReturnStep ==
    ASSUME IInv, TypeOK', NEW c \in CPU, pc[c] \in {"run", "action"}, Return(c),
           UNCHANGED <<queue, timeout, list, tq_timeout, lock, online, hw, sync>>
    PROVE  Safe'
<1>0. TypeOK
    BY SMTT(60) DEF IInv
<1>1. /\ Others(c)
      /\ pc'[c] = IF pc[c] = "action" \/ nested[c] THEN "expired" ELSE "run"
      /\ ~nested'[c]
    BY <1>0, ReturnFrame
<1>2. pc'[c] = "expired" \/ pc'[c] = "run"
    BY <1>1, ZenonT(60)
<1>3. pc'[c] \in Plain
    BY <1>2, SMTT(60) DEF Plain
<1>4. pc[c] = "run" \/ pc[c] = "action"
    OBVIOUS
<1>5. CASE pc[c] = "action"
    <2>1. Looking(c)'
        BY <1>1, <1>5, SMTT(60) DEF Looking
    <2>2. pc[c] \notin {"migrate", "panic_target"}
        BY <1>5, SMTT(60)
    <2> QED
        BY <1>1, <1>3, <2>1, <2>2, PlainStep, ZenonT(60)
<1>6. CASE pc[c] = "run"
    <2>1. /\ ~nested[c] /\ pc[c] \notin {"migrate", "panic_target"}
          /\ hw[c] <= tq_timeout[c] \/ sync[c]
        BY <1>6, AtRun, SMTT(60)
    <2>2. hw'[c] <= tq_timeout'[c] \/ Looking(c)'
        BY <2>1, ZenonT(60) DEF Looking
    <2> QED
        BY <1>1, <1>3, <2>1, <2>2, PlainStep, ZenonT(60)
<1> QED
    BY <1>4, <1>5, <1>6

\* timer_dequeue and timer_update of a timer on another queue take the timer's
\* lock and remember the queue.
LEMMA LoadStep ==
    ASSUME IInv, TypeOK', NEW c \in CPU, NEW t \in Timer, NEW l \in {"dequeue", "update_dequeue"},
           pc[c] \in {"run", "action"}, lock[t] = None, queue[t] # None,
           pc' = [pc EXCEPT ![c] = l],
           nested' = [nested EXCEPT ![c] = pc[c] = "action"],
           arg' = [arg EXCEPT ![c] = t],
           old_tq' = [old_tq EXCEPT ![c] = queue[t]],
           lock' = [lock EXCEPT ![t] = c],
           \A d \in CPU \ {c} : new_timeout'[d] = new_timeout[d],
           l = "update_dequeue" => new_timeout'[c] \in Tick,
           UNCHANGED <<queue, timeout, list, tq_timeout, online, hw, sync>>
    PROVE  Safe'
<1>0. TypeOK
    BY DEF IInv
<1>1. /\ pc'[c] = l /\ arg'[c] = t /\ old_tq'[c] = queue[t] /\ lock'[t] = c
      /\ \A d \in CPU \ {c} : pc'[d] = pc[d] /\ arg'[d] = arg[d] /\ old_tq'[d] = old_tq[d]
      /\ \A u \in Timer \ {t} : lock'[u] = lock[u]
    BY <1>0, ZenonT(60) DEF TypeOK
<1>2. /\ nested'[c] <=> pc[c] = "action"
      /\ \A d \in CPU \ {c} : nested'[d] <=> nested[d]
    BY <1>0, ZenonT(60) DEF TypeOK
<1>3. Others(c)
    BY <1>1, <1>2, ZenonT(60) DEF Others
<1>4. queue[t] \in CPU
    BY <1>0, SMTT(60) DEF TypeOK, Queue
<1>5. /\ pc'[c] \in Locking /\ pc'[c] # "off"
      /\ pc'[c] # "update_enqueue" /\ pc'[c] # "panic_queued"
      /\ pc'[c] \notin {"off", "drain", "migrate", "panic_target"}
      /\ pc'[c] \notin {"migrate", "panic_target"}
      /\ pc[c] \notin {"migrate", "panic_target"}
      /\ pc'[c] \in {"update_dequeue", "update_enqueue"} => l = "update_dequeue"
      /\ pc[c] # "expired"
    BY <1>1, SMTT(60) DEF Locking
<1>6. \A u \in Timer : ~Migrating(c, u)
    BY <1>5, ZenonT(60) DEF Migrating
<1>7. hw'[c] <= tq_timeout'[c] \/ Looking(c)'
    <2>1. ~nested[c] /\ (pc[c] # "action" => hw[c] <= tq_timeout[c] \/ sync[c])
        BY AtRun, SMTT(60)
    <2> QED
        BY <1>2, <2>1, ZenonT(60) DEF Looking
<1>8. \A u \in Timer : lock[u] \notin {None, c} => lock'[u] = lock[u]
    BY <1>1, ZenonT(60)
<1>9. arg'[c] \in Timer /\ lock'[arg'[c]] = c
    BY <1>1
<1>10. old_tq'[c] \in CPU /\ queue'[arg'[c]] \in {old_tq'[c], None}
    BY <1>1, <1>4, ZenonT(60)
<1>11. pc'[c] \in {"update_dequeue", "update_enqueue"} => new_timeout'[c] \in Tick
    BY <1>5
<1>12. \A d \in CPU \ {c} : (online'[d] <=> online[d]) /\ hw'[d] = hw[d] /\ (sync[d] => sync'[d])
    BY ZenonT(60)
<1> QED
    BY <1>3, <1>5, <1>6, <1>7, <1>8, <1>9, <1>10, <1>11, <1>12, QuietStep, ZenonT(60)

\* timer_dequeue_expired begins.
LEMMA ExpiryStep ==
    ASSUME IInv, TypeOK', NEW c \in CPU, pc[c] \in {"run", "suspended"}, DequeueExpired(c),
           \A d \in CPU \ {c} : sync'[d] <=> sync[d]
    PROVE  Safe'
<1> USE DEF timers, queues, bounds
<1>0. TypeOK
    BY DEF IInv
<1>1. /\ pc' = [pc EXCEPT ![c] = "expired"]
      /\ UNCHANGED <<queue, timeout, list, tq_timeout, lock, online, hw, arg, old_tq, new_timeout, nested>>
    BY ZenonT(60) DEF DequeueExpired
<1>2. pc'[c] = "expired" /\ \A d \in CPU \ {c} : pc'[d] = pc[d]
    BY <1>0, <1>1, ZenonT(60) DEF TypeOK
<1>3. Others(c)
    BY <1>1, <1>2, ZenonT(60) DEF Others
<1>4. pc'[c] \in Plain /\ Looking(c)'
    BY <1>2, SMTT(60) DEF Plain, Looking
<1>5. ~nested'[c] /\ pc[c] \notin {"migrate", "panic_target"}
    BY <1>1, AtRun, SMTT(60)
<1>6. \A d \in CPU \ {c} : (online'[d] <=> online[d]) /\ hw'[d] = hw[d] /\ (sync[d] => sync'[d])
    BY <1>1, ZenonT(60)
<1> QED
    BY <1>1, <1>3, <1>4, <1>5, <1>6, PlainStep, ZenonT(60)

\* The hardware timer is programmed at the end of timer_dequeue_expired.
LEMMA ProgramStep ==
    ASSUME IInv, TypeOK', NEW c \in CPU, expired_next(c), ~ (tq_timeout[c] <= ticks[c])
    PROVE  Safe'
<1>0. TypeOK
    BY DEF IInv
<1>1. /\ pc[c] = "expired" /\ pc' = [pc EXCEPT ![c] = "run"]
      /\ hw' = [hw EXCEPT ![c] = tq_timeout[c]]
      /\ UNCHANGED <<queue, timeout, list, tq_timeout, lock, online, sync, arg, old_tq, new_timeout, nested>>
    BY ZenonT(60) DEF expired_next
<1>2. /\ pc'[c] = "run" /\ hw'[c] = tq_timeout'[c]
      /\ \A d \in CPU \ {c} : pc'[d] = pc[d] /\ hw'[d] = hw[d]
    BY <1>0, <1>1, ZenonT(60) DEF TypeOK
<1>3. Others(c)
    BY <1>1, <1>2, ZenonT(60) DEF Others
<1>4. pc'[c] \in Plain
    BY <1>2, SMTT(60) DEF Plain
<1>5. ~nested'[c] /\ pc[c] \notin {"migrate", "panic_target"}
    BY <1>1, AtRun, SMTT(60)
<1>6. hw'[c] <= tq_timeout'[c]
    BY <1>0, <1>1, <1>2, SameTimeout, ZenonT(60)
<1>7. \A d \in CPU \ {c} : (online'[d] <=> online[d]) /\ hw'[d] = hw[d] /\ (sync[d] => sync'[d])
    BY <1>1, <1>2, ZenonT(60)
<1> QED
    BY <1>1, <1>3, <1>4, <1>5, <1>6, <1>7, PlainStep, ZenonT(60)

\* Suspending, beginning to go offline, and the end of coming online.
LEMMA PowerStep ==
    ASSUME IInv, TypeOK', NEW c \in CPU,
           power_cpu_suspend(c) \/ idle_yield(c) \/ count_online(c)
    PROVE  Safe'
<1> USE DEF timers, queues, bounds
<1>0. TypeOK
    BY DEF IInv
<1>1. /\ pc[c] = "run" \/ pc[c] = "warm"
      /\ \/ pc' = [pc EXCEPT ![c] = "suspended"]
         \/ pc' = [pc EXCEPT ![c] = "wait_online"]
         \/ pc' = [pc EXCEPT ![c] = "run"]
      /\ UNCHANGED <<queue, timeout, list, tq_timeout, lock, online, hw, sync, arg, old_tq, new_timeout, nested>>
    BY ZenonT(60) DEF power_cpu_suspend, idle_yield, count_online
<1>2. /\ pc'[c] = "suspended" \/ pc'[c] = "wait_online" \/ pc'[c] = "run"
      /\ \A d \in CPU \ {c} : pc'[d] = pc[d]
    BY <1>0, <1>1, ZenonT(60) DEF TypeOK
<1>3. Others(c)
    BY <1>1, <1>2, ZenonT(60) DEF Others
<1>4. pc'[c] \in Plain
    BY <1>2, SMTT(60) DEF Plain
<1>5. /\ ~nested[c] /\ pc[c] \notin {"migrate", "panic_target"}
      /\ hw[c] <= tq_timeout[c] \/ sync[c]
    BY <1>1, AtRun, SMTT(60)
<1>6. ~nested'[c] /\ (hw'[c] <= tq_timeout'[c] \/ Looking(c)')
    BY <1>1, <1>5, ZenonT(60) DEF Looking
<1>7. \A d \in CPU \ {c} : (online'[d] <=> online[d]) /\ hw'[d] = hw[d] /\ (sync[d] => sync'[d])
    BY <1>1, ZenonT(60)
<1> QED
    BY <1>1, <1>3, <1>4, <1>5, <1>6, <1>7, PlainStep, ZenonT(60)

\* A queue that opens is empty.
LEMMA OnlineStep ==
    ASSUME IInv, TypeOK', NEW c \in CPU, power_cpu_online(c)
    PROVE  Safe'
<1> USE DEF timers, queues, bounds
<1>0. TypeOK /\ ListedWhereQueued /\ Timeouts
    BY DEF IInv
<1>1. /\ pc[c] = "off" /\ pc' = [pc EXCEPT ![c] = "warm"]
      /\ online' = [online EXCEPT ![c] = TRUE]
      /\ UNCHANGED <<queue, timeout, list, tq_timeout, lock, hw, sync, arg, old_tq, new_timeout, nested>>
    BY ZenonT(60) DEF power_cpu_online
<1>2. pc'[c] = "warm" /\ \A d \in CPU \ {c} : pc'[d] = pc[d]
    BY <1>0, <1>1, ZenonT(60) DEF TypeOK
<1>3. Others(c)
    BY <1>1, <1>2, ZenonT(60) DEF Others
<1>4. /\ pc'[c] \in Plain /\ pc[c] \notin Locking /\ pc[c] \notin {"migrate", "panic_target"}
    BY <1>1, <1>2, SMTT(60) DEF Plain, Locking
<1>5. ~nested'[c]
    BY <1>1, <1>4, ZenonT(60) DEF IInv, Locks
<1>6. hw'[c] <= tq_timeout'[c]
    <2>1. list[c] = {}
        BY <1>1, ZenonT(60) DEF IInv, Draining
    <2>2. tq_timeout[c] = Invalid
        BY <1>0, <2>1, EmptyList, SMTT(60)
    <2>3. hw[c] \in Timeout
        BY <1>0 DEF TypeOK
    <2> QED
        BY <1>1, <2>2, <2>3, Constants, ZenonT(60)
<1>7. \A d \in CPU \ {c} : (online'[d] <=> online[d]) /\ hw'[d] = hw[d] /\ (sync[d] => sync'[d])
    BY <1>0, <1>1, ZenonT(60) DEF TypeOK
<1> QED
    BY <1>1, <1>3, <1>4, <1>5, <1>6, <1>7, PlainStep, ZenonT(60)

\* Steps between the states in which a queue is closed, and into them.
LEMMA CloseStep ==
    ASSUME IInv, TypeOK', NEW c \in CPU, NEW l \in Closed, pc' = [pc EXCEPT ![c] = l],
           pc[c] \in {"wait_online", "drain", "migrate"}, Others(c), ~online'[c],
           UNCHANGED <<queue, timeout, list, tq_timeout, lock, sync, nested>>,
           \A d \in CPU \ {c} : (online'[d] <=> online[d]) /\ hw'[d] = hw[d],
           l \in {"migrate", "panic_target"} => pc[c] = "migrate" /\ UNCHANGED arg,
           l = "off" => list[c] = {},
           pc[c] = "migrate" => l \in {"migrate", "panic_target"} \/ queue[arg[c]] # c
    PROVE  Safe'
<1>0. TypeOK
    BY DEF IInv
<1>1. pc'[c] = l
    BY <1>0, ZenonT(60) DEF TypeOK
<1>2. /\ pc'[c] \notin Locking /\ pc[c] \notin Locking /\ pc'[c] \in Closed
      /\ pc'[c] \notin {"dequeue", "update_dequeue"}
      /\ pc'[c] \notin {"update_dequeue", "update_enqueue"}
      /\ pc'[c] # "update_enqueue" /\ pc'[c] # "panic_queued"
      /\ pc[c] \in {"migrate", "panic_target"} => pc[c] = "migrate"
    BY <1>1, SMTT(60) DEF Locking, Closed
<1>3. ~nested'[c]
    BY <1>2, ZenonT(60) DEF IInv, Locks
<1>4. pc'[c] \in {"migrate", "panic_target"} => arg'[c] \in Timer /\ arg'[c] \notin list'[c]
    <2>1. pc[c] = "migrate" => arg[c] \in Timer /\ arg[c] \notin list[c]
        BY SMTT(60) DEF IInv, Draining
    <2> QED
        BY <1>1, <2>1, ZenonT(60)
<1>5. \A u \in Timer : Migrating(c, u) /\ queue[u] = c => Migrating(c, u)'
    <2> TAKE u \in Timer
    <2> HAVE Migrating(c, u) /\ queue[u] = c
    <2>1. pc[c] = "migrate" /\ arg[c] = u
        BY <1>2, ZenonT(60) DEF Migrating
    <2>2. l \in {"migrate", "panic_target"}
        BY <2>1, ZenonT(60)
    <2> QED
        BY <1>1, <2>1, <2>2, ZenonT(60) DEF Migrating
<1>6. pc'[c] = "off" => list'[c] = {}
    BY <1>1
<1>7. \A d \in CPU \ {c} : (online'[d] <=> online[d]) /\ hw'[d] = hw[d] /\ (sync[d] => sync'[d])
    BY ZenonT(60)
<1> QED
    BY <1>2, <1>3, <1>4, <1>5, <1>6, <1>7, QuietStep, ZenonT(60)

\* power_cpu_offline, the end of the loop that drains a queue, and the steps
\* of the loop that move no timer.
LEMMA DrainStep ==
    ASSUME IInv, TypeOK', NEW c \in CPU,
           \/ power_cpu_offline(c)
           \/ offline_next(c) /\ tq_timeout[c] = Invalid
           \/ try_move_to_cpu(c) /\ (~CanTake(target[c]) \/ queue[arg[c]] # c)
    PROVE  Safe'
<1> USE DEF timers, queues, bounds
<1>0. TypeOK /\ ListedWhereQueued /\ Timeouts
    BY DEF IInv
<1>c. "drain" \in Closed /\ "off" \in Closed /\ "migrate" \in Closed /\ "panic_target" \in Closed
    BY DEF Closed
<1>1. CASE power_cpu_offline(c)
    <2>1. /\ pc[c] = "wait_online" /\ pc' = [pc EXCEPT ![c] = "drain"]
          /\ online' = [online EXCEPT ![c] = FALSE]
          /\ hw' = [hw EXCEPT ![c] = Invalid]
          /\ UNCHANGED <<queue, timeout, list, tq_timeout, lock, sync, arg, old_tq, new_timeout, nested>>
        BY <1>1, ZenonT(60) DEF power_cpu_offline
    <2>2. \A d \in CPU \ {c} : pc'[d] = pc[d] /\ hw'[d] = hw[d]
        BY <1>0, <2>1, ZenonT(60) DEF TypeOK
    <2>3. ~online'[c] /\ \A d \in CPU \ {c} : online'[d] <=> online[d]
        BY <1>0, <2>1, ZenonT(60) DEF TypeOK
    <2>4. Others(c)
        BY <2>1, <2>2, ZenonT(60) DEF Others
    <2>5. \A d \in CPU \ {c} : (online'[d] <=> online[d]) /\ hw'[d] = hw[d]
        BY <2>2, <2>3, ZenonT(60)
    <2>6. pc[c] \in {"wait_online", "drain", "migrate"} /\ pc[c] # "migrate"
        BY <2>1, SMTT(60)
    <2>7. "drain" \notin {"migrate", "panic_target"} /\ "drain" # "off"
        OBVIOUS
    <2> QED
        BY <1>c, <2>1, <2>3, <2>4, <2>5, <2>6, <2>7, CloseStep, ZenonT(60)
<1>2. CASE offline_next(c) /\ tq_timeout[c] = Invalid
    <2>1. /\ pc[c] = "drain" /\ pc' = [pc EXCEPT ![c] = "off"]
          /\ arg' = [arg EXCEPT ![c] = None]
          /\ UNCHANGED <<queue, timeout, list, tq_timeout, lock, online, hw, sync, old_tq, new_timeout, nested>>
        BY <1>2, ZenonT(60) DEF offline_next
    <2>2. \A d \in CPU \ {c} : pc'[d] = pc[d] /\ arg'[d] = arg[d]
        BY <1>0, <2>1, ZenonT(60) DEF TypeOK
    <2>3. ~online'[c]
        <3>1. ~online[c]
            BY <2>1, SMTT(60) DEF IInv, Draining
        <3> QED
            BY <2>1, <3>1, ZenonT(60)
    <2>4. Others(c)
        BY <2>1, <2>2, ZenonT(60) DEF Others
    <2>5. \A d \in CPU \ {c} : (online'[d] <=> online[d]) /\ hw'[d] = hw[d]
        BY <2>1, ZenonT(60)
    <2>6. pc[c] \in {"wait_online", "drain", "migrate"} /\ pc[c] # "migrate"
        BY <2>1, SMTT(60)
    <2>7. list[c] = {}
        BY <1>0, <1>2, EmptyList, SMTT(60)
    <2>8. "off" \notin {"migrate", "panic_target"}
        OBVIOUS
    <2> QED
        BY <1>c, <2>1, <2>3, <2>4, <2>5, <2>6, <2>7, <2>8, CloseStep, ZenonT(60)
<1>3. CASE try_move_to_cpu(c) /\ (~CanTake(target[c]) \/ queue[arg[c]] # c)
    <2>1. PICK l \in {"drain", "migrate", "panic_target"} :
             /\ pc[c] = "migrate" /\ pc' = [pc EXCEPT ![c] = l]
             /\ l = "drain" => queue[arg[c]] # c
             /\ UNCHANGED <<queue, timeout, list, tq_timeout, lock, online, hw, sync, arg, old_tq, new_timeout, nested>>
        <3>1. CASE CanTake(target[c])
            <4>1. /\ pc[c] = "migrate" /\ pc' = [pc EXCEPT ![c] = "drain"]
                  /\ Insert(c, arg[c], target[c])
                  /\ UNCHANGED <<timeout, lock, online, hw, arg, old_tq, new_timeout, nested>>
                BY <1>3, <3>1, ZenonT(60) DEF try_move_to_cpu
            <4>2. UNCHANGED <<queue, list, tq_timeout, sync>> /\ queue[arg[c]] # c
                BY <1>3, <3>1, <4>1, ZenonT(60) DEF Insert
            <4> WITNESS "drain" \in {"drain", "migrate", "panic_target"}
            <4> QED
                BY <4>1, <4>2, ZenonT(60)
        <3>2. CASE ~CanTake(target[c])
            <4> DEFINE k == IF NextTarget(c) = start[c] THEN "panic_target" ELSE pc[c]
            <4>1. /\ pc[c] = "migrate" /\ pc' = [pc EXCEPT ![c] = k]
                  /\ UNCHANGED <<queue, timeout, list, tq_timeout, lock, online, hw, sync, arg, old_tq, new_timeout, nested>>
                BY <1>3, <3>2, ZenonT(60) DEF try_move_to_cpu
            <4>2. k \in {"drain", "migrate", "panic_target"} /\ k # "drain"
                BY <4>1
            <4> HIDE DEF k
            <4> QED
                BY <4>1, <4>2, ZenonT(60)
        <3> QED
            BY <3>1, <3>2
    <2>2. \A d \in CPU \ {c} : pc'[d] = pc[d]
        BY <1>0, <2>1, ZenonT(60) DEF TypeOK
    <2>3. ~online'[c]
        <3>1. ~online[c]
            BY <2>1, SMTT(60) DEF IInv, Draining
        <3> QED
            BY <2>1, <3>1, ZenonT(60)
    <2>4. Others(c)
        BY <2>1, <2>2, ZenonT(60) DEF Others
    <2>5. \A d \in CPU \ {c} : (online'[d] <=> online[d]) /\ hw'[d] = hw[d]
        BY <2>1, ZenonT(60)
    <2>6. /\ l \in Closed /\ l # "off" /\ pc[c] \in {"wait_online", "drain", "migrate"}
          /\ l \in {"migrate", "panic_target"} \/ queue[arg[c]] # c
        BY <1>c, <2>1
    <2> QED
        BY <2>1, <2>3, <2>4, <2>5, <2>6, CloseStep, ZenonT(60)
<1> QED
    BY <1>1, <1>2, <1>3, SMTT(60)

\* The calls of the timer interface.
LEMMA CallStep ==
    ASSUME IInv, TypeOK', NEW c \in CPU, Call(c)
    PROVE  Safe'
<1> USE DEF timers, queues, bounds
<1>0. TypeOK
    BY DEF IInv
<1>1. PICK t \in Timer :
         \/ timer_dequeue(c, t)
         \/ \E v \in Tick :
               timer_enqueue(c, t, v) \/ timer_update_local(c, t, v) \/ timer_update_remote(c, t, v)
    BY ZenonT(60) DEF Call
<1>2. pc[c] \in {"run", "action"} /\ pc[c] \in {"run", "action", "update_enqueue"} /\ lock[t] = None
    <2>1. Begin(c, t)
        BY <1>1, ZenonT(60) DEF timer_dequeue, timer_enqueue, timer_update_local, timer_update_remote
    <2> QED
        BY <2>1, ZenonT(60) DEF Begin
<1>3. CASE timer_dequeue(c, t)
    <2>1. CASE queue[t] = None
        <3>1. Return(c) /\ UNCHANGED <<queue, timeout, list, tq_timeout, lock, online, hw, sync>>
            BY <1>3, <2>1, ZenonT(60) DEF timer_dequeue
        <3> QED
            BY <1>2, <3>1, ReturnStep, ZenonT(60)
    <2>2. CASE queue[t] # None
        <3>1. /\ pc' = [pc EXCEPT ![c] = "dequeue"]
              /\ nested' = [nested EXCEPT ![c] = pc[c] = "action"]
              /\ arg' = [arg EXCEPT ![c] = t]
              /\ old_tq' = [old_tq EXCEPT ![c] = queue[t]]
              /\ lock' = [lock EXCEPT ![t] = c]
              /\ UNCHANGED <<queue, timeout, list, tq_timeout, online, hw, sync, new_timeout>>
            BY <1>3, <2>2, ZenonT(60) DEF timer_dequeue
        <3>2. \A d \in CPU \ {c} : new_timeout'[d] = new_timeout[d]
            BY <3>1
        <3>3. "dequeue" \in {"dequeue", "update_dequeue"} /\ "dequeue" # "update_dequeue"
            OBVIOUS
        <3> QED
            BY <1>2, <2>2, <3>1, <3>2, <3>3, LoadStep, ZenonT(60)
    <2> QED
        BY <2>1, <2>2
<1>4. ASSUME NEW v \in Tick, timer_enqueue(c, t, v)
      PROVE  Safe'
    <2>1. queue[t] = None /\ EnqueueInternal(c, t, v) /\ Return(c) /\ UNCHANGED <<online, sync, lock>>
        BY <1>4, ZenonT(60) DEF timer_enqueue
    <2>2. lock[t] \in {None, c} /\ \A u \in Timer \ {t} : lock'[u] = lock[u]
        BY <1>2, <2>1, ZenonT(60)
    <2> QED
        BY <1>2, <2>1, <2>2, EnqueueStep, ZenonT(60)
<1>5. ASSUME NEW v \in Tick, timer_update_local(c, t, v)
      PROVE  Safe'
    <2>1. /\ queue[t] \in {None, c} /\ Return(c) /\ UNCHANGED <<online, sync, lock>>
          /\ queue[t] = c => UNCHANGED queue /\ \E h \in HeadOf(c) : UpdateInternal(c, t, v, h)
          /\ queue[t] # c => EnqueueInternal(c, t, v)
        BY <1>5, ZenonT(60) DEF timer_update_local
    <2>2. CASE queue[t] = c
        <3>1. PICK h \in HeadOf(c) : UpdateInternal(c, t, v, h)
            BY <2>1, <2>2, ZenonT(60)
        <3> QED
            BY <1>2, <2>1, <2>2, <3>1, UpdateStep, ZenonT(60)
    <2>3. CASE queue[t] # c
        <3>1. queue[t] = None /\ EnqueueInternal(c, t, v)
            BY <2>1, <2>3, ZenonT(60)
        <3>2. lock[t] \in {None, c} /\ \A u \in Timer \ {t} : lock'[u] = lock[u]
            BY <1>2, <2>1, ZenonT(60)
        <3> QED
            BY <1>2, <2>1, <3>1, <3>2, EnqueueStep, ZenonT(60)
    <2> QED
        BY <2>2, <2>3
<1>6. ASSUME NEW v \in Tick, timer_update_remote(c, t, v)
      PROVE  Safe'
    <2>1. /\ queue[t] # None
          /\ pc' = [pc EXCEPT ![c] = "update_dequeue"]
          /\ nested' = [nested EXCEPT ![c] = pc[c] = "action"]
          /\ arg' = [arg EXCEPT ![c] = t]
          /\ old_tq' = [old_tq EXCEPT ![c] = queue[t]]
          /\ new_timeout' = [new_timeout EXCEPT ![c] = v]
          /\ lock' = [lock EXCEPT ![t] = c]
          /\ UNCHANGED <<queue, timeout, list, tq_timeout, online, hw, sync>>
        BY <1>6, ZenonT(60) DEF timer_update_remote
    <2>2. new_timeout'[c] = v /\ \A d \in CPU \ {c} : new_timeout'[d] = new_timeout[d]
        BY <1>0, <2>1, ZenonT(60) DEF TypeOK
    <2>3. "update_dequeue" \in {"dequeue", "update_dequeue"} /\ new_timeout'[c] \in Tick
        BY <2>2, SMTT(60)
    <2> QED
        BY <1>2, <2>1, <2>2, <2>3, LoadStep, ZenonT(60)
<1> QED
    BY <1>1, <1>3, <1>4, <1>5, <1>6, ZenonT(60)

\* timer_update enqueues the timer that it has taken off another queue.
LEMMA UpdateEnqueueStep ==
    ASSUME IInv, TypeOK', NEW c \in CPU, update_enqueue(c)
    PROVE  Safe'
<1> USE DEF timers, queues, bounds
<1>0. TypeOK
    BY SMTT(60) DEF IInv
<1>1. pc[c] = "update_enqueue"
    BY ZenonT(60) DEF update_enqueue
<1>2. /\ arg[c] \in Timer /\ lock[arg[c]] = c
      /\ new_timeout[c] \in Tick /\ queue[arg[c]] = None
    BY <1>1, SMTT(60) DEF IInv, Locks, Pointers, Locking
<1>3. PICK t \in Timer, v \in Tick : t = arg[c] /\ v = new_timeout[c]
    BY <1>2
<1>4. /\ EnqueueInternal(c, t, v) /\ Return(c) /\ UNCHANGED <<online, sync>>
      /\ lock' = [lock EXCEPT ![t] = None]
    BY <1>2, <1>3, ZenonT(60) DEF update_enqueue
<1>5. /\ lock[t] \in {None, c} /\ queue[t] = None
      /\ \A u \in Timer \ {t} : lock'[u] = lock[u]
    BY <1>0, <1>2, <1>3, <1>4, ZenonT(60) DEF TypeOK
<1>6. pc[c] \in {"run", "action", "update_enqueue"}
    BY <1>1
<1> QED
    BY <1>4, <1>5, <1>6, EnqueueStep, ZenonT(60)

\* The other steps that a core takes by itself.
LEMMA CoreStep ==
    ASSUME IInv, TypeOK', NEW c \in CPU, Step(c)
    PROVE  Safe'
<1> USE DEF timers, queues, bounds
<1>0. TypeOK
    BY SMTT(60) DEF IInv
<1>1. CASE dequeue_finish(c)
    BY <1>1, DequeueFinishStep
<1>2. CASE update_dequeue(c)
    BY <1>2, UpdateDequeueStep
<1>3. CASE update_enqueue(c)
    BY <1>3, UpdateEnqueueStep
<1>4. CASE platform_timer_expiry(c) \/ power_cpu_resume(c)
    <2>1. pc[c] \in {"run", "suspended"} /\ DequeueExpired(c) /\ UNCHANGED sync
        BY <1>4, ZenonT(60) DEF platform_timer_expiry, power_cpu_resume
    <2>2. \A d \in CPU \ {c} : sync'[d] <=> sync[d]
        BY <2>1, ZenonT(60)
    <2> QED
        BY <2>1, <2>2, ExpiryStep, ZenonT(60)
<1>5. CASE ipi_received(c)
    <2>1. pc[c] \in {"run", "suspended"} /\ DequeueExpired(c) /\ sync' = [sync EXCEPT ![c] = FALSE]
        BY <1>5, ZenonT(60) DEF ipi_received
    <2>2. \A d \in CPU \ {c} : sync'[d] <=> sync[d]
        BY <1>0, <2>1, ZenonT(60) DEF TypeOK
    <2> QED
        BY <2>1, <2>2, ExpiryStep, ZenonT(60)
<1>6. CASE expired_next(c)
    BY <1>6, ExpireStep, ProgramStep, ZenonT(60)
<1>7. CASE action_return(c)
    <2>1. /\ pc[c] \in {"run", "action"} /\ Return(c)
          /\ UNCHANGED <<queue, timeout, list, tq_timeout, lock, online, hw, sync>>
        BY <1>7, ZenonT(60) DEF action_return
    <2> QED
        BY <2>1, ReturnStep, ZenonT(60)
<1>8. CASE power_cpu_offline(c)
    BY <1>8, DrainStep
<1>9. CASE offline_next(c)
    BY <1>9, DrainStep, TakeStep, ZenonT(60)
<1>10. CASE try_move_to_cpu(c)
    BY <1>10, DrainStep, MoveStep, ZenonT(60)
<1>11. CASE count_online(c)
    BY <1>11, PowerStep
<1> QED
    BY <1>1, <1>2, <1>3, <1>4, <1>5, <1>6, <1>7, <1>8, <1>9, <1>10, <1>11, ZenonT(60) DEF Step

\* Every step preserves the rest of the invariant.
LEMMA SafeNext ==
    ASSUME IInv, TypeOK', [Next]_vars
    PROVE  Safe'
<1>1. CASE tick \/ UNCHANGED vars
    <2>1. UNCHANGED <<queue, timeout, lock, list, tq_timeout, online, hw, sync, pc, arg, old_tq,
                      new_timeout, nested>>
        BY <1>1, ZenonT(60) DEF tick, vars, timers, queues, local, bounds
    <2>2. Locks' /\ Pointers'
        BY <2>1, ZenonT(60) DEF IInv, Locks, Pointers
    <2>3. Draining' /\ ListedWhereQueued'
        BY <2>1, ZenonT(60) DEF IInv, Draining, ListedWhereQueued, Migrating
    <2>4. Timeouts' /\ Armed'
        BY <2>1, ZenonT(60) DEF IInv, Timeouts, Armed, Looking, Earliest
    <2> QED
        BY <2>2, <2>3, <2>4 DEF Safe
<1>2. ASSUME NEW c \in CPU,
             Step(c) \/ Call(c) \/ power_cpu_suspend(c) \/ idle_yield(c) \/ power_cpu_online(c)
      PROVE  Safe'
    BY <1>2, CoreStep, CallStep, PowerStep, OnlineStep, ZenonT(60)
<1> QED
    BY <1>1, <1>2, ZenonT(60) DEF Next

\* It holds at boot.
LEMMA InitInv == Init => IInv
<1> HAVE Init
<1>1. TypeOK
    <2>1. /\ queue \in [Timer -> Queue] /\ lock \in [Timer -> Queue]
          /\ timeout \in [Timer -> Timeout]
        BY Constants, LabelType, ZenonT(60) DEF Init
    <2>2. /\ list \in [CPU -> SUBSET Timer] /\ tq_timeout \in [CPU -> Timeout]
          /\ hw \in [CPU -> Timeout] /\ now \in Tick
        BY Constants, ZenonT(60) DEF Init
    <2>3. online \in [CPU -> BOOLEAN] /\ sync \in [CPU -> BOOLEAN] /\ nested \in [CPU -> BOOLEAN]
        BY ZenonT(60) DEF Init
    <2>4. pc \in [CPU -> Label] /\ arg \in [CPU -> Timer \cup {None}] /\ old_tq \in [CPU -> Queue]
        BY LabelType, ZenonT(60) DEF Init
    <2>5. new_timeout \in [CPU -> Timeout] /\ ticks \in [CPU -> Tick]
        BY Constants, ZenonT(60) DEF Init
    <2>6. calls \in Nat
        BY SMTT(60) DEF Init
    <2> QED
        BY <2>1, <2>2, <2>3, <2>4, <2>5, <2>6, SMTT(60) DEF TypeOK
<1>2. \A c \in CPU : /\ pc[c] \in {"run", "off"}
                     /\ pc[c] = "off" => ~online[c]
                     /\ ~nested[c]
    BY ZenonT(60) DEF Init
<1>3. /\ \A t \in Timer : queue[t] = None
      /\ \A c \in CPU : list[c] = {} /\ tq_timeout[c] = Invalid /\ hw[c] = Invalid
    BY ZenonT(60) DEF Init
<1>4. Locks /\ Pointers
    BY <1>2, SMTT(60) DEF Locks, Pointers, Locking
<1>5. Draining
    BY <1>2, <1>3, SMTT(60) DEF Draining
<1>6. ListedWhereQueued
    BY <1>3, Constants, ZenonT(60) DEF ListedWhereQueued
<1>7. Timeouts
    BY <1>3, ZenonT(60) DEF Timeouts, Earliest
<1>8. Armed
    BY <1>3, Constants, ZenonT(60) DEF Armed
<1> QED
    BY <1>1, <1>4, <1>5, <1>6, <1>7, <1>8, SMTT(60) DEF IInv

-----------------------------------------------------------------------------
(* The results                                                             *)

\* The inductive invariant: the interleavings of the timer calls, the expiry
\* loops and the migrations of cores that go offline preserve the agreement
\* of locks, queue pointers, lists, cached timeouts and hardware timers.
THEOREM Invariance == Spec => []IInv
<1>1. IInv /\ [Next]_vars => IInv'
    <2> SUFFICES ASSUME IInv, [Next]_vars PROVE IInv'
        OBVIOUS
    <2>1. TypeOK'
        BY TypeNext
    <2> QED
        BY <2>1, SafeNext DEF IInv, Safe
<1> QED
    BY InitInv, <1>1, PTL DEF Spec

\* A timer is on a list exactly if its queue pointer names that list's core,
\* or that core is moving it: timer_dequeue, timer_update, the expiry loop and
\* timer_handle_power_cpu_offline leave it on one list or none.
THEOREM TimersAreListedWhereQueued == Spec => []ListedWhereQueued
<1>1. IInv => ListedWhereQueued
    BY DEF IInv
<1> QED
    BY Invariance, <1>1, PTL

\* tq->timeout is that of the earliest timer of the list, and the hardware
\* timer of a core that is up fires no later, or the core has an IPI pending
\* or is in timer_dequeue_expired and looks at the queue before it returns.
THEOREM NoTimeoutIsLost == Spec => []NoLostTimeout
<1>1. IInv => NoLostTimeout
    <2> SUFFICES ASSUME IInv, NEW c \in CPU
                 PROVE  /\ tq_timeout[c] = Earliest(list[c], timeout)
                        /\ Up(c) => hw[c] <= tq_timeout[c] \/ Looking(c)
        BY ZenonT(60) DEF NoLostTimeout
    <2>1. Up(c) => pc[c] \notin {"off", "drain", "migrate", "panic_target"}
        BY ZenonT(60) DEF Up
    <2> QED
        BY <2>1, ZenonT(60) DEF IInv, Timeouts, Armed
<1> QED
    BY Invariance, <1>1, PTL

\* Only EnqueueInternal and Insert set a queue pointer to a core.
LEMMA OnlyCallsQueue ==
    ASSUME IInv, Next, NEW t \in Timer, queue[t] = None, queue'[t] # None
    PROVE  calls' # calls \/ (pc[queue'[t]] = "update_enqueue" /\ arg[queue'[t]] = t)
<1> USE DEF timers, queues, local, bounds
<1>0. TypeOK
    BY DEF IInv
<1>1. CASE tick
    BY <1>1, ZenonT(60) DEF tick
<1>2. ASSUME NEW c \in CPU, Call(c)
      PROVE  calls' # calls
    <2>1. calls' = calls + 1
        BY <1>2, ZenonT(60) DEF Call, Begin, timer_dequeue, timer_enqueue, timer_update_local,
                                timer_update_remote
    <2>2. calls \in Nat
        BY <1>0, SMTT(60) DEF TypeOK
    <2> QED
        BY <2>1, <2>2, SMTT(60)
<1>3. ASSUME NEW c \in CPU, update_enqueue(c)
      PROVE  pc[queue'[t]] = "update_enqueue" /\ arg[queue'[t]] = t
    <2>1. pc[c] = "update_enqueue"
        BY <1>3, ZenonT(60) DEF update_enqueue
    <2>2. arg[c] \in Timer
        BY <2>1, SMTT(60) DEF IInv, Locks, Locking
    <2>3. queue' = [queue EXCEPT ![arg[c]] = c] \/ queue' = queue
        BY <1>3, ZenonT(60) DEF update_enqueue, EnqueueInternal
    <2>4. arg[c] = t /\ queue'[t] = c
        BY <1>0, <2>2, <2>3, ZenonT(60) DEF TypeOK
    <2> QED
        BY <2>1, <2>4
<1>4. ASSUME NEW c \in CPU, dequeue_finish(c) \/ update_dequeue(c) \/ expired_next(c)
      PROVE  FALSE
    <2>1. (\E u : queue' = [queue EXCEPT ![u] = None]) \/ queue' = queue
        BY <1>4, ZenonT(60) DEF dequeue_finish, update_dequeue, expired_next
    <2> QED
        BY <1>0, <2>1, ZenonT(60) DEF TypeOK
<1>5. ASSUME NEW c \in CPU, try_move_to_cpu(c)
      PROVE  FALSE
    <2>1. \/ queue[arg[c]] = c /\ queue' = [queue EXCEPT ![arg[c]] = target[c]]
          \/ queue' = queue
        BY <1>5, ZenonT(60) DEF try_move_to_cpu, Insert
    <2>2. queue[arg[c]] = c => arg[c] # t
        BY Constants, ZenonT(60)
    <2> QED
        BY <1>0, <2>1, <2>2, ZenonT(60) DEF TypeOK
<1>6. ASSUME NEW c \in CPU,
             \/ platform_timer_expiry(c) \/ ipi_received(c) \/ action_return(c) \/ power_cpu_resume(c)
             \/ power_cpu_offline(c) \/ offline_next(c) \/ count_online(c)
             \/ power_cpu_suspend(c) \/ idle_yield(c) \/ power_cpu_online(c)
      PROVE  FALSE
    <2>1. queue' = queue
        BY <1>6, ZenonT(60) DEF platform_timer_expiry, ipi_received, action_return, power_cpu_resume,
            power_cpu_offline, offline_next, count_online, power_cpu_suspend, idle_yield,
            power_cpu_online, DequeueExpired
    <2> QED
        BY <2>1
<1> QED
    BY <1>1, <1>2, <1>3, <1>4, <1>5, <1>6, ZenonT(60) DEF Next, Step

\* A timer that is not queued becomes queued only by a call of timer_enqueue or
\* timer_update on the core that makes it: a migration that lost a race with
\* timer_dequeue or the expiry loop never brings the timer back.
THEOREM DequeuedTimersStayOff == Spec => DequeuedStaysOff
<1>1. IInv /\ [Next]_vars =>
         [\A t \in Timer :
             queue[t] = None /\ queue'[t] # None =>
                calls' # calls \/ (pc[queue'[t]] = "update_enqueue" /\ arg[queue'[t]] = t)]_vars
    BY OnlyCallsQueue, ZenonT(60)
<1> QED
    BY Invariance, <1>1, PTL DEF Spec, DequeuedStaysOff
=============================================================================
