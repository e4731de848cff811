------------------------------- MODULE CSpace -------------------------------
(***************************************************************************)
(* Capability spaces and object lifetimes: cspace_twolevel, the object     *)
(* headers of object_standard and partition_standard, and reference counts.*)
(*                                                                         *)
(* A cspace is a two-level table of capability slots.  A slot's data is    *)
(* read without a lock, in an RCU read section, and changed by a           *)
(* compare-and-swap under the lock of the object it refers to.  All valid  *)
(* caps of an object are on its cap_list, which owns one reference.        *)
(* Cap tables and objects are freed by RCU callbacks.                      *)
(*                                                                         *)
(* One step is one atomic access, or one section under a spinlock: all     *)
(* that a section changes is protected by its lock.  A cap is named by its *)
(* table and slot, as its address is.  RCU is taken to keep the promise    *)
(* that module RcuBitmap states as GracePeriod.                            *)
(***************************************************************************)
EXTENDS Integers, FiniteSets, SequencesExt

CONSTANTS Proc,       \* contexts that make calls and run RCU callbacks
          Cspace, Object,
          Table,      \* memory blocks that can hold a cap table
          NumTables,  \* CSPACE_NUM_CAP_TABLES
          NumSlots,   \* CAP_TABLE_NUM_CAP_SLOTS
          MaxCaps,    \* max_caps of each cspace
          Right,      \* rights a cap may carry
          MayCreate,  \* cspaces that objects' master caps are created in
          MayDrop,    \* cspaces that may lose their last cap
          Copies,     \* destinations and sources of copies
          Calls,      \* which contexts make which calls
          None

ASSUME SizesPositive == NumTables \in Nat \ {0} /\ NumSlots \in Nat \ {0}
ASSUME LimitNat == MaxCaps \in [Cspace -> Nat]
ASSUME NamesDistinct == Object \cap Cspace = {} /\ Table \cap (Object \cup Cspace) = {}
                        /\ None \notin Object \cup Cspace \cup Table

VARIABLES cs,         \* the cspaces' tables, bitmaps, counts and revoked lists
          tab,        \* the cap tables
          hdr,        \* the object headers, of objects and of cspaces
          reachable,  \* cspaces that still have a cap
          rcu,        \* enqueued RCU entries, with the readers each waits for
          readers,    \* contexts in an RCU read section
          th          \* what each context is doing

vars == <<cs, tab, hdr, reachable, rcu, readers, th>>

Upper == 0 .. NumTables - 1
Slot == 0 .. NumSlots - 1
Header == Object \cup Cspace
CapCall == {"lookup", "activate", "delete", "revoke"}

\* cap_data: the type of the object is part of the object.
NullCap == [state |-> "null", object |-> None, rights |-> {}, master |-> FALSE]

NoTable == [live |-> FALSE, cspace |-> None, index |-> 0, cap_count |-> 0,
            used |-> {}, data |-> [l \in Slot |-> NullCap]]
EmptyCspace == [tables |-> [u \in Upper |-> None], allocated |-> {},
                available |-> {}, cap_count |-> 0, revoked |-> {}]
NoObject == [live |-> FALSE, state |-> "init", count |-> 0, cap_list |-> <<>>]

\* th[p]: to is the cspace called on, or the destination of a copy; from is the
\* cspace of the cap called on; cap and new are cap slots; data is the cap data
\* read; refs are the references to put, next one first; free is an object
\* whose last reference p has put.  A call's other arguments, the index of its
\* cap and a set of rights, are chosen when they are first used.
Idle == [pc |-> "idle", op |-> None, to |-> None, from |-> None,
         mask |-> {}, table |-> None, index |-> 0,
         cap |-> None, new |-> None, data |-> NullCap, refs |-> <<>>, free |-> None]

Init ==
    /\ cs = [c \in Cspace |-> EmptyCspace]
    /\ tab = [t \in Table |-> NoTable]
    /\ hdr = [h \in Header |-> IF h \in Cspace
                               THEN [live |-> TRUE, state |-> "active",
                                     count |-> 1, cap_list |-> <<>>]
                               ELSE NoObject]
    /\ reachable = Cspace
    /\ rcu = {}
    /\ readers = {}
    /\ th = [p \in Proc |-> Idle]

At(p, l) == th[p].pc = l /\ th[p].free = None
Goto(p, l) == th' = [th EXCEPT ![p].pc = l]
DataOf(n) == tab[n[1]].data[n[2]]

\* The rest of a call or callback: end the read section, then put refs.
Ending(p) == [Idle EXCEPT !.pc = "finish", !.refs = th[p].refs,
                          !.op = IF th[p].op \in {"lookup", "activate", "callback"}
                                 THEN th[p].op ELSE None]
End(p) == th' = [th EXCEPT ![p] = Ending(p)]

WithData(tb, n, d) == [tb EXCEPT ![n[1]].data[n[2]] = d]
Lowest(S) == CHOOSE i \in S : \A j \in S : i <= j

rcu_enqueue(e) == rcu' = rcu \cup {[entry |-> e, wait |-> readers]}
rcu_read_start(p) == readers' = readers \cup {p}
rcu_read_finish(p) ==
    /\ readers' = readers \ {p}
    /\ rcu' = {[e EXCEPT !.wait = @ \ {p}] : e \in rcu}

-----------------------------------------------------------------------------
(* Calls.  The hypercall layer looks its cspaces up and holds a reference  *)
(* to each of them during the call.                                        *)

\* cspace_lookup_cspace on each of the cspaces rs of a call, then its start.
Begin(p, rs, rec) ==
    /\ At(p, "idle")
    /\ \A i \in 1 .. Len(rs) : rs[i] \in reachable
    /\ th' = [th EXCEPT ![p] = rec]

\* hypercall_partition_create_*: allocate the object, then its master cap.
partition_create(p, c, o) ==
    /\ <<p, "create">> \in Calls /\ c \in MayCreate /\ ~ hdr[o].live
    /\ Begin(p, <<c>>, [Idle EXCEPT !.pc = "alloc", !.op = "create", !.to = c,
                                    !.refs = <<c>>,
                                    !.data = [state |-> "valid", object |-> o,
                                              rights |-> Right, master |-> TRUE]])
    /\ hdr' = [hdr EXCEPT ![o] = [live |-> TRUE, state |-> "init", count |-> 1,
                                  cap_list |-> <<>>],
                          ![c].count = @ + 1]
    /\ rcu_read_start(p)
    /\ UNCHANGED <<cs, tab, reachable, rcu>>

\* cspace_copy_cap, called with the source and destination cspaces.
copy_begin(p, to, from) ==
    /\ <<p, "copy">> \in Calls /\ <<to, from>> \in Copies
    /\ Begin(p, <<to, from>>, [Idle EXCEPT !.pc = "alloc", !.op = "copy", !.to = to,
                                           !.from = from, !.refs = <<to, from>>])
    /\ hdr' = [h \in Header |-> [hdr[h] EXCEPT
                  !.count = @ + Cardinality({i \in 1 .. 2 : <<to, from>>[i] = h})]]
    /\ rcu_read_start(p)
    /\ UNCHANGED <<cs, tab, reachable, rcu>>

\* The calls that start by looking a cap up.
call_begin(p, op, from) ==
    /\ <<p, op>> \in Calls
    /\ Begin(p, <<from>>, [Idle EXCEPT !.pc = "lookup", !.op = op, !.to = from,
                                       !.from = from, !.refs = <<from>>])
    /\ hdr' = [hdr EXCEPT ![from].count = @ + 1]
    /\ rcu_read_start(p)
    /\ UNCHANGED <<cs, tab, reachable, rcu>>

\* The last cap of a cspace is deleted: the deleter puts its reference.
cspace_drop(p, c) ==
    /\ At(p, "idle") /\ <<p, "drop">> \in Calls /\ c \in MayDrop \cap reachable
    /\ reachable' = reachable \ {c}
    /\ th' = [th EXCEPT ![p] = [Idle EXCEPT !.pc = "put", !.refs = <<c>>]]
    /\ UNCHANGED <<cs, tab, hdr, rcu, readers>>

-----------------------------------------------------------------------------
(* References and object states                                            *)

\* object_put: drop the reference; the one that drops the last frees.
Put(p) == LET h == Head(th[p].refs) IN
    [th[p] EXCEPT !.refs = Tail(@), !.free = IF hdr[h].count = 1 THEN h ELSE None]

object_put(p) ==
    /\ At(p, "put") \/ At(p, "held")
    /\ hdr' = [hdr EXCEPT ![Head(th[p].refs)].count = @ - 1]
    /\ th' = [th EXCEPT ![p] = [Put(p) EXCEPT
                 !.pc = IF Len(th[p].refs) = 1 THEN "idle" ELSE "put"]]
    /\ UNCHANGED <<cs, tab, reachable, rcu, readers>>

\* ... of an object whose last cap is gone, before the call or callback goes on.
object_put_last(p) ==
    /\ At(p, "put_object")
    /\ hdr' = [hdr EXCEPT ![Head(th[p].refs)].count = @ - 1]
    /\ th' = [th EXCEPT ![p] =
                 IF th[p].op = "callback" THEN [Put(p) EXCEPT !.pc = "destroy"]
                 ELSE [Ending(p) EXCEPT !.refs = Put(p).refs, !.free = Put(p).free]]
    /\ UNCHANGED <<cs, tab, reachable, rcu, readers>>

\* object_free: mark the header, deactivate, and enqueue the destruction.
object_free(p) ==
    /\ th[p].free # None
    /\ hdr' = [hdr EXCEPT ![th[p].free].state = "destroying"]
    /\ rcu_enqueue(th[p].free)
    /\ th' = [th EXCEPT ![p].free = None]
    /\ UNCHANGED <<cs, tab, reachable, readers>>

\* object_activate: the type's handlers accept or refuse an INIT object.
object_activate(p) == LET o == Head(th[p].refs) IN
    /\ At(p, "activate")
    /\ \E s \in {"active", "failed"} :
         hdr' = [hdr EXCEPT ![o].state = IF @ = "init" THEN s ELSE @]
    /\ Goto(p, "put")
    /\ UNCHANGED <<cs, tab, reachable, rcu, readers>>

-----------------------------------------------------------------------------
(* Allocating and freeing cap slots                                        *)

\* How a call ends when its slot cannot be allocated: creation also puts the
\* object's first reference.
AllocFailed(p) ==
    [Ending(p) EXCEPT !.refs = IF th[p].op = "create" THEN <<th[p].data.object>> \o @ ELSE @]

\* Take a slot of table u into account, under cap_allocation_lock.
Counted(t, u, c) ==
    /\ tab' = [tab EXCEPT ![t].cap_count = @ + 1]
    /\ cs' = [cs EXCEPT ![c] = [@ EXCEPT
                 !.cap_count = @ + 1,
                 !.tables[u] = t,
                 !.available = IF tab[t].cap_count + 1 = NumSlots
                               THEN @ \ {u} ELSE @ \cup {u}]]

\* cspace_allocate_cap_slot: the limit, then a table with room if there is one.
allocate_locked(p) == LET c == th[p].to IN
    /\ At(p, "alloc")
    /\ \/ /\ cs[c].cap_count = MaxCaps[c]
          /\ th' = [th EXCEPT ![p] = AllocFailed(p)]
          /\ UNCHANGED <<cs, tab, rcu, readers>>
       \/ /\ cs[c].cap_count # MaxCaps[c] /\ cs[c].available # {}
          /\ LET u == Lowest(cs[c].available)
                 t == cs[c].tables[u]
             IN  /\ Counted(t, u, c)
                 /\ th' = [th EXCEPT ![p].pc = "slot", ![p].table = t]
          /\ UNCHANGED <<rcu, readers>>
       \/ /\ cs[c].cap_count # MaxCaps[c] /\ cs[c].available = {}
          /\ rcu_read_finish(p)
          /\ Goto(p, "table")
          /\ UNCHANGED <<cs, tab>>
    /\ UNCHANGED <<hdr, reachable>>

\* cspace_allocate_cap_table: claim an index, outside the read section.
claim_index(p) == LET c == th[p].to IN
    /\ At(p, "table")
    /\ IF cs[c].allocated = Upper
       THEN /\ rcu_read_start(p)
            /\ th' = [th EXCEPT ![p] = AllocFailed(p)]
            /\ UNCHANGED cs
       ELSE LET u == Lowest(Upper \ cs[c].allocated) IN
            /\ cs' = [cs EXCEPT ![c].allocated = @ \cup {u}]
            /\ th' = [th EXCEPT ![p].pc = "memory", ![p].index = u]
            /\ UNCHANGED readers
    /\ UNCHANGED <<tab, hdr, reachable, rcu>>

\* ... and get memory for the table, or give the index back.
allocate_memory(p) == LET c == th[p].to
                          u == th[p].index IN
    /\ At(p, "memory")
    /\ \/ \E t \in {x \in Table : ~ tab[x].live} :
            /\ tab' = [tab EXCEPT ![t] = [NoTable EXCEPT !.live = TRUE, !.cspace = c,
                                                         !.index = u]]
            /\ th' = [th EXCEPT ![p].pc = "attach", ![p].table = t, ![p].index = 0]
            /\ UNCHANGED <<cs, readers>>
       \/ /\ \A x \in Table : tab[x].live
          /\ cs' = [cs EXCEPT ![c].allocated = @ \ {u}]
          /\ th' = [th EXCEPT ![p] = AllocFailed(p)]
          /\ rcu_read_start(p)
          /\ UNCHANGED tab
    /\ UNCHANGED <<hdr, reachable, rcu>>

\* Back in the read section: attach the table and count the slot.
attach_table(p) ==
    /\ At(p, "attach")
    /\ rcu_read_start(p)
    /\ Counted(th[p].table, tab[th[p].table].index, th[p].to)
    /\ Goto(p, "slot")
    /\ UNCHANGED <<hdr, reachable, rcu>>

\* Claim a slot of the table; a full bitmap is a panic.
claim_slot(p) == LET t == th[p].table
                     free == Slot \ tab[t].used IN
    /\ At(p, "slot")
    /\ IF free = {}
       THEN Goto(p, "panic") /\ UNCHANGED tab
       ELSE /\ tab' = [tab EXCEPT ![t].used = @ \cup {Lowest(free)}]
            /\ th' = [th EXCEPT ![p].pc = IF th[p].op = "create" THEN "insert" ELSE "lookup",
                                ![p].new = <<t, Lowest(free)>>, ![p].table = None]
    /\ UNCHANGED <<cs, hdr, reachable, rcu, readers>>

\* cspace_create_restricted_master_cap: list the cap, then publish its data.
insert_master(p) == LET o == th[p].data.object IN
    /\ At(p, "insert")
    /\ hdr' = [hdr EXCEPT ![o].cap_list = <<th[p].new>> \o @]
    /\ tab' = WithData(tab, th[p].new, th[p].data)
    /\ End(p)
    /\ UNCHANGED <<cs, reachable, rcu, readers>>

\* cspace_free_cap_slot: clear the used bit, outside the lock ...
release_slot(p) == LET n == th[p].new IN
    /\ At(p, "release")
    /\ tab' = [tab EXCEPT ![n[1]].used = @ \ {n[2]}]
    /\ Goto(p, "uncount")
    /\ UNCHANGED <<cs, hdr, reachable, rcu, readers>>

\* Mutants: the last cap's table is freed at once; a table that was full does
\* not become available again.
free_table_at_once(t) == tab' = [tab EXCEPT ![t] = NoTable] /\ UNCHANGED rcu
AvailableUnlessLast(last, t, A, u) == IF last THEN A \ {u} ELSE A

\* The table without its last cap is freed after a grace period.
release_table(t) == tab' = [tab EXCEPT ![t].cap_count = 0] /\ rcu_enqueue(t)

\* available_tables after a slot of table u is freed.
Available(last, t, A, u) ==
    IF last THEN A \ {u} ELSE IF tab[t].cap_count = NumSlots THEN A \cup {u} ELSE A

\* ... then count it out, and detach the table with its last cap.
uncount_slot(p) == LET t == th[p].new[1]
                       u == tab[t].index
                       c == th[p].to
                       last == tab[t].cap_count = 1
                   IN
    /\ At(p, "uncount")
    /\ cs' = [cs EXCEPT ![c] = [@ EXCEPT
                 !.cap_count = @ - 1,
                 !.allocated = IF last THEN @ \ {u} ELSE @,
                 !.tables[u] = IF last THEN None ELSE @,
                 !.available = Available(last, t, @, u)]]
    /\ IF last THEN release_table(t)
       ELSE tab' = [tab EXCEPT ![t].cap_count = @ - 1] /\ UNCHANGED rcu
    /\ IF Head(th[p].refs) \in Object THEN Goto(p, "put_object") ELSE End(p)
    /\ UNCHANGED <<hdr, reachable, readers>>

-----------------------------------------------------------------------------
(* The calls on a cap                                                      *)

\* Where a call goes when its cap does not allow it: a copy returns its slot.
Refuse(p) == th' = [th EXCEPT ![p] =
    IF th[p].op = "copy"
    THEN [@ EXCEPT !.pc = "release", !.cap = None, !.data = NullCap, !.mask = {}]
    ELSE Ending(p)]

\* cspace_lookup_cap_slot: load the table's address.
lookup_cap_slot(p) ==
    /\ At(p, "lookup")
    /\ \E u \in Upper, l \in Slot : LET t == cs[th[p].from].tables[u] IN
         IF t = None THEN Refuse(p)
         ELSE th' = [th EXCEPT ![p].pc = "load", ![p].cap = <<t, l>>]
    /\ UNCHANGED <<cs, tab, hdr, reachable, rcu, readers>>

\* cspace_check_cap_data and what each call asks of the cap besides.
Accepts(op, mask, d) ==
    CASE op = "delete" -> d.state # "null"
      [] op = "revoke" -> d.state = "valid" /\ d.master
      [] op = "copy"   -> d.state = "valid" /\ d.rights \cap mask # {}
      [] OTHER         -> d.state = "valid" /\ mask \subseteq d.rights

load_cap(p) == LET d == DataOf(th[p].cap) IN
    /\ At(p, "load")
    /\ \E m \in SUBSET Right :
         IF ~ Accepts(th[p].op, m, d) THEN Refuse(p)
         ELSE th' = [th EXCEPT ![p].data = d,
                               ![p].mask = IF th[p].op = "copy" THEN m ELSE {},
                               ![p].pc = CASE th[p].op = "lookup" -> "state"
                                           [] th[p].op = "activate" -> "get"
                                           [] OTHER -> th[p].op]
    /\ UNCHANGED <<cs, tab, hdr, reachable, rcu, readers>>

\* cspace_lookup_object, active_only: the state first ...
check_state(p) ==
    /\ At(p, "state")
    /\ IF hdr[th[p].data.object].state = "active" THEN Goto(p, "get") ELSE End(p)
    /\ UNCHANGED <<cs, tab, hdr, reachable, rcu, readers>>

\* Mutant: a reference is taken although there may be none left.
get_additional(p) == LET o == th[p].data.object IN
    /\ At(p, "get")
    /\ hdr' = [hdr EXCEPT ![o].count = @ + 1]
    /\ th' = [th EXCEPT ![p] = [Ending(p) EXCEPT !.refs = <<o>> \o @]]
    /\ UNCHANGED <<cs, tab, reachable, rcu, readers>>

\* ... then object_get_safe: a reference, unless there is none left.
get_safe(p) == LET o == th[p].data.object IN
    /\ At(p, "get")
    /\ IF hdr[o].count > 0
       THEN /\ hdr' = [hdr EXCEPT ![o].count = @ + 1]
            /\ th' = [th EXCEPT ![p] = [Ending(p) EXCEPT !.refs = <<o>> \o @]]
       ELSE End(p) /\ UNCHANGED hdr
    /\ UNCHANGED <<cs, tab, reachable, rcu, readers>>

\* Mutant: a copy goes to the head of the list.
InsertFirst(l, n, new) == <<new>> \o l

\* list_insert_after_node.
InsertAfter(l, n, new) == LET i == CHOOSE k \in 1 .. Len(l) : l[k] = n IN
    InsertAt(l, i + 1, new)

\* cspace_copy_cap under cap_list_lock: the parent must be unchanged.
copy_locked(p) == LET d == th[p].data IN
    /\ At(p, "copy")
    /\ IF DataOf(th[p].cap) = d
       THEN /\ tab' = WithData(tab, th[p].new,
                               [d EXCEPT !.rights = @ \cap th[p].mask, !.master = FALSE])
            /\ hdr' = [hdr EXCEPT ![d.object].cap_list = InsertAfter(@, th[p].cap, th[p].new)]
            /\ End(p)
       ELSE Refuse(p) /\ UNCHANGED <<tab, hdr>>
    /\ UNCHANGED <<cs, reachable, rcu, readers>>


\* Whoever empties an object's cap list puts the list's reference.
RefsAfterDelete(l, o, refs) == IF l = <<>> THEN <<o>> \o refs ELSE refs

\* cspace_delete_cap under the lock of the list that the cap was on.
delete_locked(p) == LET n == th[p].cap
                        d == th[p].data
                        l == Remove(hdr[d.object].cap_list, n)
                    IN
    /\ At(p, "delete")
    /\ IF DataOf(n) # d
       THEN End(p) /\ UNCHANGED <<cs, tab, hdr>>
       ELSE /\ tab' = WithData(tab, n, NullCap)
            /\ IF d.state = "valid"
               THEN /\ hdr' = [hdr EXCEPT ![d.object].cap_list = l]
                    /\ th' = [th EXCEPT ![p] = [@ EXCEPT
                               !.pc = "release", !.new = n, !.cap = None, !.data = NullCap,
                               !.refs = RefsAfterDelete(l, d.object, @)]]
                    /\ UNCHANGED cs
               ELSE /\ cs' = [cs EXCEPT ![th[p].from].revoked = @ \ {n}]
                    /\ th' = [th EXCEPT ![p] = [@ EXCEPT
                               !.pc = "release", !.new = n, !.cap = None, !.data = NullCap]]
                    /\ UNCHANGED hdr
    /\ UNCHANGED <<reachable, rcu, readers>>

\* cspace_revoke_caps under cap_list_lock: every other cap of the object is
\* marked and moved to the revoked list of its cspace.  The revoked lists'
\* own locks only order this with deletes of caps revoked before.
Revoked(n) == [DataOf(n) EXCEPT !.state = "revoked", !.object = None]

revoke_locked(p) == LET o == th[p].data.object
                        l == hdr[o].cap_list
                        N == ToSet(l) \ {th[p].cap}
                    IN
    /\ At(p, "revoke")
    /\ CASE DataOf(th[p].cap) # th[p].data ->
                End(p) /\ UNCHANGED <<cs, tab, hdr>>
         [] DataOf(th[p].cap) = th[p].data /\ Head(l) # th[p].cap ->
                Goto(p, "panic") /\ UNCHANGED <<cs, tab, hdr>>
         [] OTHER ->
                /\ tab' = [t \in Table |-> [tab[t] EXCEPT !.data =
                             [s \in Slot |-> IF <<t, s>> \in N THEN Revoked(<<t, s>>) ELSE @[s]]]]
                /\ cs' = [c \in Cspace |-> [cs[c] EXCEPT !.revoked =
                             @ \cup {n \in N : tab[n[1]].cspace = c}]]
                /\ hdr' = [hdr EXCEPT ![o].cap_list = <<th[p].cap>>]
                /\ End(p)
    /\ UNCHANGED <<reachable, rcu, readers>>

\* The end of the read section; a call that got an object goes on to use it.
finish(p) == LET got == th[p].refs # <<>> /\ Head(th[p].refs) \in Object IN
    /\ At(p, "finish")
    /\ rcu_read_finish(p)
    /\ th' = [th EXCEPT ![p] = [Idle EXCEPT
                 !.pc = CASE th[p].op = "callback" -> "idle"
                          [] got /\ th[p].op = "lookup" -> "held"
                          [] got /\ th[p].op = "activate" -> "activate"
                          [] OTHER -> "put",
                 !.refs = th[p].refs]]
    /\ UNCHANGED <<cs, tab, hdr, reachable>>

-----------------------------------------------------------------------------
(* RCU callbacks.  The core that runs one has not passed a quiescent state *)
(* since it began, so it counts as a reader.                               *)

rcu_update(p) == \E e \in rcu :
    /\ At(p, "idle") /\ e.wait = {}
    /\ rcu' = rcu \ {e}
    /\ rcu_read_start(p)
    /\ th' = [th EXCEPT ![p] = [Idle EXCEPT
                 !.op = "callback", !.to = e.entry,
                 !.pc = CASE e.entry \in Table -> "destroy"
                          [] e.entry \in Cspace -> "cleanup"
                          [] OTHER -> "destroy_object",
                 !.table = IF e.entry \in Table THEN e.entry ELSE None]]
    /\ UNCHANGED <<cs, tab, hdr, reachable>>

\* partition_destroy_*: free the object's memory.
destroy_object(p) ==
    /\ At(p, "destroy_object")
    /\ hdr' = [hdr EXCEPT ![th[p].to] = NoObject]
    /\ End(p)
    /\ UNCHANGED <<cs, tab, reachable, rcu, readers>>

\* object_cleanup_cspace: destroy the tables in turn, then free the cspace.
cleanup_cspace(p) == LET c == th[p].to
                         i == th[p].index IN
    /\ At(p, "cleanup")
    /\ IF i = NumTables
       THEN Goto(p, "destroy_object")
       ELSE IF cs[c].tables[i] = None
       THEN th' = [th EXCEPT ![p].index = i + 1]
       ELSE th' = [th EXCEPT ![p].index = i + 1, ![p].pc = "destroy",
                             ![p].table = cs[c].tables[i]]
    /\ UNCHANGED <<cs, tab, hdr, reachable, rcu, readers>>

\* cspace_destroy_cap_table: one used slot after the other; a cap that is not
\* valid is only counted.  The data is read before cap_list_lock is taken.
destroy_cap_table(p) == LET t == th[p].table
                            l == Lowest(tab[t].used)
                            d == tab[t].data[l]
                        IN
    /\ At(p, "destroy")
    /\ CASE tab[t].cap_count = 0 ->
                /\ tab' = [tab EXCEPT ![t] = NoTable]
                /\ IF th[p].to = t THEN End(p) ELSE Goto(p, "cleanup")
         [] tab[t].cap_count > 0 /\ tab[t].used = {} ->
                Goto(p, "panic") /\ UNCHANGED tab
         [] OTHER ->
                IF d.state = "valid"
                THEN /\ tab' = [tab EXCEPT ![t].used = @ \ {l}]
                     /\ th' = [th EXCEPT ![p].pc = "unlist", ![p].data = d,
                                         ![p].cap = <<t, l>>]
                ELSE /\ tab' = [tab EXCEPT ![t].used = @ \ {l}, ![t].cap_count = @ - 1]
                     /\ UNCHANGED th
    /\ UNCHANGED <<cs, hdr, reachable, rcu, readers>>

\* ... taking a valid cap off the list it is on, under its object's lock.
unlist_cap(p) == LET n == th[p].cap
                     o == th[p].data.object
                     l == Remove(hdr[o].cap_list, n)
                 IN
    /\ At(p, "unlist")
    /\ hdr' = [hdr EXCEPT ![o].cap_list = l]
    /\ cs' = [cs EXCEPT ![tab[n[1]].cspace].revoked = @ \ {n}]
    /\ tab' = [tab EXCEPT ![n[1]].cap_count = @ - 1]
    /\ th' = [th EXCEPT ![p].pc = IF RefsAfterDelete(l, o, <<>>) = <<>> THEN "destroy" ELSE "put_object",
                        ![p].refs = RefsAfterDelete(l, o, <<>>),
                        ![p].data = NullCap, ![p].cap = None]
    /\ UNCHANGED <<reachable, rcu, readers>>

-----------------------------------------------------------------------------
CallStep(p) ==
    \/ \E c \in Cspace : \/ \E o \in Object : partition_create(p, c, o)
                         \/ cspace_drop(p, c)
    \/ \E c, d \in Cspace : copy_begin(p, c, d)
    \/ \E c \in Cspace, op \in CapCall : call_begin(p, op, c)

Step(p) ==
    \/ object_put(p) \/ object_put_last(p) \/ object_free(p)
    \/ object_activate(p)
    \/ allocate_locked(p) \/ claim_index(p) \/ allocate_memory(p) \/ attach_table(p)
    \/ claim_slot(p) \/ insert_master(p) \/ release_slot(p) \/ uncount_slot(p)
    \/ lookup_cap_slot(p) \/ load_cap(p) \/ check_state(p) \/ get_safe(p)
    \/ copy_locked(p) \/ delete_locked(p) \/ revoke_locked(p) \/ finish(p)
    \/ rcu_update(p) \/ destroy_object(p) \/ cleanup_cspace(p)
    \/ destroy_cap_table(p) \/ unlist_cap(p)

Next == \E p \in Proc : CallStep(p) \/ Step(p)

Spec == Init /\ [][Next]_vars

-----------------------------------------------------------------------------
(* Properties                                                              *)

Count(S) == Cardinality(S)
Occurs(h, l) == Count({i \in 1 .. Len(l) : l[i] = h})
CapsIn(t) == {t} \X tab[t].used

\* What the next step of p dereferences: headers of cspaces and objects, and
\* cap tables.
Touches(p) == LET r == th[p] IN
    CASE r.pc \in {"alloc", "table", "memory"} -> {r.to}
      [] r.pc \in {"attach", "slot"} -> {r.to, r.table}
      [] r.pc = "insert" -> {r.new[1], r.data.object}
      [] r.pc \in {"release", "uncount"} -> {r.to, r.new[1]}
      [] r.pc = "lookup" -> {r.from}
      [] r.pc = "load" -> {r.cap[1]}
      [] r.pc \in {"state", "get"} -> {r.data.object}
      [] r.pc = "copy" -> {r.data.object, r.cap[1], r.new[1]}
      [] r.pc = "delete" -> {r.cap[1], IF r.data.state = "valid" THEN r.data.object ELSE r.from}
      [] r.pc = "revoke" -> LET N == ToSet(hdr[r.data.object].cap_list) IN
             {r.data.object, r.cap[1]} \cup {n[1] : n \in N} \cup {tab[n[1]].cspace : n \in N}
      [] r.pc \in {"cleanup", "destroy_object"} -> {r.to}
      [] r.pc = "destroy" -> {r.table}
      [] r.pc = "unlist" -> {r.table, r.data.object}
      [] r.pc \in {"put", "put_object", "activate", "held"} /\ r.refs # <<>> -> {Head(r.refs)}
      [] OTHER -> {}

\* No context uses an object, a cspace or a cap table that was freed: read
\* sections cover every use of a pointer found in a cspace, also around the
\* table allocation in cspace_allocate_cap_slot, which leaves the section.
NoUseAfterFree == \A p \in Proc : \A x \in Touches(p) :
    IF x \in Table THEN tab[x].live ELSE hdr[x].live


\* An object looked up with active_only stays active as long as the caller
\* holds the reference, although its state is read before the reference is
\* taken.
ActiveWhileHeld == \A p \in Proc :
    th[p].pc = "held" => hdr[Head(th[p].refs)].state = "active"

\* The counts and bitmaps agree although the used bits change outside the
\* lock of the counts: a table's count is its used slots and the slots on
\* their way in or out, a cspace's count is that of its tables, and exactly
\* the attached tables with room are available.  The two panics on a wrong
\* cap_count are unreachable.
CountsExact ==
    /\ \A t \in Table : tab[t].live =>
         tab[t].cap_count = Count(tab[t].used)
             + Count({p \in Proc : \/ th[p].pc = "slot" /\ th[p].table = t
                                   \/ th[p].pc = "uncount" /\ th[p].new[1] = t
                                   \/ th[p].pc = "unlist" /\ th[p].table = t})
    /\ \A c \in Cspace : hdr[c].live /\ hdr[c].count > 0 =>
         LET used == {u \in Upper : cs[c].tables[u] # None} IN
         /\ cs[c].cap_count = Count({<<u, i>> \in used \X (1 .. NumSlots) :
                                   i <= tab[cs[c].tables[u]].cap_count})
         /\ cs[c].available = {u \in used : tab[cs[c].tables[u]].cap_count < NumSlots}
    /\ \A p \in Proc : th[p].pc # "panic"

\* A used slot's cap is on its object's cap list exactly when it is valid, on
\* its cspace's revoked list exactly when it is revoked, and on one list
\* once; a cap list begins with its master cap.
CapListsExact ==
    /\ \A t \in Table : tab[t].live => \A n \in CapsIn(t) :
         /\ \A o \in Object : Occurs(n, hdr[o].cap_list)
                = IF DataOf(n).state = "valid" /\ DataOf(n).object = o THEN 1 ELSE 0
         /\ (n \in cs[tab[t].cspace].revoked) <=> (DataOf(n).state = "revoked")
    /\ \A o \in Object : \A i \in 1 .. Len(hdr[o].cap_list) :
         LET n == hdr[o].cap_list[i] IN
         /\ tab[n[1]].live
         /\ DataOf(n).master => i = 1
=============================================================================
