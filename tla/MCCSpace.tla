------------------------------ MODULE MCCSpace ------------------------------
(* Instances of CSpace for TLC.                                            *)
EXTENDS CSpace, TLC

CONSTANTS p1, p2, a, b

\* Objects are created in b, which may be destroyed, and copied to a and in b.
Outwards == {<<a, b>>, <<b, b>>}

Limits == a :> 1 @@ b :> 2

\* One context creates, uses and revokes, the other activates, copies and drops
\* the cspace; both delete.
Divided == ({p1} \X {"create", "lookup", "revoke", "delete"})
           \cup ({p2} \X {"activate", "copy", "delete", "drop"})

Interchangeable == Permutations(Table)
=============================================================================
