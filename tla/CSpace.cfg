SPECIFICATION Spec
CONSTANTS
    p1 = p1
    p2 = p2
    a = a
    b = b
    None = None
    Proc = {p1, p2}
    Cspace = {a, b}
    Object = {o1}
    Table = {t1, t2}
    NumTables = 1
    NumSlots = 2
    MaxCaps <- Limits
    Right = {r1}
    MayCreate = {b}
    MayDrop = {b}
    Copies <- Outwards
    Calls <- Divided
SYMMETRY Interchangeable
INVARIANTS NoUseAfterFree  ActiveWhileHeld CountsExact CapListsExact
