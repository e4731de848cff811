---------------------------- MODULE BoundedFifo -----------------------------
(***************************************************************************)
(* What a message queue promises about its messages: they are received in  *)
(* the order in which they were sent, each at most once, at most Depth of  *)
(* them are held, and only a flush loses any.                              *)
(***************************************************************************)
EXTENDS Naturals, Sequences

CONSTANTS Msg, Depth

CONSTANT NoMsg

VARIABLES
    queue,      \* the messages held
    out         \* the message received last

Init == queue = <<>> /\ out = NoMsg

Send(m) ==
    /\ Len(queue) < Depth
    /\ queue' = Append(queue, m)
    /\ UNCHANGED out

Receive ==
    /\ queue # <<>>
    /\ out' = Head(queue)
    /\ queue' = Tail(queue)

Flush == queue' = <<>> /\ UNCHANGED out

Next == (\E m \in Msg : Send(m)) \/ Receive \/ Flush

Spec == Init /\ [][Next]_<<queue, out>>
=============================================================================
