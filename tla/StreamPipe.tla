----------------------------- MODULE StreamPipe -----------------------------
(***************************************************************************)
(* What a pair of SendStream and ReceiveStream promises: whole streams, in *)
(* the order they were sent, each received once.                           *)
(***************************************************************************)
EXTENDS Naturals, Sequences

CONSTANT Content  \* what a stream may hold

VARIABLES sent,     \* streams sent to their end, in order
          received  \* streams received with success, in order

Init == sent = <<>> /\ received = <<>>

Send(c) == sent' = Append(sent, c) /\ UNCHANGED received

Receive ==
  /\ Len(received) < Len(sent)
  /\ received' = Append(received, sent[Len(received) + 1])
  /\ UNCHANGED sent

Next == (\E c \in Content : Send(c)) \/ Receive

Spec == Init /\ [][Next]_<<sent, received>>

=============================================================================
