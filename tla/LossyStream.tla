----------------------------- MODULE LossyStream -----------------------------
(***************************************************************************)
(* What the documentation of `Collector` promises its consumer: one stream *)
(* of deliveries in ring order, in which each maximal run of omitted       *)
(* samples is replaced by a single notice placed before the next accepted  *)
(* delivery, and in which nothing is omitted while there is room.          *)
(***************************************************************************)
EXTENDS Naturals, Sequences

CONSTANTS
  EventCapacity,  \* deliveries the stream has room for
  Delivery,       \* records with the position `id` of their sample
  Gap             \* the notice, not a member of Delivery

VARIABLES
  offered,        \* samples taken from the ring
  stream,         \* deliveries not returned yet, each with whether a notice
                  \* is still to be returned before it
  gap,            \* samples were omitted since the last accepted one
  out,            \* what the consumer was given, in order
  ended,          \* no further sample joins the stream
  open            \* the consumer is there

vars == <<offered, stream, gap, out, ended, open>>

Init ==
  /\ offered = 0 /\ stream = <<>> /\ gap = FALSE /\ out = <<>>
  /\ ended = FALSE /\ open = TRUE

\* The next sample joins the stream, behind the notice of a pending gap.  One
\* delivery whose notice was just returned may wait outside the bounded queue.
Accept(delivery) ==
  /\ open /\ ~ended
  /\ Len(stream) <= EventCapacity
  /\ delivery.id = offered + 1
  /\ offered' = offered + 1
  /\ stream' = Append(stream, [delivery |-> delivery, output_full_before |-> gap])
  /\ gap' = FALSE
  /\ UNCHANGED <<out, ended, open>>

\* The next sample is omitted; this takes a full stream.
Omit ==
  /\ open /\ ~ended
  /\ Len(stream) >= EventCapacity
  /\ offered' = offered + 1
  /\ gap' = TRUE
  /\ UNCHANGED <<stream, out, ended, open>>

\* The stream ends, after a last sample that is neither accepted nor omitted
\* or without one.
End ==
  /\ ~ended
  /\ ended' = TRUE
  /\ offered' \in {offered, offered + 1}
  /\ UNCHANGED <<stream, gap, out, open>>

\* The notice of the first waiting delivery, and then the delivery.
ReturnNotice ==
  /\ stream # <<>>
  /\ Head(stream).output_full_before
  /\ stream' = <<[delivery |-> Head(stream).delivery, output_full_before |-> FALSE]>>
                 \o Tail(stream)
  /\ out' = Append(out, Gap)
  /\ UNCHANGED <<offered, gap, ended, open>>

ReturnDelivery ==
  /\ stream # <<>>
  /\ ~Head(stream).output_full_before
  /\ stream' = Tail(stream)
  /\ out' = Append(out, Head(stream).delivery)
  /\ UNCHANGED <<offered, gap, ended, open>>

\* The gap left when the stream ends is told in another way.
Settle ==
  /\ ended
  /\ gap' = FALSE
  /\ UNCHANGED <<offered, stream, out, ended, open>>

\* The consumer goes away.
Forget ==
  /\ open' = FALSE
  /\ stream' = <<>>
  /\ UNCHANGED <<offered, gap, out, ended>>

Next ==
  \/ \E delivery \in Delivery : Accept(delivery)
  \/ Omit
  \/ End
  \/ ReturnNotice
  \/ ReturnDelivery
  \/ Settle
  \/ Forget

Spec == Init /\ [][Next]_vars
=============================================================================
