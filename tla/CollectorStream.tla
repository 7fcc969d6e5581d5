--------------------------- MODULE CollectorStream ---------------------------
(***************************************************************************)
(* The collector implements LossyStream: the parked delivery of unpair and *)
(* the channel of entries, each with its output_full_before flag, are the  *)
(* stream; the atomic output_full_pending is its pending gap.              *)
(***************************************************************************)
EXTENDS Collector

\* The parked delivery, whose notice was returned.
Parked ==
  IF pending_delivery = <<>> THEN <<>>
  ELSE <<[delivery |-> pending_delivery[1], output_full_before |-> FALSE]>>

\* The worker consumes no further sample: it is past its last poll, or that
\* poll failed because of a callback's panic or of the shutdown request.
WorkerEnded ==
  \/ wpc \in {"report_panic", "drop_resources", "drop_deliveries", "caught", "drop_terminal",
              "abandoned", "done"}
  \/ wpc = "polled" /\ (callback_panic \/ (poll_err /\ ~running))

Stream == INSTANCE LossyStream WITH
  offered <- cons_pos,
  stream <- Parked \o deliveries,
  gap <- output_full_pending,
  out <- log,
  ended <- WorkerEnded,
  open <- ReceiverAlive

\* Seen from its consumer, every behaviour of ring callback, delivery queue
\* and receives is one of the promised stream (deliver, unpair, try_recv).
KeepsPromise == Stream!Spec
=============================================================================
