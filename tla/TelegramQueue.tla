--------------------------- MODULE TelegramQueue ---------------------------
(***************************************************************************)
(* What one telegram list of PublicTransport promises its users: a bounded *)
(* FIFO that never refuses a telegram and, when it is full, gives up the   *)
(* oldest one and counts it.  Telegrams are named by the serial number     *)
(* under which they were received.                                         *)
(***************************************************************************)
EXTENDS Naturals, Sequences

CONSTANTS MAX_TELEGRAMS,   \* capacity of the pending list
          RecvBound        \* bound on the telegrams received

VARIABLES queue,           \* serial numbers of the pending telegrams
          room,            \* the oldest made room for one that comes in
          recvd, sent, oflowed

vars == <<queue, room, recvd, sent, oflowed>>

Init == queue = <<>> /\ room = FALSE /\ recvd = 0 /\ sent = 0 /\ oflowed = 0

\* A telegram comes in and the list is full: the oldest is given up.
GiveUp ==
  /\ recvd < RecvBound
  /\ ~room /\ Len(queue) = MAX_TELEGRAMS
  /\ queue' = Tail(queue)
  /\ oflowed' = oflowed + 1
  /\ room' = TRUE
  /\ UNCHANGED <<recvd, sent>>

\* The telegram is put last.
Put ==
  /\ recvd < RecvBound
  /\ Len(queue) < MAX_TELEGRAMS
  /\ queue' = Append(queue, recvd + 1)
  /\ recvd' = recvd + 1
  /\ room' = FALSE
  /\ UNCHANGED <<sent, oflowed>>

\* The oldest pending telegram is taken, as sent, between two arrivals.
Take ==
  /\ queue # <<>> /\ ~room
  /\ queue' = Tail(queue)
  /\ sent' = sent + 1
  /\ UNCHANGED <<room, recvd, oflowed>>

Next == GiveUp \/ Put \/ Take

Spec == Init /\ [][Next]_vars
=============================================================================
