------------------------------ MODULE Delivery ------------------------------
(***************************************************************************)
(* What the data logger and the backfill promise the cloud of a stream,    *)
(* without files, cursors and NVS: an outbox that delivers its records in  *)
(* their order and each at least once; exactly once, as long as every      *)
(* restart was an orderly one.                                             *)
(*                                                                         *)
(* Records are numbered; what is kept is an interval of them, and what is  *)
(* sent next is a place in it. The promise has two limits. The oldest      *)
(* records make room for new ones, sent or not. And a restart at a wrong   *)
(* moment may leave records behind: these count as lost.                   *)
(***************************************************************************)
EXTENDS Integers

VARIABLES
  oldest, end,  \* the records kept: oldest..end - 1
  next,         \* the first that is still to be sent
  sent,         \* the numbers that were sent
  lost,         \* the numbers a restart has passed over
  orderly       \* no restart so far has lost its place

deliveryVars == <<oldest, end, next, sent, lost, orderly>>

DeliveryInit ==
  oldest = 0 /\ end = 0 /\ next = 0 /\ sent = {} /\ lost = {} /\ orderly = TRUE

Kept == end' > end /\ UNCHANGED <<oldest, next, sent, lost, orderly>>

\* What is dropped before it was sent is not sent any more.
Dropped ==
  /\ oldest' \in oldest + 1..end
  /\ next' = IF next < oldest' THEN oldest' ELSE next
  /\ UNCHANGED <<end, sent, lost, orderly>>

\* The next few records, in one message.
Delivered ==
  /\ next' \in next + 1..end
  /\ sent' = sent \cup next..next' - 1
  /\ UNCHANGED <<oldest, end, lost, orderly>>

\* An orderly restart goes on where it was. Any other, and two tasks in each other's way,
\* send some records again, or lose what they pass over.
Displaced ==
  /\ next' \in oldest..end
  /\ \/ next' <= next /\ UNCHANGED lost
     \/ lost' = lost \cup oldest..next' - 1
  /\ orderly' => orderly /\ next' = next
  /\ UNCHANGED <<oldest, end, sent>>

DeliveryNext == Kept \/ Dropped \/ Delivered \/ Displaced

DeliverySpec == DeliveryInit /\ [][DeliveryNext]_deliveryVars

=============================================================================
