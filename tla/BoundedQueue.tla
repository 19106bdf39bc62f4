---------------------------- MODULE BoundedQueue ----------------------------
(***************************************************************************)
(* What dataPacketQueue (src/data_packet_queue.go) promises the client and *)
(* its sessions, without the ring, the indices or the wake-up channels: a  *)
(* FIFO of at most Capacity items that several goroutines fill and drain.  *)
(* A batch enters as a whole prefix of what was offered, leaves in the     *)
(* order it entered, each item reaches exactly one consumer, and a closed  *)
(* queue takes nothing more but still gives back what it holds.            *)
(***************************************************************************)
EXTENDS Naturals, Sequences

CONSTANTS Capacity,   \* how many items the queue can hold
          Items,      \* what may be queued
          Consumers   \* the goroutines that drain it

VARIABLES queue,      \* what was accepted and not yet taken, oldest first
          shut,       \* Close was called
          taken       \* the batch each consumer's latest take returned

vars == <<queue, shut, taken>>

Init ==
    /\ queue = <<>>
    /\ shut = FALSE
    /\ taken = [c \in Consumers |-> <<>>]

Room == Capacity - Len(queue)

(* Some items are accepted, together and in order, if they all fit. *)
Accept ==
    /\ ~shut
    /\ \E n \in 1..Room : \E batch \in [1..n -> Items] : queue' = queue \o batch
    /\ UNCHANGED <<shut, taken>>

(* Consumer c takes the n oldest items. *)
Take(c, n) ==
    /\ n \in 1..Len(queue)
    /\ taken' = [taken EXCEPT ![c] = SubSeq(queue, 1, n)]
    /\ queue' = SubSeq(queue, n + 1, Len(queue))
    /\ UNCHANGED shut

(* Consumer c finds nothing to take. *)
TakeNothing(c) ==
    /\ queue = <<>>
    /\ taken' = [taken EXCEPT ![c] = <<>>]
    /\ UNCHANGED <<queue, shut>>

Shut ==
    /\ ~shut
    /\ shut' = TRUE
    /\ UNCHANGED <<queue, taken>>

Next ==
    \/ Accept
    \/ \E c \in Consumers : TakeNothing(c) \/ \E n \in 1..Capacity : Take(c, n)
    \/ Shut

Spec == Init /\ [][Next]_vars
=============================================================================
