-------------------------- MODULE DataPacketQueue --------------------------
(***************************************************************************)
(* src/data_packet_queue.go: the ring of data packets that every direction *)
(* of the tunnel goes through, with the goroutines that use it.            *)
(*                                                                         *)
(* Every method holds the access mutex from its first read to its last     *)
(* write, so one method is one step; the steps of a caller are separated   *)
(* where the code unlocks: between a failed attempt of Push and its wait,  *)
(* and between a Pop that found nothing, the Wake that follows it and the  *)
(* wait on what Wake returned.                                             *)
(*                                                                         *)
(* A queueSignal is a channel that waitLocked makes on demand and          *)
(* signalLocked closes and forgets.  notEmpty and notFull hold the callers *)
(* that were handed the present channel: closing it empties the set, and   *)
(* a caller outside the set holds a closed channel and may go on.          *)
(***************************************************************************)
EXTENDS Integers, Sequences

CONSTANTS Capacity,    \* len(q.items)
          Items,       \* the packets
          NoItem,      \* the zero value of a slot
          Pushers,     \* goroutines that call Push and TryPushBatch
          Consumers,   \* goroutines that call Pop, Wake and Drain
          MaxBatch     \* bound on what one TryPushBatch offers and on the
                       \* maximumItems of one Pop

ASSUME QueueAssumption ==
    /\ Capacity \in Nat \ {0}
    /\ MaxBatch \in Nat
    /\ NoItem \notin Items

VARIABLES
    items, head, length, closed,   \* the ring
    notEmpty, notFull,             \* the callers parked on each signal's channel
    push, argument, cancelled,     \* each pusher: where it is, its item, its ctx
    pop, batch                     \* each consumer: where it is, its last batch

ring    == <<items, head, length, closed>>
signals == <<notEmpty, notFull>>
pushing == <<push, argument, cancelled>>
popping == <<pop, batch>>
vars    == <<items, head, length, closed, notEmpty, notFull,
             push, argument, cancelled, pop, batch>>

Slots == 0..(Capacity - 1)

(* A slip no action uses: the slot counted from the start of the ring. *)
SlotForgetsHead(k) == k % Capacity

(* The slot k places behind the head. *)
Slot(k) == (head + k) % Capacity

(* How far behind the head slot s lies: the inverse of Slot. *)
Offset(s) == IF s >= head THEN s - head ELSE s + Capacity - head

(* What the ring holds, oldest first. *)
Contents == [i \in 1..length |-> items[Slot(i - 1)]]

TypeOK ==
    /\ items \in [Slots -> Items \cup {NoItem}]
    /\ head \in Slots
    /\ length \in 0..Capacity
    /\ closed \in BOOLEAN
    /\ notEmpty \in SUBSET Consumers
    /\ notFull \in SUBSET Pushers
    /\ push \in [Pushers -> {"idle", "check", "lock", "wait"}]
    /\ argument \in [Pushers -> Items \cup {NoItem}]
    /\ cancelled \in [Pushers -> BOOLEAN]
    /\ pop \in [Consumers -> {"idle", "empty", "wait"}]
    /\ batch \in [Consumers -> Seq(Items)]

(* newDataPacketQueue *)
Init ==
    /\ items = [s \in Slots |-> NoItem]
    /\ head = 0
    /\ length = 0
    /\ closed = FALSE
    /\ notEmpty = {}
    /\ notFull = {}
    /\ push = [p \in Pushers |-> "idle"]
    /\ argument = [p \in Pushers |-> NoItem]
    /\ cancelled = [p \in Pushers |-> FALSE]
    /\ pop = [c \in Consumers |-> "idle"]
    /\ batch = [c \in Consumers |-> <<>>]
-----------------------------------------------------------------------------
(* Plausible slips, one for each property; no action uses them. *)

SignalOnlyWhenFilled(before, after) ==
    notEmpty' = IF before = 0 /\ after = Capacity THEN {} ELSE notEmpty
SignalOneWaiter(before) ==
    notFull' = IF notFull = {} THEN {} ELSE notFull \ {CHOOSE p \in notFull : TRUE}
SlotsKept(count) == items
SignalNothing == UNCHANGED <<notEmpty, notFull>>
-----------------------------------------------------------------------------
(* The two methods of a queueSignal: g is handed the channel everyone who  *)
(* waits holds; the channel is closed, and the next to wait makes another. *)
waitLocked(waiting, g) == waiting \cup {g}
signalLocked(waiting)  == {}

(* pushLocked wakes whoever waits for an item, on the first one only. *)
SignalNotEmpty(before, after) ==
    notEmpty' = IF before = 0 /\ after > 0 THEN signalLocked(notEmpty) ELSE notEmpty

(* The end of PopInto wakes every pusher, however few items it took. *)
SignalNotFull(before) == notFull' = signalLocked(notFull)

(* pushLocked, for each of new in turn, which the caller checked to fit. *)
PushLocked(new) ==
    /\ items' = [s \in Slots |->
                    LET i == Offset(s) - length + 1
                    IN  IF i \in 1..Len(new) THEN new[i] ELSE items[s]]
    /\ length' = length + Len(new)
    /\ SignalNotEmpty(length, length + Len(new))
    /\ UNCHANGED <<head, closed, notFull>>

(* How many of n offered items TryPushBatch takes. *)
Pushed(n) ==
    IF closed THEN 0 ELSE IF n <= Capacity - length THEN n ELSE Capacity - length

(* TryPushBatch(offered): no wait, and what did not fit stays the caller's. *)
TryPushBatch(offered) ==
    /\ PushLocked(SubSeq(offered, 1, Pushed(Len(offered))))
    /\ UNCHANGED <<pushing, popping>>

(* A goroutine calls Push(ctx, item). *)
PushCall(p, item) ==
    /\ push[p] = "idle"
    /\ push' = [push EXCEPT ![p] = "check"]
    /\ argument' = [argument EXCEPT ![p] = item]
    /\ UNCHANGED <<ring, signals, cancelled, popping>>

(* The session's context ends under a Push. *)
Cancel(p) ==
    /\ ~cancelled[p]
    /\ cancelled' = [cancelled EXCEPT ![p] = TRUE]
    /\ UNCHANGED <<ring, signals, push, argument, popping>>

(* The receive goroutine of the next session takes the place of one whose  *)
(* context ended: the incoming queue outlives the session.                 *)
NextContext(p) ==
    /\ push[p] = "idle"
    /\ cancelled[p]
    /\ cancelled' = [cancelled EXCEPT ![p] = FALSE]
    /\ UNCHANGED <<ring, signals, push, argument, popping>>

PushReturns(p) ==
    /\ push' = [push EXCEPT ![p] = "idle"]
    /\ argument' = [argument EXCEPT ![p] = NoItem]

(* The top of Push's loop looks at the context before it takes the lock. *)
PushChecks(p) ==
    /\ push[p] = "check"
    /\ ~cancelled[p]
    /\ push' = [push EXCEPT ![p] = "lock"]
    /\ UNCHANGED <<ring, signals, argument, cancelled, popping>>

(* Push returns false: its context ended, seen at the top of the loop or   *)
(* in the select, or the queue is closed, seen under the lock.             *)
PushGivesUp(p) ==
    /\ \/ push[p] \in {"check", "wait"} /\ cancelled[p]
       \/ push[p] = "lock" /\ closed
    /\ PushReturns(p)
    /\ notFull' = notFull \ {p}
    /\ UNCHANGED <<ring, notEmpty, cancelled, popping>>

(* Push finds room, whatever became of its context since the check. *)
PushAccepted(p) ==
    /\ push[p] = "lock"
    /\ ~closed
    /\ length < Capacity
    /\ PushLocked(<<argument[p]>>)
    /\ PushReturns(p)
    /\ UNCHANGED <<cancelled, popping>>

(* Push finds the queue full and parks on notFull's channel. *)
PushParks(p) ==
    /\ push[p] = "lock"
    /\ ~closed
    /\ length = Capacity
    /\ push' = [push EXCEPT ![p] = "wait"]
    /\ notFull' = waitLocked(notFull, p)
    /\ UNCHANGED <<ring, notEmpty, argument, cancelled, popping>>

(* The channel Push parked on was closed: it tries again. *)
PushWakes(p) ==
    /\ push[p] = "wait"
    /\ p \notin notFull
    /\ push' = [push EXCEPT ![p] = "check"]
    /\ UNCHANGED <<ring, signals, argument, cancelled, popping>>
-----------------------------------------------------------------------------
(* How many items PopInto(_, maximum) takes; 0 asks for all of them. *)
PopCount(maximum) == IF maximum > 0 /\ maximum < length THEN maximum ELSE length

(* The ring after its count oldest slots were set to the zero value. *)
SlotsZeroed(count) ==
    [s \in Slots |-> IF Offset(s) < count THEN NoItem ELSE items[s]]

(* PopInto(batch, maximum) when the queue holds something. *)
PopSome(c, maximum) ==
    LET count == PopCount(maximum) IN
    /\ length > 0
    /\ batch' = [batch EXCEPT ![c] = [i \in 1..count |-> items[Slot(i - 1)]]]
    /\ items' = SlotsZeroed(count)
    /\ head' = Slot(count)
    /\ length' = length - count
    /\ SignalNotFull(length)
    /\ UNCHANGED <<closed, notEmpty>>

(* PopInto on an empty queue empties the batch it was given. *)
PopNone(c) ==
    /\ length = 0
    /\ batch' = [batch EXCEPT ![c] = <<>>]
    /\ UNCHANGED <<ring, signals>>

(* A consumer's loop: it pops, and asks for Wake when it got nothing. *)
Pop(c, maximum) ==
    /\ pop[c] = "idle"
    /\ \/ PopSome(c, maximum) /\ UNCHANGED pop
       \/ PopNone(c) /\ pop' = [pop EXCEPT ![c] = "empty"]
    /\ UNCHANGED pushing

(* Drain releases everything at once and never waits. *)
Drain(c) ==
    /\ pop[c] = "idle"
    /\ PopSome(c, 0) \/ PopNone(c)
    /\ UNCHANGED <<pop, pushing>>

(* Wake hands out a closed channel if there is something to see. *)
Wake(c) ==
    /\ pop[c] = "empty"
    /\ \/ /\ length > 0 \/ closed
          /\ pop' = [pop EXCEPT ![c] = "idle"]
          /\ UNCHANGED notEmpty
       \/ /\ length = 0 /\ ~closed
          /\ pop' = [pop EXCEPT ![c] = "wait"]
          /\ notEmpty' = waitLocked(notEmpty, c)
    /\ UNCHANGED <<ring, notFull, pushing, batch>>

(* The channel Wake returned was closed: the loop starts over. *)
ConsumerWakes(c) ==
    /\ pop[c] = "wait"
    /\ c \notin notEmpty
    /\ pop' = [pop EXCEPT ![c] = "idle"]
    /\ UNCHANGED <<ring, signals, pushing, batch>>

(* A reader leaves its select for another reason (ctx or a state change). *)
ConsumerLeaves(c) ==
    /\ pop[c] = "wait"
    /\ pop' = [pop EXCEPT ![c] = "idle"]
    /\ notEmpty' = notEmpty \ {c}
    /\ UNCHANGED <<ring, notFull, pushing, batch>>

(* Both channels of a closed queue are closed. *)
SignalBoth ==
    /\ notEmpty' = signalLocked(notEmpty)
    /\ notFull' = signalLocked(notFull)

Close ==
    /\ ~closed
    /\ closed' = TRUE
    /\ SignalBoth
    /\ UNCHANGED <<items, head, length, pushing, popping>>
-----------------------------------------------------------------------------
Offers == UNION {[1..n -> Items] : n \in 1..MaxBatch}

PusherStep(p) ==
    PushChecks(p) \/ PushGivesUp(p) \/ PushAccepted(p) \/ PushParks(p) \/ PushWakes(p)

ConsumerStep(c) == (\E m \in 0..MaxBatch : Pop(c, m)) \/ Wake(c) \/ ConsumerWakes(c)

Next ==
    \/ \E offered \in Offers : TryPushBatch(offered)
    \/ \E p \in Pushers : \/ \E item \in Items : PushCall(p, item)
                          \/ PusherStep(p)
                          \/ Cancel(p)
                          \/ NextContext(p)
    \/ \E c \in Consumers : ConsumerStep(c) \/ Drain(c) \/ ConsumerLeaves(c)
    \/ Close

Spec == Init /\ [][Next]_vars

(* A goroutine inside Push or inside a consumer's loop keeps running; no   *)
(* one is obliged to call Push, to cancel, to leave or to close.           *)
Fairness ==
    /\ \A p \in Pushers : WF_vars(PusherStep(p))
    /\ \A c \in Consumers : WF_vars(ConsumerStep(c))

FairSpec == Spec /\ Fairness
-----------------------------------------------------------------------------
(* No wake-up is lost: whoever is still parked on a channel nobody closed  *)
(* has nothing to wake for - a pusher while the queue is full, a consumer  *)
(* while it is empty, and neither once it is closed (Push, Wake, Pop and   *)
(* Close, on whichever side of the unlock the other party ran).            *)
NoLostWakeup ==
    /\ notFull # {} => length = Capacity /\ ~closed
    /\ notEmpty # {} => length = 0 /\ ~closed

(* The ring keeps no reference to a packet it handed out, and never loses  *)
(* one it holds: exactly the length slots behind the head are filled.      *)
(* PopInto zeroes what it takes because the buffers go back to a pool.     *)
OnlyLiveSlotsHeld == \A s \in Slots : (items[s] # NoItem) <=> (Offset(s) < length)

(* The ring is a bounded FIFO: see BoundedQueue. *)
Fifo == INSTANCE BoundedQueue WITH queue <- Contents, shut <- closed, taken <- batch
FifoSpec == Fifo!Spec

(* A pusher that waits for room is woken, however the others interleave,   *)
(* as long as the consumers keep popping.  Closing the queue ends every    *)
(* Push that is under way and every wait for an item: tunnelSession.Close  *)
(* and Client.Close rely on it to stop the goroutines they then wait for.  *)
EveryWaitEnds ==
    /\ \A p \in Pushers : push[p] = "wait" ~> push[p] # "wait"
    /\ \A p \in Pushers : (closed /\ push[p] # "idle") ~> push[p] = "idle"
    /\ \A c \in Consumers : (closed /\ pop[c] = "wait") ~> pop[c] = "idle"
=============================================================================
