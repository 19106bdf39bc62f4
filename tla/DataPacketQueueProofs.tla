------------------------ MODULE DataPacketQueueProofs ------------------------
(***************************************************************************)
(* For every capacity, every set of packets and any number of goroutines:  *)
(* the ring of DataPacketQueue keeps its type, fills exactly the slots it  *)
(* should, loses no wake-up, and is a bounded FIFO.                        *)
(***************************************************************************)
EXTENDS DataPacketQueue, SequenceTheorems, TLAPS

(* A pusher inside Push has an item to push. *)
ArgumentHeld == \A p \in Pushers : push[p] # "idle" => argument[p] \in Items

(* The inductive invariant.  TypeOK needs the other two: a batch holds     *)
(* packets because live slots do, and slots do because arguments are.      *)
RingInv == TypeOK /\ ArgumentHeld /\ OnlyLiveSlotsHeld
-----------------------------------------------------------------------------
(* One turn around the ring is enough: no index exceeds two capacities. *)
LEMMA Wrap ==
    \A n \in 0..(2 * Capacity - 1) :
        n % Capacity = IF n < Capacity THEN n ELSE n - Capacity
<1> SUFFICES ASSUME NEW n \in 0..(2 * Capacity - 1)
             PROVE  n % Capacity = IF n < Capacity THEN n ELSE n - Capacity
    OBVIOUS
<1>1. Capacity \in Nat \ {0}
    BY QueueAssumption
<1>2. CASE n < Capacity
    BY <1>1, <1>2, Z3
<1>3. CASE n >= Capacity
    BY <1>1, <1>3, Z3
<1> QED
    BY <1>1, <1>2, <1>3, Z3

(* The sum of an index and an offset, reduced the way Slot reduces it. *)
LEMMA WrapSum ==
    ASSUME NEW h \in Slots, NEW k \in 0..Capacity
    PROVE  (h + k) % Capacity = IF h + k < Capacity THEN h + k ELSE h + k - Capacity
<1>1. Capacity \in Nat \ {0}
    BY QueueAssumption
<1> DEFINE n == h + k
<1>2. n \in 0..(2 * Capacity - 1)
    BY <1>1 DEF Slots
<1> HIDE DEF n
<1>3. n % Capacity = IF n < Capacity THEN n ELSE n - Capacity
    BY <1>2, Wrap, Zenon
<1>4. (h + k) % Capacity = n % Capacity
    BY DEF n
<1>5. n = h + k
    BY DEF n
<1> QED
    BY <1>1, <1>2, <1>3, <1>4, <1>5 DEF Slots

(* Slot without the modulus. *)
LEMMA SlotIs ==
    ASSUME head \in Slots
    PROVE  \A k \in 0..Capacity :
              /\ Slot(k) = IF head + k < Capacity THEN head + k ELSE head + k - Capacity
              /\ Slot(k) \in Slots
<1>1. \A k \in 0..Capacity :
         Slot(k) = IF head + k < Capacity THEN head + k ELSE head + k - Capacity
    BY WrapSum DEF Slot
<1> QED
    BY <1>1, QueueAssumption DEF Slots

(* Slot in the next state. *)
LEMMA NextSlotIs ==
    ASSUME head' \in Slots
    PROVE  \A k \in 0..Capacity :
              Slot(k)' = IF head' + k < Capacity THEN head' + k ELSE head' + k - Capacity
<1>1. \A h \in Slots, k \in 0..Capacity :
         (h + k) % Capacity = IF h + k < Capacity THEN h + k ELSE h + k - Capacity
    BY WrapSum
<1>2. \A k \in 0..Capacity : Slot(k)' = (head' + k) % Capacity
    BY DEF Slot
<1> QED
    BY <1>1, <1>2, Zenon

(* Offset is the inverse of Slot. *)
LEMMA OffsetIs ==
    ASSUME head \in Slots
    PROVE  \A s \in Slots : Offset(s) \in 0..(Capacity - 1) /\ Slot(Offset(s)) = s
<1> SUFFICES ASSUME NEW s \in Slots
             PROVE  Offset(s) \in 0..(Capacity - 1) /\ Slot(Offset(s)) = s
    OBVIOUS
<1>1. Capacity \in Nat \ {0}
    BY QueueAssumption
<1>2. Offset(s) \in 0..(Capacity - 1)
    BY <1>1 DEF Offset, Slots
<1>3. Slot(Offset(s))
          = IF head + Offset(s) < Capacity THEN head + Offset(s) ELSE head + Offset(s) - Capacity
    BY <1>1, <1>2, SlotIs
<1> QED
    BY <1>1, <1>2, <1>3 DEF Offset, Slots

LEMMA OffsetOfSlot ==
    ASSUME head \in Slots
    PROVE  \A k \in 0..(Capacity - 1) : Offset(Slot(k)) = k
<1> SUFFICES ASSUME NEW k \in 0..(Capacity - 1)
             PROVE  Offset(Slot(k)) = k
    OBVIOUS
<1>1. Capacity \in Nat \ {0}
    BY QueueAssumption
<1>2. Slot(k) = IF head + k < Capacity THEN head + k ELSE head + k - Capacity
    BY <1>1, SlotIs
<1> QED
    BY <1>1, <1>2 DEF Offset, Slots

(* Moving the head by count moves every offset by count. *)
LEMMA OffsetMoves ==
    ASSUME head \in Slots, NEW count \in 0..Capacity, head' = Slot(count)
    PROVE  /\ head' \in Slots
           /\ \A s \in Slots :
                 Offset(s)' = IF Offset(s) >= count THEN Offset(s) - count
                                                    ELSE Offset(s) + Capacity - count
<1>1. Capacity \in Nat \ {0}
    BY QueueAssumption
<1>2. /\ head' = IF head + count < Capacity THEN head + count ELSE head + count - Capacity
      /\ head' \in Slots
    BY SlotIs
<1> SUFFICES ASSUME NEW s \in Slots
             PROVE  Offset(s)' = IF Offset(s) >= count THEN Offset(s) - count
                                                       ELSE Offset(s) + Capacity - count
    BY <1>2
<1> QED
    BY <1>1, <1>2 DEF Offset, Slots
-----------------------------------------------------------------------------
(* pushLocked writes packets into free slots, the next ones behind. *)
LEMMA PushLockedKeeps ==
    ASSUME TypeOK, OnlyLiveSlotsHeld,
           NEW new \in Seq(Items), Len(new) <= Capacity - length, PushLocked(new)
    PROVE  /\ items' \in [Slots -> Items \cup {NoItem}]
           /\ head' \in Slots
           /\ length' \in 0..Capacity
           /\ closed' \in BOOLEAN
           /\ notEmpty' \in SUBSET Consumers
           /\ notFull' \in SUBSET Pushers
           /\ OnlyLiveSlotsHeld'
<1> DEFINE place(s) == Offset(s) - length + 1
<1>1. /\ Capacity \in Nat \ {0} /\ length \in 0..Capacity /\ head \in Slots
      /\ Len(new) \in Nat /\ NoItem \notin Items
    BY QueueAssumption DEF TypeOK
<1>2. \A s \in Slots : Offset(s) \in 0..(Capacity - 1)
    BY <1>1, OffsetIs
<1>3. \A i \in 1..Len(new) : new[i] \in Items
    OBVIOUS
<1>4. items' = [s \in Slots |-> IF place(s) \in 1..Len(new) THEN new[place(s)] ELSE items[s]]
    BY DEF PushLocked
<1>5. head' = head /\ length' = length + Len(new) /\ closed' = closed /\ notFull' = notFull
    BY DEF PushLocked
<1>6. notEmpty' \in SUBSET Consumers
    BY DEF PushLocked, SignalNotEmpty, signalLocked, TypeOK
<1>7. items \in [Slots -> Items \cup {NoItem}]
    BY DEF TypeOK
<1>8. items' \in [Slots -> Items \cup {NoItem}]
    BY <1>3, <1>4, <1>7
<1>9. OnlyLiveSlotsHeld'
    <2> SUFFICES ASSUME NEW s \in Slots
                 PROVE  (items'[s] # NoItem) <=> (Offset(s) < length + Len(new))
        BY <1>5 DEF OnlyLiveSlotsHeld, Offset, Slots
    <2>1. place(s) \in 1..Len(new) <=> (length <= Offset(s) /\ Offset(s) < length + Len(new))
        BY <1>1, <1>2
    <2>2. (items[s] # NoItem) <=> (Offset(s) < length)
        BY DEF OnlyLiveSlotsHeld
    <2>3. CASE place(s) \in 1..Len(new)
        BY <1>1, <1>3, <1>4, <2>1, <2>3
    <2>4. CASE place(s) \notin 1..Len(new)
        BY <1>1, <1>2, <1>4, <2>1, <2>2, <2>4
    <2> QED
        BY <2>3, <2>4
<1> QED
    BY <1>1, <1>5, <1>6, <1>8, <1>9 DEF TypeOK

(* PopInto hands out packets, oldest first, and empties their slots. *)
LEMMA PopSomeKeeps ==
    ASSUME TypeOK, OnlyLiveSlotsHeld,
           NEW c \in Consumers, NEW maximum \in Nat, PopSome(c, maximum)
    PROVE  /\ items' \in [Slots -> Items \cup {NoItem}]
           /\ head' \in Slots
           /\ length' \in 0..Capacity
           /\ closed' \in BOOLEAN
           /\ notEmpty' \in SUBSET Consumers
           /\ notFull' \in SUBSET Pushers
           /\ batch' \in [Consumers -> Seq(Items)]
           /\ OnlyLiveSlotsHeld'
<1> DEFINE count == PopCount(maximum)
           some  == [i \in 1..count |-> items[Slot(i - 1)]]
<1>1. /\ Capacity \in Nat \ {0} /\ length \in 0..Capacity /\ head \in Slots
      /\ NoItem \notin Items /\ items \in [Slots -> Items \cup {NoItem}]
    BY QueueAssumption DEF TypeOK
<1>2. count \in 1..length
    BY <1>1 DEF PopSome, PopCount
<1>3. count \in 0..Capacity
    BY <1>1, <1>2
<1>4. /\ items' = [s \in Slots |-> IF Offset(s) < count THEN NoItem ELSE items[s]]
      /\ head' = Slot(count) /\ length' = length - count
      /\ notFull' = {} /\ closed' = closed /\ notEmpty' = notEmpty
      /\ batch' = [batch EXCEPT ![c] = some]
    BY DEF PopSome, SlotsZeroed, SignalNotFull, signalLocked
<1> HIDE DEF count
<1>5. /\ head' \in Slots
      /\ \A s \in Slots : Offset(s)' = IF Offset(s) >= count THEN Offset(s) - count
                                       ELSE Offset(s) + Capacity - count
    BY <1>1, <1>3, <1>4, OffsetMoves
<1>6. \A s \in Slots : Offset(s) \in 0..(Capacity - 1)
    BY <1>1, OffsetIs
<1>7. some \in Seq(Items)
    <2>1. ASSUME NEW i \in 1..count
          PROVE  items[Slot(i - 1)] \in Items
        <3>1. i - 1 \in 0..(Capacity - 1) /\ i - 1 \in 0..Capacity /\ i - 1 < length
            BY <1>1, <1>2
        <3>2. Slot(i - 1) \in Slots /\ Offset(Slot(i - 1)) = i - 1
            BY <1>1, <3>1, SlotIs, OffsetOfSlot
        <3>3. items[Slot(i - 1)] # NoItem
            BY <3>1, <3>2 DEF OnlyLiveSlotsHeld
        <3> QED
            BY <1>1, <3>2, <3>3
    <2>2. count \in Nat /\ some \in [1..count -> Items]
        BY <1>1, <1>2, <2>1
    <2> QED
        BY <2>2
<1>8. batch' \in [Consumers -> Seq(Items)]
    BY <1>4, <1>7 DEF TypeOK
<1>9. OnlyLiveSlotsHeld'
    <2> SUFFICES ASSUME NEW s \in Slots
                 PROVE  (items'[s] # NoItem) <=> (Offset(s)' < length')
        BY DEF OnlyLiveSlotsHeld, Slots
    <2>1. (items[s] # NoItem) <=> (Offset(s) < length)
        BY DEF OnlyLiveSlotsHeld
    <2> QED
        BY <1>1, <1>2, <1>4, <1>5, <1>6, <2>1
<1> QED
    BY <1>1, <1>2, <1>4, <1>5, <1>8, <1>9 DEF TypeOK
-----------------------------------------------------------------------------
(* What TryPushBatch takes of an offer fits and is made of packets. *)
LEMMA OfferFits ==
    ASSUME TypeOK, NEW offered \in Offers
    PROVE  LET new == SubSeq(offered, 1, Pushed(Len(offered)))
           IN  /\ new \in Seq(Items)
               /\ Len(new) = Pushed(Len(offered))
               /\ Len(new) <= Capacity - length
               /\ closed => Len(new) = 0
<1>1. Capacity \in Nat \ {0} /\ length \in 0..Capacity
    BY QueueAssumption DEF TypeOK
<1>2. PICK n \in 1..MaxBatch : offered \in [1..n -> Items]
    BY DEF Offers
<1>3. offered \in Seq(Items) /\ Len(offered) = n /\ n \in Nat
    BY <1>2, QueueAssumption
<1>4. Pushed(Len(offered)) \in 0..Len(offered) /\ Pushed(Len(offered)) <= Capacity - length
    BY <1>1, <1>3 DEF Pushed
<1>5. closed => Pushed(Len(offered)) = 0
    BY DEF Pushed
<1> HIDE DEF Pushed
<1>6. /\ SubSeq(offered, 1, Pushed(Len(offered))) \in Seq(Items)
      /\ Len(SubSeq(offered, 1, Pushed(Len(offered)))) = Pushed(Len(offered))
    BY <1>3, <1>4
<1> QED
    BY <1>4, <1>5, <1>6

LEMMA RingInit == Init => RingInv
<1>1. Capacity \in Nat \ {0}
    BY QueueAssumption
<1> SUFFICES ASSUME Init PROVE RingInv
    OBVIOUS
<1>2. OnlyLiveSlotsHeld
    BY <1>1 DEF Init, OnlyLiveSlotsHeld, Offset, Slots
<1>3. TypeOK
    <2>1. batch \in [Consumers -> Seq(Items)]
        <3>1. <<>> \in Seq(Items)
            OBVIOUS
        <3> QED
            BY <3>1, Zenon DEF Init
    <2>2. cancelled \in [Pushers -> BOOLEAN] /\ closed \in BOOLEAN
        BY Zenon DEF Init
    <2> QED
        BY <1>1, <2>1, <2>2 DEF Init, TypeOK, Slots
<1>4. ArgumentHeld
    BY DEF Init, ArgumentHeld
<1> QED
    BY <1>2, <1>3, <1>4 DEF RingInv

LEMMA RingStep == RingInv /\ [Next]_vars => RingInv'
<1> SUFFICES ASSUME RingInv, [Next]_vars PROVE RingInv'
    OBVIOUS
<1> USE DEF RingInv
<1>1. ASSUME NEW offered \in Offers, TryPushBatch(offered) PROVE RingInv'
    <2>1. PushLocked(SubSeq(offered, 1, Pushed(Len(offered))))
        BY <1>1 DEF TryPushBatch
    <2>2. UNCHANGED <<push, argument, cancelled, pop, batch>>
        BY <1>1 DEF TryPushBatch, pushing, popping
    <2> DEFINE new == SubSeq(offered, 1, Pushed(Len(offered)))
    <2>3. new \in Seq(Items) /\ Len(new) <= Capacity - length
        BY OfferFits
    <2>4. PushLocked(new)
        BY <2>1
    <2> HIDE DEF new
    <2> QED
        BY <2>2, <2>3, <2>4, PushLockedKeeps DEF TypeOK, ArgumentHeld
<1>2. ASSUME NEW p \in Pushers, NEW item \in Items, PushCall(p, item) PROVE RingInv'
    BY <1>2 DEF PushCall, ring, signals, popping, TypeOK, ArgumentHeld, OnlyLiveSlotsHeld, Offset
<1>3. ASSUME NEW p \in Pushers, PushChecks(p) PROVE RingInv'
    BY <1>3 DEF PushChecks, ring, signals, popping, TypeOK, ArgumentHeld, OnlyLiveSlotsHeld, Offset
<1>4. ASSUME NEW p \in Pushers, PushGivesUp(p) PROVE RingInv'
    BY <1>4 DEF PushGivesUp, PushReturns, ring, popping, TypeOK, ArgumentHeld,
                OnlyLiveSlotsHeld, Offset
<1>5. ASSUME NEW p \in Pushers, PushAccepted(p) PROVE RingInv'
    <2>1. <<argument[p]>> \in Seq(Items) /\ Len(<<argument[p]>>) <= Capacity - length
        BY <1>5, QueueAssumption DEF PushAccepted, ArgumentHeld, TypeOK
    <2>2. PushLocked(<<argument[p]>>)
        BY <1>5 DEF PushAccepted
    <2>3. /\ push' = [push EXCEPT ![p] = "idle"]
          /\ argument' = [argument EXCEPT ![p] = NoItem]
          /\ UNCHANGED <<cancelled, pop, batch>>
        BY <1>5 DEF PushAccepted, PushReturns, popping
    <2>4. /\ items' \in [Slots -> Items \cup {NoItem}] /\ head' \in Slots
          /\ length' \in 0..Capacity /\ closed' \in BOOLEAN
          /\ notEmpty' \in SUBSET Consumers /\ notFull' \in SUBSET Pushers
          /\ OnlyLiveSlotsHeld'
        BY <2>1, <2>2, PushLockedKeeps
    <2> QED
        BY <2>3, <2>4 DEF TypeOK, ArgumentHeld
<1>6. ASSUME NEW p \in Pushers, PushParks(p) PROVE RingInv'
    BY <1>6 DEF PushParks, waitLocked, ring, popping, TypeOK, ArgumentHeld, OnlyLiveSlotsHeld, Offset
<1>7. ASSUME NEW p \in Pushers, PushWakes(p) PROVE RingInv'
    BY <1>7 DEF PushWakes, ring, signals, popping, TypeOK, ArgumentHeld, OnlyLiveSlotsHeld, Offset
<1>8. ASSUME NEW p \in Pushers, Cancel(p) \/ NextContext(p) PROVE RingInv'
    BY <1>8 DEF Cancel, NextContext, ring, signals, popping, TypeOK, ArgumentHeld,
                OnlyLiveSlotsHeld, Offset
<1>9. ASSUME NEW c \in Consumers, NEW maximum \in Nat, PopSome(c, maximum),
             UNCHANGED pushing, pop' \in [Consumers -> {"idle", "empty", "wait"}]
      PROVE  RingInv'
    BY <1>9, PopSomeKeeps DEF TypeOK, ArgumentHeld, pushing
<1>10. ASSUME NEW c \in Consumers, PopNone(c),
              UNCHANGED pushing, pop' \in [Consumers -> {"idle", "empty", "wait"}]
       PROVE  RingInv'
    BY <1>10 DEF PopNone, ring, signals, pushing, TypeOK, ArgumentHeld, OnlyLiveSlotsHeld, Offset
<1>11. ASSUME NEW c \in Consumers, NEW m \in 0..MaxBatch, Pop(c, m) PROVE RingInv'
    <2>1. pop' \in [Consumers -> {"idle", "empty", "wait"}] /\ UNCHANGED pushing
        BY <1>11 DEF Pop, TypeOK
    <2>2. PopSome(c, m) \/ PopNone(c)
        BY <1>11 DEF Pop
    <2>3. m \in Nat
        BY QueueAssumption
    <2> QED
        BY <1>9, <1>10, <2>1, <2>2, <2>3
<1>12. ASSUME NEW c \in Consumers, Drain(c) PROVE RingInv'
    BY <1>9, <1>10, <1>12 DEF Drain, TypeOK
<1>13. ASSUME NEW c \in Consumers, Wake(c) \/ ConsumerWakes(c) \/ ConsumerLeaves(c)
       PROVE  RingInv'
    BY <1>13 DEF Wake, waitLocked, ConsumerWakes, ConsumerLeaves, ring, signals, pushing, TypeOK,
                 ArgumentHeld, OnlyLiveSlotsHeld, Offset
<1>14. ASSUME Close PROVE RingInv'
    BY <1>14 DEF Close, SignalBoth, signalLocked, pushing, popping, TypeOK,
                   ArgumentHeld, OnlyLiveSlotsHeld, Offset
<1>15. ASSUME UNCHANGED vars PROVE RingInv'
    BY <1>15 DEF vars, TypeOK, ArgumentHeld, OnlyLiveSlotsHeld, Offset
<1> QED
    BY <1>1, <1>2, <1>3, <1>4, <1>5, <1>6, <1>7, <1>8, <1>11, <1>12, <1>13, <1>14, <1>15
       DEF Next, PusherStep, ConsumerStep

(* The ring keeps its type and fills exactly the slots behind its head. *)
THEOREM RingInvariant == Spec => []RingInv
<1>1. Init => RingInv
    BY RingInit
<1>2. RingInv /\ [Next]_vars => RingInv'
    BY RingStep
<1> QED
    BY <1>1, <1>2, PTL DEF Spec

(* Every variable of the queue keeps its type, for every capacity. *)
THEOREM TypeCorrect == Spec => []TypeOK
<1>1. RingInv => TypeOK
    BY DEF RingInv
<1> QED
    BY <1>1, RingInvariant, PTL

(* The ring holds on to no packet it handed out and loses none it took. *)
THEOREM OnlyLiveSlots == Spec => []OnlyLiveSlotsHeld
<1>1. RingInv => OnlyLiveSlotsHeld
    BY DEF RingInv
<1> QED
    BY <1>1, RingInvariant, PTL
-----------------------------------------------------------------------------
LEMMA WakeupStep == RingInv /\ NoLostWakeup /\ [Next]_vars => NoLostWakeup'
<1> SUFFICES ASSUME RingInv, NoLostWakeup, [Next]_vars PROVE NoLostWakeup'
    OBVIOUS
<1>1. Capacity \in Nat \ {0} /\ length \in 0..Capacity
    BY QueueAssumption DEF RingInv, TypeOK
<1>2. ASSUME NEW new \in Seq(Items), Len(new) <= Capacity - length, PushLocked(new),
             closed => Len(new) = 0
      PROVE  NoLostWakeup'
    <2>1. Len(new) \in Nat
        OBVIOUS
    <2> QED
        BY <1>1, <1>2, <2>1 DEF NoLostWakeup, PushLocked, SignalNotEmpty, signalLocked
<1>3. ASSUME NEW offered \in Offers, TryPushBatch(offered) PROVE NoLostWakeup'
    <2> DEFINE new == SubSeq(offered, 1, Pushed(Len(offered)))
    <2>1. /\ new \in Seq(Items) /\ Len(new) <= Capacity - length
          /\ closed => Len(new) = 0
        BY OfferFits DEF RingInv
    <2>2. PushLocked(new)
        BY <1>3 DEF TryPushBatch
    <2> HIDE DEF new
    <2> QED
        BY <1>2, <2>1, <2>2
<1>4. ASSUME NEW p \in Pushers, PushAccepted(p) PROVE NoLostWakeup'
    <2>1. <<argument[p]>> \in Seq(Items) /\ Len(<<argument[p]>>) <= Capacity - length
        BY <1>1, <1>4 DEF PushAccepted, RingInv, ArgumentHeld, TypeOK
    <2> QED
        BY <1>2, <1>4, <2>1 DEF PushAccepted
<1>5. ASSUME NEW p \in Pushers,
             \/ \E item \in Items : PushCall(p, item)
             \/ PushChecks(p) \/ PushGivesUp(p) \/ PushParks(p) \/ PushWakes(p)
             \/ Cancel(p) \/ NextContext(p)
      PROVE  NoLostWakeup'
    BY <1>5 DEF PushCall, PushChecks, PushGivesUp, PushParks, PushWakes, Cancel, NextContext,
                ring, signals, NoLostWakeup
<1>6. ASSUME NEW c \in Consumers, NEW maximum \in Nat, PopSome(c, maximum)
      PROVE  NoLostWakeup'
    BY <1>1, <1>6 DEF PopSome, SignalNotFull, signalLocked, NoLostWakeup
<1>7. ASSUME NEW c \in Consumers, PopNone(c) PROVE NoLostWakeup'
    BY <1>7 DEF PopNone, ring, signals, NoLostWakeup
<1>8. ASSUME NEW c \in Consumers, NEW m \in 0..MaxBatch, Pop(c, m) PROVE NoLostWakeup'
    BY <1>6, <1>7, <1>8, QueueAssumption DEF Pop
<1>9. ASSUME NEW c \in Consumers, Drain(c) PROVE NoLostWakeup'
    BY <1>6, <1>7, <1>9 DEF Drain
<1>10. ASSUME NEW c \in Consumers, Wake(c) \/ ConsumerWakes(c) \/ ConsumerLeaves(c)
       PROVE  NoLostWakeup'
    BY <1>10 DEF Wake, ConsumerWakes, ConsumerLeaves, ring, signals, NoLostWakeup
<1>11. ASSUME Close PROVE NoLostWakeup'
    BY <1>11 DEF Close, SignalBoth, signalLocked, NoLostWakeup
<1>12. ASSUME UNCHANGED vars PROVE NoLostWakeup'
    BY <1>12 DEF vars, NoLostWakeup
<1> QED
    BY <1>3, <1>4, <1>5, <1>8, <1>9, <1>10, <1>11, <1>12 DEF Next, PusherStep, ConsumerStep

(* No goroutine stays parked on a queue that has what it waits for. *)
THEOREM WakeupsArrive == Spec => []NoLostWakeup
<1>1. Init => NoLostWakeup
    BY DEF Init, NoLostWakeup
<1>2. RingInv /\ NoLostWakeup /\ [Next]_vars => NoLostWakeup'
    BY WakeupStep
<1> QED
    BY <1>1, <1>2, RingInvariant, PTL DEF Spec
-----------------------------------------------------------------------------
(* Contents is a sequence of packets, read off the ring. *)
ContentsRead ==
    /\ Contents \in Seq(Items)
    /\ Len(Contents) = length
    /\ \A i \in 1..length : Contents[i] = items[Slot(i - 1)]

LEMMA ContentsIs == RingInv => ContentsRead
<1> SUFFICES ASSUME RingInv PROVE ContentsRead
    OBVIOUS
<1>1. /\ Capacity \in Nat \ {0} /\ length \in 0..Capacity /\ head \in Slots
      /\ items \in [Slots -> Items \cup {NoItem}]
    BY QueueAssumption DEF RingInv, TypeOK
<1>2. ASSUME NEW i \in 1..length
      PROVE  items[Slot(i - 1)] \in Items
    <2>1. i - 1 \in 0..(Capacity - 1) /\ i - 1 \in 0..Capacity /\ i - 1 < length
        BY <1>1
    <2>2. Slot(i - 1) \in Slots /\ Offset(Slot(i - 1)) = i - 1
        BY <1>1, <2>1, SlotIs, OffsetOfSlot
    <2> QED
        BY <1>1, <2>1, <2>2 DEF RingInv, OnlyLiveSlotsHeld
<1>3. length \in Nat /\ Contents \in [1..length -> Items]
    BY <1>1, <1>2 DEF Contents
<1> QED
    BY <1>3 DEF Contents, ContentsRead

(* The same of the next state. *)
LEMMA NextContentsIs == RingInv' => ContentsRead'
BY ContentsIs, PTL

(* pushLocked appends. *)
LEMMA PushAppends ==
    ASSUME RingInv, RingInv', NEW new \in Seq(Items), Len(new) <= Capacity - length,
           PushLocked(new)
    PROVE  Contents' = Contents \o new
<1>1. /\ Capacity \in Nat \ {0} /\ length \in 0..Capacity /\ head \in Slots
      /\ Len(new) \in Nat
    BY QueueAssumption DEF RingInv, TypeOK
<1>2. /\ head' = head /\ length' = length + Len(new)
      /\ items' = [s \in Slots |-> LET i == Offset(s) - length + 1
                                   IN  IF i \in 1..Len(new) THEN new[i] ELSE items[s]]
    BY DEF PushLocked
<1>3. /\ Contents \in Seq(Items) /\ Len(Contents) = length
      /\ \A i \in 1..length : Contents[i] = items[Slot(i - 1)]
    BY ContentsIs DEF ContentsRead
<1>4. /\ Contents' \in Seq(Items) /\ Len(Contents') = length + Len(new)
      /\ \A i \in 1..(length + Len(new)) : Contents'[i] = items'[Slot(i - 1)]
    BY <1>2, NextContentsIs DEF Slot, ContentsRead
<1>5. /\ Contents \o new \in Seq(Items) /\ Len(Contents \o new) = length + Len(new)
      /\ \A i \in 1..(length + Len(new)) :
            (Contents \o new)[i] = IF i <= length THEN Contents[i] ELSE new[i - length]
    BY <1>3, ConcatProperties
<1>6. ASSUME NEW i \in 1..(length + Len(new))
      PROVE  Contents'[i] = (Contents \o new)[i]
    <2>1. i - 1 \in 0..(Capacity - 1) /\ i - 1 \in 0..Capacity
        BY <1>1
    <2>2. Slot(i - 1) \in Slots /\ Offset(Slot(i - 1)) = i - 1
        BY <1>1, <2>1, SlotIs, OffsetOfSlot
    <2>3. items'[Slot(i - 1)] = IF i - length \in 1..Len(new) THEN new[i - length]
                                ELSE items[Slot(i - 1)]
        <3>1. Offset(Slot(i - 1)) - length + 1 = i - length
            BY <1>1, <2>2
        <3> QED
            BY <1>2, <2>2, <3>1
    <2> QED
        BY <1>1, <1>3, <1>4, <1>5, <2>3
<1> QED
    BY <1>4, <1>5, <1>6, SeqEqual

(* PopInto takes a prefix: it is the batch, and the rest is what remains. *)
LEMMA PopTakesPrefix ==
    ASSUME RingInv, RingInv', NEW c \in Consumers, NEW maximum \in Nat, PopSome(c, maximum)
    PROVE  \E n \in 1..Capacity :
              /\ n \in 1..Len(Contents)
              /\ batch' = [batch EXCEPT ![c] = SubSeq(Contents, 1, n)]
              /\ Contents' = SubSeq(Contents, n + 1, Len(Contents))
<1> DEFINE count == PopCount(maximum)
           some  == [i \in 1..count |-> items[Slot(i - 1)]]
<1>1. /\ Capacity \in Nat \ {0} /\ length \in 0..Capacity /\ head \in Slots
      /\ items \in [Slots -> Items \cup {NoItem}]
    BY QueueAssumption DEF RingInv, TypeOK
<1>2. count \in 1..length /\ count \in 0..Capacity /\ count \in 1..Capacity
    BY <1>1 DEF PopSome, PopCount
<1>3. /\ items' = [s \in Slots |-> IF Offset(s) < count THEN NoItem ELSE items[s]]
      /\ head' = Slot(count) /\ length' = length - count
      /\ batch' = [batch EXCEPT ![c] = some]
    BY DEF PopSome, SlotsZeroed
<1> HIDE DEF count
<1>4. /\ Contents \in Seq(Items) /\ Len(Contents) = length
      /\ \A i \in 1..length : Contents[i] = items[Slot(i - 1)]
    BY ContentsIs DEF ContentsRead
<1>5. /\ Contents' \in Seq(Items) /\ Len(Contents') = length - count
      /\ \A i \in 1..(length - count) : Contents'[i] = items'[Slot(i - 1)']
    BY <1>3, NextContentsIs DEF ContentsRead
<1>6. some = SubSeq(Contents, 1, count)
    <2>1. /\ SubSeq(Contents, 1, count) \in Seq(Items)
          /\ Len(SubSeq(Contents, 1, count)) = count
          /\ \A i \in 1..count : SubSeq(Contents, 1, count)[i] = Contents[i]
        BY <1>1, <1>2, <1>4
    <2>2. \A i \in 1..count : some[i] = Contents[i]
        BY <1>1, <1>2, <1>4
    <2>3. some \in Seq(Items) /\ Len(some) = count
        <3>1. \A i \in 1..count : Contents[i] \in Items /\ Contents[i] = items[Slot(i - 1)]
            BY <1>1, <1>2, <1>4
        <3>2. count \in Nat /\ some \in [1..count -> Items]
            BY <1>1, <1>2, <3>1
        <3> QED
            BY <3>2
    <2> HIDE DEF some
    <2> QED
        BY <2>1, <2>2, <2>3, SeqEqual
<1>7. Contents' = SubSeq(Contents, count + 1, Len(Contents))
    <2>1. /\ SubSeq(Contents, count + 1, length) \in Seq(Items)
          /\ Len(SubSeq(Contents, count + 1, length)) = length - count
          /\ \A i \in 1..(length - count) :
                SubSeq(Contents, count + 1, length)[i] = Contents[count + i]
        <3>1. /\ count + 1 \in Int /\ length \in Int
              /\ \A i \in (count + 1)..length : Contents[i] \in Items
            BY <1>1, <1>2, <1>4
        <3>2. /\ SubSeq(Contents, count + 1, length) \in Seq(Items)
              /\ Len(SubSeq(Contents, count + 1, length)) =
                    IF count + 1 <= length THEN length - (count + 1) + 1 ELSE 0
              /\ \A i \in 1..(length - (count + 1) + 1) :
                    SubSeq(Contents, count + 1, length)[i] = Contents[count + 1 + i - 1]
            BY <3>1, SubSeqProperties
        <3>3. /\ length - (count + 1) + 1 = length - count
              /\ (IF count + 1 <= length THEN length - (count + 1) + 1 ELSE 0) = length - count
              /\ \A i \in 1..(length - count) : count + 1 + i - 1 = count + i
            BY <1>1, <1>2
        <3> QED
            BY <3>2, <3>3
    <2>2. ASSUME NEW i \in 1..(length - count)
          PROVE  Contents'[i] = Contents[count + i]
        <3>1. /\ i - 1 \in 0..Capacity /\ count + i - 1 \in 0..(Capacity - 1)
              /\ count + i - 1 \in 0..Capacity
            BY <1>1, <1>2
        <3>2. head' \in Slots
            BY DEF RingInv, TypeOK
        <3>3. Slot(i - 1)' = Slot(count + i - 1)
            <4>1. Slot(i - 1)' = IF head' + (i - 1) < Capacity THEN head' + (i - 1)
                                                              ELSE head' + (i - 1) - Capacity
                BY <3>1, <3>2, NextSlotIs
            <4>2. /\ Slot(count) = IF head + count < Capacity THEN head + count
                                                             ELSE head + count - Capacity
                  /\ Slot(count + i - 1) =
                        IF head + (count + i - 1) < Capacity THEN head + (count + i - 1)
                                                             ELSE head + (count + i - 1) - Capacity
                BY <1>1, <1>2, <3>1, SlotIs
            <4> QED
                BY <1>1, <1>2, <1>3, <3>1, <4>1, <4>2 DEF Slots
        <3>4. Slot(count + i - 1) \in Slots /\ Offset(Slot(count + i - 1)) = count + i - 1
            BY <1>1, <3>1, SlotIs, OffsetOfSlot
        <3>5. items'[Slot(count + i - 1)] = items[Slot(count + i - 1)]
            BY <1>1, <1>2, <1>3, <3>1, <3>4
        <3>6. Contents[count + i] = items[Slot(count + i - 1)]
            BY <1>1, <1>2, <1>4
        <3> QED
            BY <1>5, <3>3, <3>5, <3>6
    <2> QED
        BY ZenonT(60), <1>4, <1>5, <2>1, <2>2, SeqEqual
<1> QED
    BY <1>2, <1>3, <1>4, <1>6, <1>7

(* A step that leaves the ring alone leaves its contents alone. *)
LEMMA RingKept ==
    ASSUME UNCHANGED <<items, head, length>>
    PROVE  Contents' = Contents
BY DEF Contents, Slot

(* Every method of the queue is a step of the FIFO, or none. *)
LEMMA FifoStep ==
    ASSUME RingInv, RingInv', [Next]_vars
    PROVE  [Fifo!Next]_(Fifo!vars)
<1>1. /\ Capacity \in Nat \ {0} /\ MaxBatch \in Nat
      /\ length \in 0..Capacity /\ closed \in BOOLEAN
    BY QueueAssumption DEF RingInv, TypeOK
<1>2. Contents \in Seq(Items) /\ Len(Contents) = length
    BY ContentsIs DEF ContentsRead
<1>3. ASSUME NEW new \in Seq(Items), Len(new) <= Capacity - length, PushLocked(new),
             Len(new) = 0 \/ ~closed, UNCHANGED batch
      PROVE  [Fifo!Next]_(Fifo!vars)
    <2>1. Contents' = Contents \o new /\ closed' = closed
        BY <1>3, PushAppends DEF PushLocked
    <2>2. CASE Len(new) = 0
        <3>1. new = <<>>
            BY <2>2, EmptySeq
        <3>2. Contents' = Contents
            BY <1>2, <2>1, <3>1, ConcatEmptySeq
        <3> QED
            BY <1>3, <2>1, <3>2 DEF Fifo!vars
    <2>3. CASE Len(new) # 0
        <3>1. Len(new) \in 1..Fifo!Room
            BY <1>1, <1>2, <1>3, <2>3 DEF Fifo!Room
        <3>2. new \in [1..Len(new) -> Items]
            OBVIOUS
        <3>3. Fifo!Accept
            BY <1>3, <2>1, <2>3, <3>1, <3>2 DEF Fifo!Accept
        <3> QED
            BY <3>3 DEF Fifo!Next
    <2> QED
        BY <2>2, <2>3
<1>4. ASSUME NEW c \in Consumers, NEW m \in Nat, PopSome(c, m) \/ PopNone(c)
      PROVE  [Fifo!Next]_(Fifo!vars)
    <2>1. CASE PopSome(c, m)
        <3>1. PICK n \in 1..Capacity :
                 /\ n \in 1..Len(Contents)
                 /\ batch' = [batch EXCEPT ![c] = SubSeq(Contents, 1, n)]
                 /\ Contents' = SubSeq(Contents, n + 1, Len(Contents))
            BY <2>1, PopTakesPrefix
        <3>2. closed' = closed
            BY <2>1 DEF PopSome
        <3>3. Fifo!Take(c, n)
            BY <3>1, <3>2 DEF Fifo!Take
        <3> QED
            BY <3>3 DEF Fifo!Next
    <2>2. CASE PopNone(c)
        <3>1. /\ length = 0 /\ batch' = [batch EXCEPT ![c] = <<>>]
              /\ UNCHANGED <<items, head, length, closed>>
            BY <2>2 DEF PopNone, ring
        <3>2. Contents' = Contents
            BY <3>1, RingKept
        <3>3. Contents = <<>>
            BY <1>2, <3>1, EmptySeq
        <3>4. Fifo!TakeNothing(c)
            BY <3>1, <3>2, <3>3 DEF Fifo!TakeNothing
        <3> QED
            BY <3>4 DEF Fifo!Next
    <2> QED
        BY <1>4, <2>1, <2>2
<1>5. ASSUME UNCHANGED <<items, head, length, closed, batch>>
      PROVE  [Fifo!Next]_(Fifo!vars)
    BY <1>5, RingKept DEF Fifo!vars
<1>6. ASSUME NEW offered \in Offers, TryPushBatch(offered)
      PROVE  [Fifo!Next]_(Fifo!vars)
    <2> DEFINE new == SubSeq(offered, 1, Pushed(Len(offered)))
    <2>1. /\ new \in Seq(Items) /\ Len(new) <= Capacity - length
          /\ Len(new) = Pushed(Len(offered))
        BY <1>6, OfferFits DEF RingInv
    <2>2. Len(new) = 0 \/ ~closed
        BY <2>1 DEF Pushed
    <2>3. PushLocked(new) /\ UNCHANGED batch
        BY <1>6 DEF TryPushBatch, popping
    <2> HIDE DEF new
    <2> QED
        BY <1>3, <2>1, <2>2, <2>3
<1>7. ASSUME NEW p \in Pushers, PushAccepted(p)
      PROVE  [Fifo!Next]_(Fifo!vars)
    <2>1. /\ <<argument[p]>> \in Seq(Items) /\ Len(<<argument[p]>>) = 1
        BY <1>7 DEF PushAccepted, RingInv, ArgumentHeld
    <2>2. /\ PushLocked(<<argument[p]>>) /\ UNCHANGED batch
          /\ ~closed /\ 1 <= Capacity - length
        BY <1>1, <1>7 DEF PushAccepted, popping
    <2> QED
        BY <1>3, <2>1, <2>2
<1>8. ASSUME NEW p \in Pushers,
             \/ \E item \in Items : PushCall(p, item)
             \/ PushChecks(p) \/ PushGivesUp(p) \/ PushParks(p) \/ PushWakes(p)
             \/ Cancel(p) \/ NextContext(p)
      PROVE  [Fifo!Next]_(Fifo!vars)
    BY <1>5, <1>8 DEF PushCall, PushChecks, PushGivesUp, PushParks, PushWakes, Cancel,
                      NextContext, ring, popping
<1>9. ASSUME NEW c \in Consumers, NEW m \in 0..MaxBatch, Pop(c, m)
      PROVE  [Fifo!Next]_(Fifo!vars)
    BY <1>1, <1>4, <1>9 DEF Pop
<1>10. ASSUME NEW c \in Consumers, Drain(c)
       PROVE  [Fifo!Next]_(Fifo!vars)
    BY <1>4, <1>10 DEF Drain
<1>11. ASSUME NEW c \in Consumers, Wake(c) \/ ConsumerWakes(c) \/ ConsumerLeaves(c)
       PROVE  [Fifo!Next]_(Fifo!vars)
    BY <1>5, <1>11 DEF Wake, ConsumerWakes, ConsumerLeaves, ring
<1>12. ASSUME Close
       PROVE  [Fifo!Next]_(Fifo!vars)
    <2>1. Contents' = Contents
        BY <1>12, RingKept DEF Close
    <2>2. Fifo!Shut
        BY <1>12, <2>1 DEF Close, Fifo!Shut, popping
    <2> QED
        BY <2>2 DEF Fifo!Next
<1>13. ASSUME UNCHANGED vars
       PROVE  [Fifo!Next]_(Fifo!vars)
    BY <1>5, <1>13 DEF vars
<1> QED
    BY <1>6, <1>7, <1>8, <1>9, <1>10, <1>11, <1>12, <1>13 DEF Next, PusherStep, ConsumerStep

(* The ring with its signals implements the bounded FIFO: batches enter    *)
(* whole and in order, each packet leaves once, and nothing enters after   *)
(* Close, for every capacity and whatever the goroutines do.               *)
THEOREM RingIsFifo == Spec => FifoSpec
<1>1. Init => Fifo!Init
    <2> SUFFICES ASSUME Init PROVE Fifo!Init
        OBVIOUS
    <2>1. RingInv /\ length = 0
        BY RingInit DEF Init
    <2>2. Contents = <<>>
        BY <2>1, ContentsIs, EmptySeq DEF ContentsRead
    <2> QED
        BY <2>2 DEF Init, Fifo!Init
<1>2. RingInv /\ RingInv' /\ [Next]_vars => [Fifo!Next]_(Fifo!vars)
    BY FifoStep
<1> QED
    BY <1>1, <1>2, RingInvariant, PTL DEF Spec, FifoSpec, Fifo!Spec
=============================================================================
