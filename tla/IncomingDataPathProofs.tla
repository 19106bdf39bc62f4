------------------------ MODULE IncomingDataPathProofs ------------------------
(***************************************************************************)
(* For every number of readers, sessions and packets and every length of   *)
(* the queue: packets reach the readers in the order the gateway sent      *)
(* them, and each has one owner, over the end of one session and the start *)
(* of the next, a terminal error and Close.                                *)
(***************************************************************************)
EXTENDS IncomingDataPath, FiniteSetTheorems, SequenceTheorems, TLAPS

(* One receive goroutine at a time: those of earlier sessions have ended,  *)
(* those of later ones are not there, and only a goroutine that pushes has *)
(* a packet in its hand.  Close drains when the last one has ended.        *)
GoroutineInv ==
    /\ \A s \in Sessions : s < session => receive[s] = "ended"
    /\ \A s \in Sessions : s > session => receive[s] = "off"
    /\ \A s \in Sessions : receive[s] # "push" => hand[s] = 0
    /\ \A s \in Sessions : receive[s] = "push" => hand[s] = received /\ received > 0
    /\ supervisor = "done" => receive[session] = "ended"
    /\ closing \in {"drain", "done"} => supervisor = "done"
    /\ closing \notin {"no", "queue"} => queueClosed
    /\ closing = "done" => queue = <<>>

Increasing(s) == \A i, j \in 1..Len(s) : i < j => s[i] < s[j]

(* What was delivered and what is queued is in the order of arrival, and a *)
(* packet in the hand is later than all of it.                             *)
OrderInv ==
    /\ Increasing(delivered) /\ Increasing(queue)
    /\ \A i \in 1..Len(delivered), j \in 1..Len(queue) : delivered[i] < queue[j]
    /\ \A i \in 1..Len(delivered) : delivered[i] <= received
    /\ \A i \in 1..Len(queue) : queue[i] <= received
    /\ receive[session] = "push" =>
           /\ \A i \in 1..Len(delivered) : delivered[i] < received
           /\ \A i \in 1..Len(queue) : queue[i] < received

Holds(s, p) == IF \E i \in 1..Len(s) : s[i] = p THEN 1 ELSE 0
Held(p) == IF receive[session] = "push" /\ p = received THEN 1 ELSE 0

(* The owner of a packet received, counted with sets; no other was released. *)
OwnerInv ==
    /\ \A p \in 1..received : Held(p) + Holds(queue, p) + Holds(delivered, p) + released[p] = 1
    /\ \A p \in Packets : p > received => released[p] = 0

DataPathInv == TypeOK /\ GoroutineInv /\ OrderInv /\ OwnerInv
-----------------------------------------------------------------------------
(* The steps that move no packet and no goroutine. *)
Quiet ==
    \/ SessionOver \/ Terminate \/ SupervisorEnds
    \/ CloseLocks \/ CloseQueue \/ CloseSession \/ SupervisorAwaited
    \/ \E r \in Readers :
           ReadDataPackets(r) \/ ReaderCancelled(r) \/ ReaderLooks(r) \/ ReaderWakes(r)

pathVars == <<session, receive, hand, received, queue, delivered, released>>

LEMMA QuietLeavesPath == Quiet => UNCHANGED pathVars
<1> USE DEF pathVars, sessionVars, clientVars, queueVars
<1>1. SessionOver \/ Terminate \/ SupervisorEnds => UNCHANGED pathVars
    BY Zenon DEF SessionOver, Terminate, SupervisorEnds
<1>2. CloseLocks \/ CloseQueue \/ CloseSession \/ SupervisorAwaited => UNCHANGED pathVars
    BY Zenon DEF CloseLocks, CloseQueue, CloseSession, SupervisorAwaited
<1>3. ASSUME NEW r \in Readers,
             ReadDataPackets(r) \/ ReaderCancelled(r) \/ ReaderLooks(r) \/ ReaderWakes(r)
      PROVE  UNCHANGED pathVars
    BY <1>3, Zenon DEF ReadDataPackets, ReaderCancelled, ReaderLooks, ReaderWakes
<1> QED
    BY <1>1, <1>2, <1>3, Zenon DEF Quiet

LEMMA NextCases ==
    ASSUME [Next]_vars
    PROVE  \/ \E s \in Sessions :
                  ReadPacket(s) \/ GiveUpPacket(s) \/ PushPacket(s) \/ ReceiveEnds(s)
           \/ NextSession \/ CloseDrains \/ \E r \in Readers : ReaderPops(r)
           \/ Quiet \/ UNCHANGED vars
BY Zenon DEF Next, CloseStep, ReaderStep, Quiet

(* What a pop of n packets leaves where. *)
LEMMA Popped ==
    ASSUME TypeOK, NEW n \in 1..Len(queue),
           delivered' = delivered \o SubSeq(queue, 1, n),
           queue' = SubSeq(queue, n + 1, Len(queue))
    PROVE  /\ queue' \in Seq(Packets) /\ Len(queue') = Len(queue) - n
           /\ \A i \in 1..Len(queue') : i + n \in 1..Len(queue) /\ queue'[i] = queue[i + n]
           /\ delivered' \in Seq(Packets) /\ Len(delivered') = Len(delivered) + n
           /\ \A i \in 1..Len(delivered) : delivered'[i] = delivered[i]
           /\ \A i \in 1..n : delivered'[Len(delivered) + i] = queue[i]
<1>1. /\ queue \in Seq(Packets) /\ delivered \in Seq(Packets)
      /\ Len(queue) \in Nat /\ Len(delivered) \in Nat
    BY DEF TypeOK
<1>2. \A i \in 1..Len(queue) : queue[i] \in Packets
    BY <1>1, ElementOfSeq
<1>3. /\ SubSeq(queue, 1, n) \in Seq(Packets) /\ Len(SubSeq(queue, 1, n)) = n
      /\ \A i \in 1..n : SubSeq(queue, 1, n)[i] = queue[i]
    BY <1>1, <1>2, SubSeqProperties
<1>4. /\ queue' \in Seq(Packets) /\ Len(queue') = Len(queue) - n
      /\ \A i \in 1..Len(queue') : i + n \in 1..Len(queue) /\ queue'[i] = queue[i + n]
    <2>1. CASE n = Len(queue)
        BY <1>1, <2>1, SubSeqProperties, EmptySeq
    <2>2. CASE n < Len(queue)
        BY <1>1, <1>2, <2>2, SubSeqProperties
    <2> QED
        BY <1>1, <2>1, <2>2
<1>5. /\ delivered' \in Seq(Packets) /\ Len(delivered') = Len(delivered) + n
      /\ \A i \in 1..(Len(delivered) + n) :
             delivered'[i] = IF i <= Len(delivered) THEN delivered[i]
                             ELSE SubSeq(queue, 1, n)[i - Len(delivered)]
    BY <1>1, <1>3, ConcatProperties
<1> QED
    BY <1>1, <1>3, <1>4, <1>5

LEMMA Pushed ==
    ASSUME TypeOK, NEW p \in Packets, queue' = Append(queue, p)
    PROVE  /\ queue' \in Seq(Packets) /\ Len(queue') = Len(queue) + 1 /\ Len(queue) \in Nat
           /\ queue'[Len(queue) + 1] = p
           /\ \A i \in 1..Len(queue) : queue'[i] = queue[i]
BY AppendProperties DEF TypeOK

(* TypeOK in two parts: the flags, and everything else. *)
Flags == queueClosed \in BOOLEAN /\ closed \in BOOLEAN /\ terminal \in BOOLEAN

LEMMA FlagsPreserved == Flags /\ [Next]_vars => Flags'
<1> SUFFICES ASSUME Flags, [Next]_vars PROVE Flags'
    OBVIOUS
<1> USE DEF Flags, sessionVars, clientVars, queueVars, readerVars
<1>1. ASSUME NEW s \in Sessions, ReadPacket(s) PROVE Flags'
    BY <1>1, Zenon DEF ReadPacket
<1>2. ASSUME NEW s \in Sessions, GiveUpPacket(s) PROVE Flags'
    BY <1>2, Zenon DEF GiveUpPacket
<1>3. ASSUME NEW s \in Sessions, PushPacket(s) PROVE Flags'
    BY <1>3, Zenon DEF PushPacket
<1>4. ASSUME NEW s \in Sessions, ReceiveEnds(s) PROVE Flags'
    BY <1>4, Zenon DEF ReceiveEnds
<1>5. CASE SessionOver
    BY <1>5, Zenon DEF SessionOver
<1>6. CASE NextSession
    BY <1>6, Zenon DEF NextSession
<1>7. CASE Terminate
    BY <1>7, Zenon DEF Terminate
<1>8. CASE SupervisorEnds
    BY <1>8, Zenon DEF SupervisorEnds
<1>9. CASE CloseLocks
    BY <1>9, Zenon DEF CloseLocks
<1>10. CASE CloseQueue
    BY <1>10, Zenon DEF CloseQueue
<1>11. CASE CloseSession
    BY <1>11, Zenon DEF CloseSession
<1>12. CASE SupervisorAwaited
    BY <1>12, Zenon DEF SupervisorAwaited
<1>13. CASE CloseDrains
    BY <1>13, Zenon DEF CloseDrains
<1>14. ASSUME NEW r \in Readers, ReadDataPackets(r) PROVE Flags'
    BY <1>14, Zenon DEF ReadDataPackets
<1>15. ASSUME NEW r \in Readers, ReaderCancelled(r) PROVE Flags'
    BY <1>15, Zenon DEF ReaderCancelled
<1>16. ASSUME NEW r \in Readers, ReaderLooks(r) PROVE Flags'
    BY <1>16, Zenon DEF ReaderLooks
<1>17. ASSUME NEW r \in Readers, ReaderPops(r) PROVE Flags'
    BY <1>17, Zenon DEF ReaderPops
<1>18. ASSUME NEW r \in Readers, ReaderWakes(r) PROVE Flags'
    BY <1>18, Zenon DEF ReaderWakes
<1>19. CASE UNCHANGED vars
    BY <1>19, Zenon DEF vars
<1> QED
    BY <1>1, <1>2, <1>3, <1>4, <1>5, <1>6, <1>7, <1>8, <1>9, <1>10,
       <1>11, <1>12, <1>13, <1>14, <1>15, <1>16, <1>17, <1>18, <1>19
    DEF Next, CloseStep, ReaderStep

Values ==
    /\ session \in Sessions
    /\ supervisor \in {"run", "close", "done"}
    /\ receive \in [Sessions -> {"off", "read", "push", "ended"}]
    /\ hand \in [Sessions -> Packets \cup {0}] /\ received \in 0..LastPacket
    /\ cancelled \subseteq Sessions
    /\ queue \in Seq(Packets) /\ Len(queue) <= QueueLength
    /\ changes \in Nat
    /\ closing \in {"no", "queue", "session", "supervisor", "drain", "done"}
    /\ reader \in [Readers -> {"out", "look", "pop", "wait"}] /\ seen \in [Readers -> Nat]
    /\ delivered \in Seq(Packets)
    /\ released \in [Packets -> 0..2]

LEMMA TypeParts == TypeOK <=> Flags /\ Values
BY Zenon DEF TypeOK, Flags, Values

(* A packet in the hand is held by the goroutine of the current session and *)
(* was not released; nor was one in the queue.                              *)
LEMMA NotReleased ==
    ASSUME DataPathInv
    PROVE  /\ \A s \in Sessions : receive[s] = "push" =>
                  /\ s = session /\ hand[s] = received
                  /\ received \in Packets /\ released[received] = 0
           /\ \A i \in 1..Len(queue) :
                  queue[i] \in Packets /\ queue[i] <= received /\ released[queue[i]] = 0
<1>1. /\ \A s \in Sessions : receive[s] = "push" =>
             s = session /\ hand[s] = received /\ received \in 1..LastPacket
      /\ LastPacket \in Nat /\ received \in Nat
    <2>1. /\ session \in 1..LastSession /\ LastSession \in Nat /\ Sessions = 1..LastSession
          /\ received \in 0..LastPacket /\ LastPacket \in Nat /\ GoroutineInv
        BY DataPathAssumption DEF DataPathInv, TypeOK, Sessions
    <2> QED
        BY <2>1 DEF GoroutineInv
<1>2. \A p \in 1..received : Holds(queue, p) \in {0, 1} /\ Holds(delivered, p) \in {0, 1}
                                 /\ Held(p) \in {0, 1} /\ p \in Packets /\ released[p] \in 0..2
    BY DataPathAssumption DEF Holds, Held, DataPathInv, TypeOK, Packets
<1>3. ASSUME NEW s \in Sessions, receive[s] = "push" PROVE released[received] = 0
    <2>1. received \in 1..received /\ Held(received) = 1
        BY <1>1, <1>3 DEF Held
    <2> QED
        BY <1>2, <2>1 DEF DataPathInv, OwnerInv
<1>4. ASSUME NEW i \in 1..Len(queue)
      PROVE  queue[i] \in Packets /\ queue[i] <= received /\ released[queue[i]] = 0
    <2>1. queue[i] \in Packets /\ queue[i] <= received
        BY ElementOfSeq DEF DataPathInv, TypeOK, OrderInv
    <2>2. queue[i] \in 1..received /\ Holds(queue, queue[i]) = 1
        BY <1>1, <2>1 DEF Packets, Holds
    <2> QED
        BY <1>2, <2>1, <2>2 DEF DataPathInv, OwnerInv
<1> QED
    BY <1>1, <1>3, <1>4 DEF Packets

LEMMA ValuesPreserved == DataPathInv /\ [Next]_vars => Values'
<1> SUFFICES ASSUME DataPathInv, [Next]_vars PROVE Values'
    OBVIOUS
<1> USE DataPathAssumption DEF Values, sessionVars, clientVars, queueVars, readerVars
<1>0. Values
    BY TypeParts DEF DataPathInv
<1>1. ASSUME NEW s \in Sessions, ReadPacket(s) PROVE Values'
    <2>1. received + 1 \in Packets /\ received + 1 \in 0..LastPacket
        BY <1>0, <1>1 DEF ReadPacket, Packets
    <2> QED
        BY <1>0, <1>1, <2>1 DEF ReadPacket
<1>2. ASSUME NEW s \in Sessions, GiveUpPacket(s) PROVE Values'
    <2>1. hand[s] \in Packets /\ released[hand[s]] = 0
        BY <1>2, NotReleased DEF GiveUpPacket
    <2> QED
        BY <1>0, <1>2, <2>1 DEF GiveUpPacket, ReleaseRefused
<1>3. ASSUME NEW s \in Sessions, PushPacket(s) PROVE Values'
    <2>1. hand[s] \in Packets
        BY <1>3, NotReleased DEF PushPacket
    <2>2. queue' \in Seq(Packets) /\ Len(queue') <= QueueLength
        BY <1>0, <1>3, <2>1, Pushed DEF PushPacket, CanPush, DataPathInv
    <2> QED
        BY <1>0, <1>3, <2>2 DEF PushPacket
<1>4. ASSUME NEW s \in Sessions, ReceiveEnds(s) PROVE Values'
    BY <1>4, <1>0 DEF ReceiveEnds
<1>5. CASE SessionOver
    BY <1>5, <1>0 DEF SessionOver, stopRunning
<1>6. CASE NextSession
    BY <1>6, <1>0 DEF NextSession, Sessions
<1>7. CASE Terminate
    BY <1>7, <1>0 DEF Terminate, signalStateChanged
<1>8. CASE SupervisorEnds
    BY <1>8, <1>0 DEF SupervisorEnds, signalStateChanged
<1>9. CASE CloseLocks
    BY <1>9, <1>0 DEF CloseLocks, signalStateChanged
<1>10. CASE CloseQueue
    BY <1>10, <1>0 DEF CloseQueue
<1>11. CASE CloseSession
    BY <1>11, <1>0 DEF CloseSession, stopRunning
<1>12. CASE SupervisorAwaited
    BY <1>12, <1>0 DEF SupervisorAwaited
<1>13. CASE CloseDrains
    <2>1. \A p \in Range(queue) : released[p] = 0
        BY NotReleased, <1>0 DEF Range
    <2>2. queue' = <<>> /\ released' \in [Packets -> 0..2]
        BY <1>0, <1>13, <2>1 DEF CloseDrains, Drain
    <2>3. queue' \in Seq(Packets) /\ Len(queue') <= QueueLength
        BY <2>2, EmptySeq
    <2> QED
        BY <1>0, <1>13, <2>2, <2>3 DEF CloseDrains
<1>14. ASSUME NEW r \in Readers, ReadDataPackets(r) PROVE Values'
    BY <1>14, <1>0 DEF ReadDataPackets, ReaderAt
<1>15. ASSUME NEW r \in Readers, ReaderCancelled(r) PROVE Values'
    BY <1>15, <1>0 DEF ReaderCancelled, ReaderAt
<1>16. ASSUME NEW r \in Readers, ReaderLooks(r) PROVE Values'
    BY <1>16, <1>0 DEF ReaderLooks, ReaderAt
<1>17. ASSUME NEW r \in Readers, ReaderPops(r) PROVE Values'
    <2>1. /\ queue' \in Seq(Packets) /\ Len(queue') <= QueueLength
          /\ delivered' \in Seq(Packets)
        <3>1. CASE queue = <<>>
            BY <1>0, <1>17, <3>1 DEF ReaderPops
        <3>2. CASE queue # <<>>
            <4>1. PICK n \in {1, Len(queue)} : /\ delivered' = delivered \o SubSeq(queue, 1, n)
                                               /\ queue' = SubSeq(queue, n + 1, Len(queue))
                BY <1>17, <3>2 DEF ReaderPops
            <4>2. n \in 1..Len(queue) /\ Len(queue) \in Nat
                BY <1>0, <3>2, EmptySeq
            <4> QED
                BY <1>0, <4>1, <4>2, Popped DEF DataPathInv
        <3> QED
            BY <3>1, <3>2
    <2> QED
        BY <1>0, <1>17, <2>1 DEF ReaderPops, ReaderAt
<1>18. ASSUME NEW r \in Readers, ReaderWakes(r) PROVE Values'
    BY <1>18, <1>0 DEF ReaderWakes, ReaderAt
<1>19. CASE UNCHANGED vars
    BY <1>19, <1>0 DEF vars
<1> QED
    BY <1>1, <1>2, <1>3, <1>4, <1>5, <1>6, <1>7, <1>8, <1>9, <1>10,
       <1>11, <1>12, <1>13, <1>14, <1>15, <1>16, <1>17, <1>18, <1>19
    DEF Next, CloseStep, ReaderStep

(* NextSession and Close wait for the receive goroutine. *)
LEMMA GoroutinesPreserved == DataPathInv /\ [Next]_vars => GoroutineInv'
<1> SUFFICES ASSUME DataPathInv, [Next]_vars PROVE GoroutineInv'
    OBVIOUS
<1> USE DEF Values, GoroutineInv, sessionVars, clientVars, queueVars, readerVars
<1>0. /\ Values /\ GoroutineInv /\ LastSession \in Nat /\ LastPacket \in Nat
      /\ session \in 1..LastSession /\ Sessions = 1..LastSession
    BY TypeParts, DataPathAssumption DEF DataPathInv, Values, Sessions
<1>1. ASSUME NEW s \in Sessions, ReadPacket(s) PROVE GoroutineInv'
    <2>1. s = session
        BY <1>0, <1>1 DEF ReadPacket
    <2>2. \A t \in Sessions : t # s => receive[t] \in {"off", "ended"}
        BY <1>0, <2>1
    <2>3. /\ receive' = [receive EXCEPT ![s] = "push"]
          /\ hand' = [hand EXCEPT ![s] = received'] /\ received' = received + 1
          /\ receive[s] = "read"
          /\ UNCHANGED <<session, supervisor, closing, queueClosed, queue>>
        BY <1>1 DEF ReadPacket
    <2> QED
        BY <1>0, <2>1, <2>2, <2>3
<1>2. ASSUME NEW s \in Sessions, GiveUpPacket(s) PROVE GoroutineInv'
    BY <1>2, <1>0 DEF GiveUpPacket
<1>3. ASSUME NEW s \in Sessions, PushPacket(s) PROVE GoroutineInv'
    BY <1>3, <1>0 DEF PushPacket
<1>4. ASSUME NEW s \in Sessions, ReceiveEnds(s) PROVE GoroutineInv'
    BY <1>4, <1>0 DEF ReceiveEnds
<1>5. CASE SessionOver
    BY <1>5, <1>0 DEF SessionOver
<1>6. CASE NextSession
    BY <1>6, <1>0 DEF NextSession, Sessions, Awaited
<1>7. CASE Terminate
    BY <1>7, <1>0 DEF Terminate
<1>8. CASE SupervisorEnds
    BY <1>8, <1>0 DEF SupervisorEnds, Awaited
<1>9. CASE CloseLocks
    BY <1>9, <1>0 DEF CloseLocks
<1>10. CASE CloseQueue
    BY <1>10, <1>0 DEF CloseQueue
<1>11. CASE CloseSession
    BY <1>11, <1>0 DEF CloseSession
<1>12. CASE SupervisorAwaited
    BY <1>12, <1>0 DEF SupervisorAwaited
<1>13. CASE CloseDrains
    BY <1>13, <1>0 DEF CloseDrains, Drain
<1>14. ASSUME NEW r \in Readers, ReadDataPackets(r) PROVE GoroutineInv'
    BY <1>14, <1>0 DEF ReadDataPackets
<1>15. ASSUME NEW r \in Readers, ReaderCancelled(r) PROVE GoroutineInv'
    BY <1>15, <1>0 DEF ReaderCancelled
<1>16. ASSUME NEW r \in Readers, ReaderLooks(r) PROVE GoroutineInv'
    BY <1>16, <1>0 DEF ReaderLooks
<1>17. ASSUME NEW r \in Readers, ReaderPops(r) PROVE GoroutineInv'
    <2>1. queue = <<>> => queue' = <<>>
        BY <1>17 DEF ReaderPops
    <2> QED
        BY <1>0, <1>17, <2>1 DEF ReaderPops
<1>18. ASSUME NEW r \in Readers, ReaderWakes(r) PROVE GoroutineInv'
    BY <1>18, <1>0 DEF ReaderWakes
<1>19. CASE UNCHANGED vars
    BY <1>19, <1>0 DEF vars
<1> QED
    BY <1>1, <1>2, <1>3, <1>4, <1>5, <1>6, <1>7, <1>8, <1>9, <1>10,
       <1>11, <1>12, <1>13, <1>14, <1>15, <1>16, <1>17, <1>18, <1>19
    DEF Next, CloseStep, ReaderStep

(* The numbers the order is about. *)
LEMMA Numbers ==
    ASSUME DataPathInv
    PROVE  /\ Len(queue) \in Nat /\ Len(delivered) \in Nat
           /\ received \in Nat /\ LastPacket \in Nat /\ received <= LastPacket
           /\ session \in Sessions
           /\ \A i \in 1..Len(queue) : queue[i] \in Nat /\ queue[i] \in 1..LastPacket
           /\ \A i \in 1..Len(delivered) : delivered[i] \in Nat /\ delivered[i] \in 1..LastPacket
<1>1. /\ queue \in Seq(Packets) /\ delivered \in Seq(Packets) /\ received \in 0..LastPacket
      /\ session \in Sessions /\ LastPacket \in Nat
    BY DataPathAssumption DEF DataPathInv, TypeOK
<1>2. /\ \A i \in 1..Len(queue) : queue[i] \in Packets
      /\ \A i \in 1..Len(delivered) : delivered[i] \in Packets
    BY <1>1, ElementOfSeq
<1> QED
    BY <1>1, <1>2 DEF Packets

(* A packet is pushed behind all others; a reader takes them from the front. *)
LEMMA OrderPreserved == DataPathInv /\ [Next]_vars => OrderInv'
<1> SUFFICES ASSUME DataPathInv, [Next]_vars PROVE OrderInv'
    OBVIOUS
<1> USE DEF OrderInv, Increasing
<1>0. OrderInv /\ TypeOK
    BY DEF DataPathInv
<1>1. ASSUME NEW s \in Sessions, ReadPacket(s) PROVE OrderInv'
    <2>1. received' = received + 1 /\ UNCHANGED <<queue, delivered, session>>
        BY <1>1 DEF ReadPacket, queueVars
    <2> QED
        BY <1>0, <2>1, Numbers
<1>2. ASSUME NEW s \in Sessions, GiveUpPacket(s) PROVE OrderInv'
    <2>1. /\ s = session /\ receive' = [receive EXCEPT ![s] = "read"]
          /\ UNCHANGED <<queue, delivered, session, received>>
        BY <1>2, NotReleased DEF GiveUpPacket, queueVars
    <2>2. receive'[session'] = "read"
        BY <1>0, <2>1, Numbers DEF TypeOK
    <2> QED
        BY <1>0, <2>1, <2>2
<1>3. ASSUME NEW s \in Sessions, PushPacket(s) PROVE OrderInv'
    <2>1. /\ s = session /\ receive' = [receive EXCEPT ![s] = "read"] /\ receive[s] = "push"
          /\ queue' = Append(queue, received) /\ received \in Packets
          /\ UNCHANGED <<delivered, session, received>>
        BY <1>3, NotReleased DEF PushPacket
    <2>2. receive'[session'] = "read"
        BY <1>0, <2>1, Numbers DEF TypeOK
    <2>3. /\ Len(queue') = Len(queue) + 1 /\ queue'[Len(queue) + 1] = received
          /\ \A i \in 1..Len(queue) : queue'[i] = queue[i]
        BY <1>0, <2>1, Pushed
    <2>4. /\ \A i \in 1..Len(delivered) : delivered[i] < received
          /\ \A i \in 1..Len(queue) : queue[i] < received
        BY <1>0, <2>1
    <2>5. Increasing(queue')
        <3> SUFFICES ASSUME NEW i \in 1..Len(queue'), NEW j \in 1..Len(queue'), i < j
                     PROVE  queue'[i] < queue'[j]
            OBVIOUS
        <3>1. Len(queue) \in Nat /\ i \in 1..Len(queue) /\ queue'[i] = queue[i]
            BY <2>3, Numbers
        <3>2. CASE j \in 1..Len(queue)
            BY <1>0, <2>3, <3>1, <3>2
        <3>3. CASE j = Len(queue) + 1
            BY <2>3, <2>4, <3>1, <3>3
        <3> QED
            BY <2>3, <3>1, <3>2, <3>3
    <2>6. \A i \in 1..Len(delivered), j \in 1..Len(queue') : delivered[i] < queue'[j]
        BY <1>0, <2>3, <2>4, Numbers
    <2>7. \A i \in 1..Len(queue') : queue'[i] <= received
        BY <1>0, <2>3, <2>4, Numbers
    <2> QED
        BY <1>0, <2>1, <2>2, <2>5, <2>6, <2>7
<1>4. ASSUME NEW s \in Sessions, ReceiveEnds(s) PROVE OrderInv'
    <2>1. /\ receive' = [receive EXCEPT ![s] = "ended"]
          /\ UNCHANGED <<queue, delivered, session, received>>
        BY <1>4 DEF ReceiveEnds, queueVars
    <2>2. receive'[session'] = "push" => receive[session] = "push"
        BY <1>0, <2>1, Numbers DEF TypeOK
    <2> QED
        BY <1>0, <2>1, <2>2
<1>5. CASE NextSession
    <2>1. /\ receive' = [receive EXCEPT ![session'] = "read"] /\ session' \in Sessions
          /\ UNCHANGED <<queue, delivered, received>>
        BY <1>5, DataPathAssumption DEF NextSession, queueVars, DataPathInv, TypeOK, Sessions
    <2>2. receive'[session'] = "read"
        BY <1>0, <2>1 DEF TypeOK
    <2> QED
        BY <1>0, <2>1, <2>2
<1>6. CASE CloseDrains
    <2>1. Len(queue') = 0 /\ UNCHANGED <<delivered, session, received, receive>>
        BY <1>6, EmptySeq DEF CloseDrains, Drain, sessionVars
    <2> QED
        BY <1>0, <2>1
<1>7. ASSUME NEW r \in Readers, ReaderPops(r) PROVE OrderInv'
    <2>1. UNCHANGED <<session, received, receive>>
        BY <1>7 DEF ReaderPops, sessionVars
    <2>2. CASE UNCHANGED <<queue, delivered>>
        BY <1>0, <2>1, <2>2
    <2>3. CASE \E n \in {1, Len(queue)} : /\ queue # <<>>
                                          /\ delivered' = delivered \o SubSeq(queue, 1, n)
                                          /\ queue' = SubSeq(queue, n + 1, Len(queue))
        <3>1. PICK n \in {1, Len(queue)} : /\ queue # <<>>
                                           /\ delivered' = delivered \o SubSeq(queue, 1, n)
                                           /\ queue' = SubSeq(queue, n + 1, Len(queue))
            BY <2>3
        <3>2. n \in 1..Len(queue)
            BY <3>1, Numbers, EmptySeq, <1>0 DEF TypeOK
        <3>3. /\ Len(queue') = Len(queue) - n
              /\ \A i \in 1..Len(queue') : i + n \in 1..Len(queue) /\ queue'[i] = queue[i + n]
              /\ Len(delivered') = Len(delivered) + n
              /\ \A i \in 1..Len(delivered) : delivered'[i] = delivered[i]
              /\ \A i \in 1..n : delivered'[Len(delivered) + i] = queue[i]
            BY <1>0, <3>1, <3>2, Popped
        <3> DEFINE m == Len(delivered)
        <3>4. \A i \in 1..Len(delivered') :
                  \/ i \in 1..m /\ delivered'[i] = delivered[i]
                  \/ i - m \in 1..n /\ i - m \in 1..Len(queue) /\ delivered'[i] = queue[i - m]
            BY <3>2, <3>3, Numbers
        <3>5. \A i, j \in 1..Len(queue') : i < j => queue'[i] < queue'[j]
            <4> SUFFICES ASSUME NEW i \in 1..Len(queue'), NEW j \in 1..Len(queue'), i < j
                         PROVE  queue'[i] < queue'[j]
                OBVIOUS
            <4>1. /\ i + n \in 1..Len(queue) /\ queue'[i] = queue[i + n]
                  /\ j + n \in 1..Len(queue) /\ queue'[j] = queue[j + n]
                BY <3>3
            <4>2. i + n < j + n
                BY <3>2
            <4> QED
                BY <1>0, <4>1, <4>2
        <3>6. \A i, j \in 1..Len(delivered') : i < j => delivered'[i] < delivered'[j]
            <4> SUFFICES ASSUME NEW i \in 1..Len(delivered'), NEW j \in 1..Len(delivered'), i < j
                         PROVE  delivered'[i] < delivered'[j]
                OBVIOUS
            <4>1. CASE j \in 1..m
                <5>1. i \in 1..m /\ delivered'[i] = delivered[i] /\ delivered'[j] = delivered[j]
                    BY <3>3, <4>1, Numbers
                <5> QED
                    BY <1>0, <4>1, <5>1
            <4>2. CASE j \notin 1..m /\ i \in 1..m
                <5>1. /\ j - m \in 1..Len(queue) /\ delivered'[j] = queue[j - m]
                      /\ delivered'[i] = delivered[i]
                    BY <3>3, <3>4, <4>2
                <5> QED
                    BY <1>0, <4>2, <5>1
            <4>3. CASE j \notin 1..m /\ i \notin 1..m
                <5>1. /\ j - m \in 1..Len(queue) /\ delivered'[j] = queue[j - m]
                      /\ i - m \in 1..Len(queue) /\ delivered'[i] = queue[i - m]
                    BY <3>4, <4>3
                <5>2. i - m < j - m
                    BY Numbers
                <5> QED
                    BY <1>0, <5>1, <5>2
            <4> QED
                BY <4>1, <4>2, <4>3, Numbers
        <3>7. \A i \in 1..Len(delivered'), j \in 1..Len(queue') : delivered'[i] < queue'[j]
            <4> SUFFICES ASSUME NEW i \in 1..Len(delivered'), NEW j \in 1..Len(queue')
                         PROVE  delivered'[i] < queue'[j]
                OBVIOUS
            <4>1. j + n \in 1..Len(queue) /\ queue'[j] = queue[j + n]
                BY <3>3
            <4>2. CASE i \in 1..m
                BY <1>0, <3>3, <4>1, <4>2
            <4>3. CASE i - m \in 1..n /\ i - m \in 1..Len(queue) /\ delivered'[i] = queue[i - m]
                BY <1>0, <3>2, <4>1, <4>3, Numbers
            <4> QED
                BY <3>4, <4>2, <4>3
        <3>8. /\ \A i \in 1..Len(delivered') : delivered'[i] <= received
              /\ \A i \in 1..Len(queue') : queue'[i] <= received
            BY <1>0, <3>3, <3>4
        <3>9. receive[session] = "push" =>
                  /\ \A i \in 1..Len(delivered') : delivered'[i] < received
                  /\ \A i \in 1..Len(queue') : queue'[i] < received
            BY <1>0, <3>3, <3>4
        <3> QED
            BY <2>1, <3>5, <3>6, <3>7, <3>8, <3>9
    <2> QED
        BY <1>7, <2>2, <2>3 DEF ReaderPops
<1>8. CASE Quiet
    BY <1>0, <1>8, QuietLeavesPath DEF pathVars
<1>9. CASE UNCHANGED vars
    BY <1>0, <1>9 DEF vars, sessionVars, queueVars
<1> QED
    BY <1>1, <1>2, <1>3, <1>4, <1>5, <1>6, <1>7, <1>8, <1>9, NextCases

(* A pop moves what it takes from the queue to what was delivered. *)
LEMMA PopMoves ==
    ASSUME DataPathInv, NEW r \in Readers, ReaderPops(r), NEW p \in 1..received
    PROVE  Holds(queue, p)' + Holds(delivered, p)' = Holds(queue, p) + Holds(delivered, p)
<1>1. CASE UNCHANGED <<queue, delivered>>
    BY <1>1 DEF Holds
<1>2. CASE \E n \in {1, Len(queue)} : /\ queue # <<>>
                                      /\ delivered' = delivered \o SubSeq(queue, 1, n)
                                      /\ queue' = SubSeq(queue, n + 1, Len(queue))
    <2>1. PICK n \in {1, Len(queue)} : /\ queue # <<>>
                                       /\ delivered' = delivered \o SubSeq(queue, 1, n)
                                       /\ queue' = SubSeq(queue, n + 1, Len(queue))
        BY <1>2
    <2>2. n \in 1..Len(queue)
        BY <2>1, Numbers, EmptySeq DEF DataPathInv, TypeOK
    <2>3. /\ Len(queue') = Len(queue) - n
          /\ \A i \in 1..Len(queue') : i + n \in 1..Len(queue) /\ queue'[i] = queue[i + n]
          /\ Len(delivered') = Len(delivered) + n
          /\ \A i \in 1..Len(delivered) : delivered'[i] = delivered[i]
          /\ \A i \in 1..n : delivered'[Len(delivered) + i] = queue[i]
        BY <2>1, <2>2, Popped DEF DataPathInv
    <2> DEFINE In(q) == \E i \in 1..Len(q) : q[i] = p
               m == Len(delivered)
    <2>4. \A i \in 1..Len(delivered') :
              \/ i \in 1..m /\ delivered'[i] = delivered[i]
              \/ i - m \in 1..Len(queue) /\ delivered'[i] = queue[i - m]
        <3> SUFFICES ASSUME NEW i \in 1..Len(delivered'), i \notin 1..m
                     PROVE  i - m \in 1..Len(queue) /\ delivered'[i] = queue[i - m]
            BY <2>3
        <3>1. i - m \in 1..n /\ i - m \in 1..Len(queue) /\ m + (i - m) = i
            BY <2>2, <2>3, Numbers
        <3> QED
            BY <2>3, <3>1
    <2>5. In(queue') \/ In(delivered') => In(queue) \/ In(delivered)
        BY <2>3, <2>4
    <2>6. In(delivered) => In(delivered')
        <3> SUFFICES ASSUME NEW i \in 1..m, delivered[i] = p PROVE In(delivered')
            OBVIOUS
        <3>1. i \in 1..Len(delivered') /\ delivered'[i] = p
            BY <2>2, <2>3, Numbers
        <3> QED
            BY <3>1
    <2>7. In(queue) => In(queue') \/ In(delivered')
        <3> SUFFICES ASSUME NEW i \in 1..Len(queue), queue[i] = p
                     PROVE  In(queue') \/ In(delivered')
            OBVIOUS
        <3>1. CASE i <= n
            <4>1. m + i \in 1..Len(delivered') /\ delivered'[m + i] = p
                BY <2>2, <2>3, <3>1, Numbers
            <4> QED
                BY <4>1
        <3>2. CASE i > n
            <4>1. i - n \in 1..Len(queue') /\ (i - n) + n = i
                BY <2>2, <2>3, <3>2, Numbers
            <4>2. queue'[i - n] = p
                BY <2>3, <4>1
            <4> QED
                BY <4>1, <4>2
        <3> QED
            BY <2>2, <3>1, <3>2, Numbers
    <2>8. ~(In(queue) /\ In(delivered))
        <3> SUFFICES ASSUME NEW i \in 1..Len(queue), NEW j \in 1..Len(delivered),
                            queue[i] = p, delivered[j] = p
                     PROVE  FALSE
            OBVIOUS
        <3>1. delivered[j] < queue[i]
            BY DEF DataPathInv, OrderInv
        <3> QED
            BY <3>1, Numbers
    <2>9. ~(In(queue') /\ In(delivered'))
        <3> SUFFICES ASSUME NEW i \in 1..Len(queue'), NEW j \in 1..Len(delivered'),
                            queue'[i] = p, delivered'[j] = p
                     PROVE  FALSE
            OBVIOUS
        <3>1. OrderInv'
            BY OrderPreserved DEF Next, ReaderStep
        <3>2. delivered'[j] < queue'[i]
            BY <3>1 DEF OrderInv
        <3> QED
            BY <3>2, Numbers
    <2>10. /\ Holds(queue, p) = IF In(queue) THEN 1 ELSE 0
           /\ Holds(delivered, p) = IF In(delivered) THEN 1 ELSE 0
           /\ Holds(queue, p)' = IF In(queue') THEN 1 ELSE 0
           /\ Holds(delivered, p)' = IF In(delivered') THEN 1 ELSE 0
        BY DEF Holds
    <2> HIDE DEF In
    <2> QED
        BY <2>5, <2>6, <2>7, <2>8, <2>9, <2>10
<1> QED
    BY <1>1, <1>2 DEF ReaderPops

LEMMA Counts ==
    ASSUME DataPathInv, NEW p \in 1..received
    PROVE  /\ p \in Packets /\ p \in Nat /\ released[p] \in Nat
           /\ Held(p) \in Nat /\ Holds(queue, p) \in Nat /\ Holds(delivered, p) \in Nat
<1>1. p \in Packets /\ p \in Nat
    BY Numbers DEF Packets
<1>2. released[p] \in Nat
    BY <1>1 DEF DataPathInv, TypeOK
<1> QED
    BY <1>1, <1>2 DEF Held, Holds

(* Every step hands a packet from one owner to another, or leaves it. *)
LEMMA OwnersPreserved == DataPathInv /\ [Next]_vars => OwnerInv'
<1> SUFFICES ASSUME DataPathInv, [Next]_vars PROVE OwnerInv'
    OBVIOUS
<1>0. /\ OwnerInv /\ TypeOK /\ OrderInv /\ GoroutineInv
      /\ released \in [Packets -> 0..2] /\ Packets = 1..LastPacket
      /\ receive \in [Sessions -> {"off", "read", "push", "ended"}]
    BY DEF DataPathInv, TypeOK, Packets
<1>1. ASSUME NEW s \in Sessions, ReadPacket(s) PROVE OwnerInv'
    <2>1. /\ received' = received + 1 /\ received < LastPacket
          /\ receive' = [receive EXCEPT ![s] = "push"] /\ receive[s] = "read"
          /\ UNCHANGED <<queue, delivered, released, session>>
        BY <1>1 DEF ReadPacket, queueVars
    <2>2. s = session
        BY <1>0, <2>1, DataPathAssumption DEF GoroutineInv, DataPathInv, TypeOK, Sessions
    <2>3. \A p \in 1..received : Held(p) = 0 /\ Held(p)' = 0
        BY <1>0, <2>1, <2>2, Numbers DEF Held
    <2>4. PICK q \in Nat : q = received + 1
        BY Numbers
    <2>5. /\ Held(q)' = 1 /\ released[q] = 0
          /\ Holds(queue, q) = 0 /\ Holds(delivered, q) = 0
        <3>1. Held(q)' = 1
            BY <1>0, <2>1, <2>2, <2>4 DEF Held
        <3>2. /\ \A i \in 1..Len(queue) : queue[i] # q
              /\ \A i \in 1..Len(delivered) : delivered[i] # q
            BY <1>0, <2>4, Numbers DEF OrderInv
        <3>3. q \in Packets /\ q > received
            BY <1>0, <2>1, <2>4, Numbers
        <3> QED
            BY <1>0, <3>1, <3>2, <3>3 DEF Holds, OwnerInv
    <2>6. \A p \in 1..received' : p \in 1..received \/ p = q
        BY <2>1, <2>4, Numbers
    <2>7. \A p : Holds(queue, p)' = Holds(queue, p) /\ Holds(delivered, p)' = Holds(delivered, p)
        BY <2>1 DEF Holds
    <2>8. \A p \in 1..received' :
              Held(p)' + Holds(queue, p)' + Holds(delivered, p)' + released'[p] = 1
        <3> SUFFICES ASSUME NEW p \in 1..received'
                     PROVE  Held(p)' + Holds(queue, p)' + Holds(delivered, p)' + released'[p] = 1
            OBVIOUS
        <3>1. CASE p \in 1..received
            BY <1>0, <2>1, <2>3, <2>7, <3>1 DEF OwnerInv
        <3>2. CASE p = q
            BY <2>1, <2>7, <2>5, <3>2
        <3> QED
            BY <2>6, <3>1, <3>2
    <2>9. \A p \in Packets : p > received' => released'[p] = 0
        BY <1>0, <2>1, Numbers DEF OwnerInv
    <2> QED
        BY <2>8, <2>9 DEF OwnerInv
<1>2. ASSUME NEW s \in Sessions, GiveUpPacket(s) PROVE OwnerInv'
    <2>1. /\ s = session /\ receive[session] = "push" /\ received \in Packets
          /\ receive' = [receive EXCEPT ![session] = "read"] /\ released[received] = 0
          /\ released' = [released EXCEPT ![received] = @ + 1]
          /\ UNCHANGED <<queue, delivered, received, session>>
        BY <1>2, NotReleased DEF GiveUpPacket, ReleaseRefused, queueVars
    <2>2. \A p \in 1..received : Held(p)' = 0 /\ Held(p) = IF p = received THEN 1 ELSE 0
        BY <1>0, <2>1, Numbers DEF Held
    <2>3. \A p : Holds(queue, p)' = Holds(queue, p) /\ Holds(delivered, p)' = Holds(delivered, p)
        BY <2>1 DEF Holds
    <2>4. \A p \in 1..received : released'[p] = released[p] + Held(p)
        <3> SUFFICES ASSUME NEW p \in 1..received PROVE released'[p] = released[p] + Held(p)
            OBVIOUS
        <3>1. p \in Packets /\ released[p] \in Nat
            BY Counts
        <3>2. released'[p] = IF p = received THEN released[p] + 1 ELSE released[p]
            BY <1>0, <2>1, <3>1
        <3> QED
            BY <2>2, <3>1, <3>2
    <2>5. \A p \in 1..received' :
              Held(p)' + Holds(queue, p)' + Holds(delivered, p)' + released'[p] = 1
        <3> SUFFICES ASSUME NEW p \in 1..received
                     PROVE  Held(p)' + Holds(queue, p)' + Holds(delivered, p)' + released'[p] = 1
            BY <2>1
        <3>1. Held(p) + Holds(queue, p) + Holds(delivered, p) + released[p] = 1
            BY <1>0 DEF OwnerInv
        <3>2. /\ Held(p)' = 0 /\ Holds(queue, p)' = Holds(queue, p)
              /\ Holds(delivered, p)' = Holds(delivered, p)
              /\ released'[p] = released[p] + Held(p)
            BY <2>2, <2>3, <2>4
        <3> QED
            BY <3>1, <3>2, Counts
    <2>6. \A p \in Packets : p > received' => released'[p] = 0
        BY <1>0, <2>1, Numbers DEF OwnerInv
    <2> QED
        BY <2>5, <2>6 DEF OwnerInv
<1>3. ASSUME NEW s \in Sessions, PushPacket(s) PROVE OwnerInv'
    <2>1. /\ s = session /\ receive[session] = "push" /\ received \in Packets
          /\ receive' = [receive EXCEPT ![session] = "read"]
          /\ queue' = Append(queue, received)
          /\ UNCHANGED <<delivered, received, session, released>>
        BY <1>3, NotReleased DEF PushPacket
    <2>2. \A p \in 1..received : Held(p)' = 0 /\ Held(p) = IF p = received THEN 1 ELSE 0
        BY <1>0, <2>1, Numbers DEF Held
    <2>3. /\ Len(queue') = Len(queue) + 1 /\ queue'[Len(queue) + 1] = received
          /\ \A i \in 1..Len(queue) : queue'[i] = queue[i]
        BY <1>0, <2>1, Pushed
    <2>4. Holds(queue, received) = 0 /\ Holds(queue, received)' = 1
        BY <1>0, <2>1, <2>3, Numbers DEF Holds, OrderInv
    <2>5. ASSUME NEW p \in 1..received, p # received
          PROVE  Holds(queue, p)' = Holds(queue, p)
        <3>1. (\E i \in 1..Len(queue') : queue'[i] = p) <=> \E i \in 1..Len(queue) : queue[i] = p
            <4>1. ASSUME NEW i \in 1..Len(queue'), queue'[i] = p
                  PROVE  \E j \in 1..Len(queue) : queue[j] = p
                <5>1. i \in 1..Len(queue)
                    BY <2>3, <2>5, <4>1, Numbers
                <5> QED
                    BY <2>3, <4>1, <5>1
            <4>2. ASSUME NEW i \in 1..Len(queue), queue[i] = p
                  PROVE  \E j \in 1..Len(queue') : queue'[j] = p
                <5>1. i \in 1..Len(queue') /\ queue'[i] = p
                    BY <2>3, <4>2, Numbers
                <5> QED
                    BY <5>1
            <4> QED
                BY <4>1, <4>2
        <3> QED
            BY <3>1 DEF Holds
    <2>6. \A p : Holds(delivered, p)' = Holds(delivered, p)
        BY <2>1 DEF Holds
    <2>7. \A p \in 1..received :
              Held(p)' + Holds(queue, p)' + Holds(delivered, p)' + released'[p] = 1
        BY <1>0, <2>1, <2>2, <2>4, <2>5, <2>6 DEF OwnerInv
    <2> QED
        BY <1>0, <2>1, <2>7 DEF OwnerInv
<1>4. ASSUME NEW s \in Sessions, ReceiveEnds(s) PROVE OwnerInv'
    <2>1. /\ receive' = [receive EXCEPT ![s] = "ended"] /\ receive[s] = "read"
          /\ UNCHANGED <<queue, delivered, session, received, released>>
        BY <1>4 DEF ReceiveEnds, queueVars
    <2>2. receive'[session'] = "push" <=> receive[session] = "push"
        BY <1>0, <2>1, Numbers
    <2> QED
        BY <1>0, <2>1, <2>2 DEF OwnerInv, Held, Holds
<1>5. CASE NextSession
    <2>1. /\ receive' = [receive EXCEPT ![session'] = "read"] /\ session' \in Sessions
          /\ receive[session] = "ended"
          /\ UNCHANGED <<queue, delivered, received, released>>
        BY <1>5, DataPathAssumption
        DEF NextSession, Awaited, queueVars, DataPathInv, TypeOK, Sessions
    <2>2. receive'[session'] = "read"
        BY <1>0, <2>1
    <2> QED
        BY <1>0, <2>1, <2>2 DEF OwnerInv, Held, Holds
<1>6. CASE CloseDrains
    <2>1. /\ Len(queue') = 0 /\ UNCHANGED <<delivered, session, received, receive>>
          /\ released' = [p \in Packets |-> IF p \in Range(queue) THEN released[p] + 1
                                                                  ELSE released[p]]
        BY <1>6, EmptySeq DEF CloseDrains, Drain, sessionVars
    <2>2. \A p \in Packets : released'[p] = released[p] + Holds(queue, p)
        <3>1. \A p : p \in Range(queue) <=> \E i \in 1..Len(queue) : queue[i] = p
            BY <1>0 DEF Range, TypeOK
        <3> QED
            BY <1>0, <2>1, <3>1 DEF Holds
    <2>3. \A p : Holds(queue, p)' = 0 /\ Holds(delivered, p)' = Holds(delivered, p)
                     /\ Held(p)' = Held(p)
        BY <2>1 DEF Holds, Held
    <2>4. \A p : Holds(queue, p) \in Nat /\ Holds(delivered, p) \in Nat /\ Held(p) \in Nat
        BY DEF Holds, Held
    <2>5. \A p \in 1..received : released[p] \in Nat /\ p \in Packets
        BY <1>0, Numbers
    <2>6. \A p \in 1..received' :
              Held(p)' + Holds(queue, p)' + Holds(delivered, p)' + released'[p] = 1
        BY <1>0, <2>1, <2>2, <2>3, <2>4, <2>5 DEF OwnerInv
    <2>7. \A p \in Packets : p > received' => released'[p] = 0
        <3>1. \A p \in Packets : p > received => Holds(queue, p) = 0
            BY <1>0, Numbers DEF Holds, OrderInv
        <3> QED
            BY <1>0, <2>1, <2>2, <3>1 DEF OwnerInv
    <2> QED
        BY <2>6, <2>7 DEF OwnerInv
<1>7. ASSUME NEW r \in Readers, ReaderPops(r) PROVE OwnerInv'
    <2>1. UNCHANGED <<session, received, receive, released>>
        BY <1>7 DEF ReaderPops, sessionVars
    <2>2. \A p \in 1..received :
              Holds(queue, p)' + Holds(delivered, p)' = Holds(queue, p) + Holds(delivered, p)
        BY <1>7, PopMoves
    <2>3. \A p : Held(p)' = Held(p) /\ Held(p) \in Nat
        BY <2>1 DEF Held
    <2>4. \A p : /\ Holds(queue, p) \in Nat /\ Holds(delivered, p) \in Nat
                 /\ Holds(queue, p)' \in Nat /\ Holds(delivered, p)' \in Nat
        BY DEF Holds
    <2>5. \A p \in 1..received : released[p] \in Nat
        BY Counts
    <2> QED
        BY <1>0, <2>1, <2>2, <2>3, <2>4, <2>5 DEF OwnerInv
<1>8. CASE Quiet
    BY <1>0, <1>8, QuietLeavesPath DEF pathVars, OwnerInv, Held, Holds
<1>9. CASE UNCHANGED vars
    BY <1>0, <1>9 DEF vars, sessionVars, queueVars, OwnerInv, Held, Holds
<1> QED
    BY <1>1, <1>2, <1>3, <1>4, <1>5, <1>6, <1>7, <1>8, <1>9, NextCases

(* In an increasing sequence a packet occurs once or not at all. *)
LEMMA OccursOnce ==
    ASSUME NEW s \in Seq(Packets), Increasing(s), NEW p
    PROVE  Occurrences(p, s) = Holds(s, p)
<1>1. Len(s) \in Nat /\ DOMAIN s = 1..Len(s)
    OBVIOUS
<1>2. CASE \E i \in 1..Len(s) : s[i] = p
    <2>1. PICK i \in 1..Len(s) : s[i] = p
        BY <1>2
    <2>2. ASSUME NEW j \in 1..Len(s), j # i PROVE s[j] # p
        <3>1. s[i] \in Nat /\ s[j] \in Nat
            <4>1. s[i] \in Packets /\ s[j] \in Packets
                BY ElementOfSeq
            <4> QED
                BY <4>1 DEF Packets
        <3>2. s[j] < s[i] \/ s[i] < s[j]
            BY <1>1, <2>2 DEF Increasing
        <3> QED
            BY <2>1, <3>1, <3>2
    <2>3. {j \in DOMAIN s : s[j] = p} = {i}
        BY <1>1, <2>1, <2>2
    <2>4. Cardinality({i}) = 1
        BY FS_Singleton
    <2> QED
        BY <1>2, <2>3, <2>4 DEF Occurrences, Holds
<1>3. CASE ~\E i \in 1..Len(s) : s[i] = p
    <2>1. {j \in DOMAIN s : s[j] = p} = {}
        BY <1>1, <1>3
    <2>2. Cardinality({}) = 0
        BY FS_EmptySet
    <2> QED
        BY <1>3, <2>1, <2>2 DEF Occurrences, Holds
<1> QED
    BY <1>2, <1>3

LEMMA InitDataPath == Init => DataPathInv
<1> SUFFICES ASSUME Init PROVE DataPathInv
    OBVIOUS
<1> USE DataPathAssumption DEF Init, Sessions, Packets
<1>1. Flags
    BY Zenon DEF Flags
<1>2. Values
    BY EmptySeq DEF Values
<1>3. GoroutineInv
    BY DEF GoroutineInv
<1>4. OrderInv
    BY EmptySeq DEF OrderInv, Increasing
<1>5. OwnerInv
    BY DEF OwnerInv
<1> QED
    BY <1>1, <1>2, <1>3, <1>4, <1>5, TypeParts DEF DataPathInv

LEMMA DataPathInductive == DataPathInv /\ [Next]_vars => DataPathInv'
<1> SUFFICES ASSUME DataPathInv, [Next]_vars PROVE DataPathInv'
    OBVIOUS
<1>1. Flags' /\ Values'
    BY FlagsPreserved, ValuesPreserved, TypeParts DEF DataPathInv
<1>2. TypeOK'
    BY <1>1, Zenon DEF TypeOK, Flags, Values
<1> QED
    BY <1>2, GoroutinesPreserved, OrderPreserved, OwnersPreserved DEF DataPathInv

LEMMA DataPathInvariant == Spec => []DataPathInv
BY InitDataPath, DataPathInductive, PTL DEF Spec
-----------------------------------------------------------------------------
(* The client's incoming queue never takes more than its length, and no    *)
(* buffer is released a third time.                                        *)
THEOREM DataPathTypeOK == Spec => []TypeOK
<1>1. DataPathInv => TypeOK
    BY DEF DataPathInv
<1> QED
    BY <1>1, DataPathInvariant, PTL

(* ReadDataPackets hands packets out in the order they arrived, whichever  *)
(* session received them: running.Wait in the session's Close holds back   *)
(* the next session until the old receive goroutine has let go of its own. *)
THEOREM PacketsStayInOrder == Spec => []DeliveredInOrder
<1>1. DataPathInv => DeliveredInOrder
    BY DEF DataPathInv, TypeOK, OrderInv, Increasing, DeliveredInOrder
<1> QED
    BY <1>1, DataPathInvariant, PTL

(* Every packet buffer has one owner, and Client.Close leaves none behind: *)
(* its Drain comes after the last receive goroutine has ended.             *)
THEOREM PacketsHaveOneOwner == Spec => []IncomingOwnedOnce
<1>1. DataPathInv => IncomingOwnedOnce
    <2> SUFFICES ASSUME DataPathInv PROVE IncomingOwnedOnce
        OBVIOUS
    <2>1. /\ \A p : Occurrences(p, queue) = Holds(queue, p)
          /\ \A p : Occurrences(p, delivered) = Holds(delivered, p)
        BY OccursOnce DEF DataPathInv, TypeOK, OrderInv
    <2>2. /\ session \in 1..LastSession /\ LastSession \in Nat /\ Sessions = 1..LastSession
          /\ GoroutineInv /\ OwnerInv
        BY DataPathAssumption DEF DataPathInv, TypeOK, Sessions
    <2>3. ASSUME NEW p \in 1..received
          PROVE  p \in InHand <=> Held(p) = 1
        <3>1. ASSUME p \in InHand PROVE Held(p) = 1
            <4>1. PICK s \in Sessions : hand[s] = p
                BY <3>1 DEF InHand
            <4>2. receive[s] = "push" /\ p = received
                BY <2>2, <4>1, Numbers DEF GoroutineInv
            <4>3. s = session
                BY <2>2, <4>2 DEF GoroutineInv
            <4> QED
                BY <4>2, <4>3 DEF Held
        <3>2. ASSUME Held(p) = 1 PROVE p \in InHand
            <4>1. receive[session] = "push" /\ p = received
                BY <3>2 DEF Held
            <4>2. hand[session] = p
                BY <2>2, <4>1 DEF GoroutineInv
            <4> QED
                BY <2>2, <4>2 DEF InHand
        <3> QED
            BY <3>1, <3>2
    <2>4. \A p \in 1..received :
              (IF p \in InHand THEN 1 ELSE 0) + Occurrences(p, queue)
                  + Occurrences(p, delivered) + released[p] = 1
        <3>1. \A p : Held(p) \in {0, 1}
            BY DEF Held
        <3>2. \A p \in 1..received : (IF p \in InHand THEN 1 ELSE 0) = Held(p)
            BY <2>3, <3>1
        <3> QED
            BY <2>1, <2>2, <3>2 DEF OwnerInv
    <2>5. ASSUME closing = "done" PROVE queue = <<>> /\ InHand = {0}
        <3>1. \A s \in Sessions : receive[s] \in {"ended", "off"}
            BY <2>2, <2>5 DEF GoroutineInv
        <3>2. \A s \in Sessions : hand[s] = 0
            BY <2>2, <3>1 DEF GoroutineInv
        <3>3. InHand = {0}
            BY <2>2, <3>2 DEF InHand
        <3> QED
            BY <2>2, <2>5, <3>3 DEF GoroutineInv
    <2> QED
        BY <2>4, <2>5 DEF IncomingOwnedOnce
<1> QED
    BY <1>1, DataPathInvariant, PTL
===============================================================================
