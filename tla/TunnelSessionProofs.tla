------------------------- MODULE TunnelSessionProofs -------------------------
(***************************************************************************)
(* For every set of packets and every length of the outgoing queue, with   *)
(* or without a probe: every packet buffer handed to a session has one     *)
(* owner and a closed session keeps none, however Start, Close, the        *)
(* writer, the probe and the callers interleave; and the session is what   *)
(* ClientSession, and with it the client, takes it for.                    *)
(* The last part is about connectTunnel, which makes the session.          *)
(***************************************************************************)
EXTENDS TunnelSession, ConnectTunnel, FiniteSetTheorems, SequenceTheorems, TLAPS

(* Where the writer has a batch, and where it writes it. *)
Batching == {"popped", "write", "lock", "sending"}
Writing  == {"write", "lock", "sending"}
QueueShut == {"channels", "wait", "drain", "done"}

(* The writer is launched once, has a batch only between its pop and the   *)
(* end of its write, and does not write what it pops from a closed queue:  *)
(* so a writer that comes after Close has waited writes nothing.           *)
WriterInv ==
    /\ startStep <= 2 => pc["writer"] = "off"
    /\ pc["writer"] \notin Batching => batch = <<>>
    /\ body \in QueueShut => closed
    /\ body \in {"drain", "done"} => pc["writer"] \notin Writing
    /\ body = "done" => outgoing = <<>>

Distinct(s) == \A i, j \in 1..Len(s) : s[i] = s[j] => i = j
Holds(s, p) == IF \E i \in 1..Len(s) : s[i] = p THEN 1 ELSE 0
Fresh(p) == IF p \in fresh THEN 1 ELSE 0

(* The owner of each buffer, counted with sets. *)
OwnerInv ==
    /\ Distinct(outgoing) /\ Distinct(batch)
    /\ \A p \in Packets : Fresh(p) + Holds(outgoing, p) + Holds(batch, p) + released[p] = 1

SessionInv == TypeOK /\ WriterInv /\ OwnerInv
-----------------------------------------------------------------------------
(* What Enqueue is called with. *)
Handed == {s \in Seq(Packets) : Distinct(s)}

LEMMA NextCases ==
    ASSUME [Next]_vars
    PROVE  \/ StartContext \/ Abandon \/ StartReady \/ Launch
           \/ \E why \in {"suspended", "restart", "event"} : FailFromOutside(why)
           \/ ContextDone \/ IncomingCloses \/ CloseBegins
           \/ CloseStops \/ CloseQueue \/ CloseChannels \/ CloseWaits \/ CloseDrains
           \/ \E packets \in Handed : Enqueue(packets)
           \/ WriterPops \/ WriterFoundNothing \/ WriterChecksClosed \/ WriterDrains
           \/ \E g \in Writers : WriteChecksReady(g) \/ WriteFilters(g) \/ WriteEnds(g)
           \/ \E g \in Goroutines : EndsByFailing(g)
           \/ CommandEOF \/ ReceivePacket \/ PushEnds \/ ProbeFires
           \/ UNCHANGED vars
<1>1. ASSUME NEW p \in Packets, Enqueue(<<p>>)
      PROVE  \E packets \in Handed : Enqueue(packets)
    <2>1. <<p>> \in Handed
        BY DEF Handed, Distinct
    <2> QED
        BY <1>1, <2>1
<1>2. ASSUME NEW p \in Packets, NEW q \in Packets \ {p}, Enqueue(<<p, q>>)
      PROVE  \E packets \in Handed : Enqueue(packets)
    <2>1. <<p, q>> \in Handed
        BY DEF Handed, Distinct
    <2> QED
        BY <1>2, <2>1
<1>3. CASE Next
    BY <1>1, <1>2, <1>3, Zenon DEF Next, StartStep, CloseStep, WriterStep, WriteStep
<1> QED
    BY <1>3

LEMMA HandedSeq ==
    ASSUME NEW packets \in Handed
    PROVE  packets \in Seq(Packets) /\ Distinct(packets)
BY DEF Handed

LEMMA Nothing == <<>> \in Seq(Packets) /\ Len(<<>>) = 0
OBVIOUS

(* A sequence cut in two. *)
LEMMA Cut ==
    ASSUME NEW S, NEW s \in Seq(S), NEW n \in 0..Len(s)
    PROVE  /\ SubSeq(s, 1, n) \in Seq(S) /\ Len(SubSeq(s, 1, n)) = n
           /\ \A i \in 1..n : SubSeq(s, 1, n)[i] = s[i]
           /\ SubSeq(s, n + 1, Len(s)) \in Seq(S)
           /\ Len(SubSeq(s, n + 1, Len(s))) = Len(s) - n
           /\ \A i \in 1..(Len(s) - n) : SubSeq(s, n + 1, Len(s))[i] = s[n + i]
OBVIOUS

LEMMA Join ==
    ASSUME NEW S, NEW s \in Seq(S), NEW t \in Seq(S)
    PROVE  /\ s \o t \in Seq(S) /\ Len(s \o t) = Len(s) + Len(t)
           /\ \A i \in 1..Len(s) : (s \o t)[i] = s[i]
           /\ \A i \in 1..Len(t) : (s \o t)[Len(s) + i] = t[i]
OBVIOUS

(* TypeOK in two parts: the flags, and everything else. *)
Flags ==
    /\ ready \in BOOLEAN /\ cancelled \in BOOLEAN /\ channelsClosed \in BOOLEAN
    /\ closed \in BOOLEAN /\ incomingOpen \in BOOLEAN

Values ==
    /\ failure \in {"none", "closed", "suspended", "restart", "event", "lost"}
    /\ startStep \in Abandoned..LastStart
    /\ body \in CloseSteps
    /\ outgoing \in Seq(Packets) /\ Len(outgoing) <= QueueLength
    /\ pc \in [Goroutines -> Labels]
    /\ batch \in Seq(Packets)
    /\ writeAccess \in {"none", "writer", "probe"}
    /\ fresh \in SUBSET Packets
    /\ released \in [Packets -> 0..2]
    /\ dropped \in Nat

LEMMA TypeParts == TypeOK <=> Flags /\ Values
BY Zenon DEF TypeOK, Flags, Values

LEMMA FlagsPreserved == Flags /\ [Next]_vars => Flags'
<1> SUFFICES ASSUME Flags, [Next]_vars PROVE Flags'
    OBVIOUS
<1> USE DEF Flags, sessionState, queueVars, bufferVars
<1>1. CASE StartContext
    BY <1>1, Zenon DEF StartContext
<1>2. CASE Abandon
    BY <1>2, Zenon DEF Abandon
<1>3. CASE StartReady
    BY <1>3, Zenon DEF StartReady
<1>4. CASE Launch
    BY <1>4, Zenon DEF Launch
<1>5. CASE ContextDone
    BY <1>5, Zenon DEF ContextDone
<1>6. CASE IncomingCloses
    BY <1>6, Zenon DEF IncomingCloses
<1>7. CASE CloseBegins
    BY <1>7, Zenon DEF CloseBegins
<1>8. CASE CloseStops
    BY <1>8, Zenon DEF CloseStops
<1>9. CASE CloseQueue
    BY <1>9, Zenon DEF CloseQueue
<1>10. CASE CloseChannels
    BY <1>10, Zenon DEF CloseChannels
<1>11. CASE CloseWaits
    BY <1>11, Zenon DEF CloseWaits
<1>12. CASE CloseDrains
    BY <1>12, Zenon DEF CloseDrains
<1>13. CASE WriterPops
    BY <1>13, Zenon DEF WriterPops
<1>14. CASE WriterFoundNothing
    BY <1>14, Zenon DEF WriterFoundNothing
<1>15. CASE WriterChecksClosed
    BY <1>15, Zenon DEF WriterChecksClosed
<1>16. CASE WriterDrains
    BY <1>16, Zenon DEF WriterDrains
<1>17. CASE CommandEOF
    BY <1>17, Zenon DEF CommandEOF
<1>18. CASE ReceivePacket
    BY <1>18, Zenon DEF ReceivePacket
<1>19. CASE PushEnds
    BY <1>19, Zenon DEF PushEnds
<1>20. CASE ProbeFires
    BY <1>20, Zenon DEF ProbeFires
<1>21. ASSUME NEW why \in {"suspended", "restart", "event"}, FailFromOutside(why)
      PROVE  Flags'
    BY <1>21, Zenon DEF FailFromOutside, Fail
<1>22. ASSUME NEW packets \in Handed, Enqueue(packets) PROVE Flags'
    BY <1>22, Zenon DEF Enqueue
<1>23. ASSUME NEW g \in Writers, WriteChecksReady(g) PROVE Flags'
    BY <1>23, Zenon DEF WriteChecksReady, Fail
<1>24. ASSUME NEW g \in Writers, WriteFilters(g) PROVE Flags'
    BY <1>24, Zenon DEF WriteFilters
<1>25. ASSUME NEW g \in Writers, WriteEnds(g) PROVE Flags'
    BY <1>25, Zenon DEF WriteEnds, Fail
<1>26. ASSUME NEW g \in Goroutines, EndsByFailing(g) PROVE Flags'
    BY <1>26, Zenon DEF EndsByFailing, Fail
<1>27. CASE UNCHANGED vars
    BY <1>27, Zenon DEF vars
<1> QED
    BY <1>1, <1>2, <1>3, <1>4, <1>5, <1>6, <1>7, <1>8, <1>9, <1>10, <1>11, <1>12, <1>13,
       <1>14, <1>15, <1>16, <1>17, <1>18, <1>19, <1>20, <1>21, <1>22, <1>23, <1>24, <1>25,
       <1>26, <1>27, NextCases

LEMMA ReleaseTyped ==
    ASSUME released \in [Packets -> 0..2], NEW buffers, Release(buffers)
    PROVE  released' \in [Packets -> 0..2]
BY DEF Release

LEMMA GotoTyped ==
    ASSUME pc \in [Goroutines -> Labels], NEW g, NEW label \in Labels, Goto(g, label)
    PROVE  pc' \in [Goroutines -> Labels]
BY DEF Goto

LEMMA WriteReturnsTyped ==
    ASSUME Values, NEW g \in Writers, NEW failed \in BOOLEAN, WriteReturns(g, failed)
    PROVE  /\ pc' \in [Goroutines -> Labels]
           /\ batch' \in Seq(Packets)
           /\ released' \in [Packets -> 0..2]
<1>1. pc' \in [Goroutines -> Labels]
    BY DEF WriteReturns, Goto, Labels, Values
<1>2. batch' \in Seq(Packets)
    BY DEF WriteReturns, Values
<1>3. released' \in [Packets -> 0..2]
    BY ReleaseTyped DEF WriteReturns, Values
<1> QED
    BY <1>1, <1>2, <1>3

(* What Enqueue gives to the queue and what it releases. *)
LEMMA EnqueueParts ==
    ASSUME Values, NEW packets \in Handed, Enqueue(packets)
    PROVE  \E n \in 0..Len(packets) :
              /\ n <= Room
              /\ outgoing' = outgoing \o SubSeq(packets, 1, n)
              /\ dropOutboundDataPackets(SubSeq(packets, n + 1, Len(packets)))
              /\ Range(packets) \subseteq fresh
              /\ fresh' = fresh \ Range(packets)
<1>1. packets \in Seq(Packets) /\ Len(packets) \in Nat
    BY HandedSeq
<1>2. Room \in Nat
    BY SessionAssumption DEF Room, Values
<1> DEFINE n == IF Len(packets) <= Room THEN Len(packets) ELSE Room
<1>3. n \in 0..Len(packets) /\ n <= Room
    BY <1>1, <1>2
<1>4. /\ outgoing' = outgoing \o SubSeq(packets, 1, n)
      /\ dropOutboundDataPackets(SubSeq(packets, n + 1, Len(packets)))
      /\ Range(packets) \subseteq fresh
      /\ fresh' = fresh \ Range(packets)
    BY DEF Enqueue
<1> HIDE DEF n
<1> QED
    BY <1>3, <1>4

LEMMA ValuesPreserved == Values /\ [Next]_vars => Values'
<1> SUFFICES ASSUME Values, [Next]_vars PROVE Values'
    OBVIOUS
<1> USE DEF Values, sessionState, queueVars, bufferVars
<1>1. CASE StartContext
    BY <1>1 DEF StartContext, Abandoned, LastStart
<1>2. CASE Abandon
    BY <1>2 DEF Abandon, Abandoned, LastStart
<1>3. CASE StartReady
    BY <1>3 DEF StartReady, Abandoned, LastStart
<1>4. CASE Launch
    <2>1. startStep \in 2..6 /\ startStep' \in Abandoned..LastStart
        BY <1>4 DEF Launch, LastStart, Abandoned
    <2>2. Launches[startStep - 1] \in Goroutines
        BY <2>1 DEF Launches, Goroutines
    <2>3. pc' \in [Goroutines -> Labels]
        BY <1>4, <2>2 DEF Launch, Goto, Labels
    <2> QED
        BY <1>4, <2>1, <2>3 DEF Launch
<1>5. CASE ContextDone
    BY <1>5 DEF ContextDone
<1>6. CASE IncomingCloses
    BY <1>6 DEF IncomingCloses
<1>7. CASE CloseBegins
    BY <1>7 DEF CloseBegins, CloseSteps
<1>8. CASE CloseStops
    BY <1>8 DEF CloseStops, CloseSteps
<1>9. CASE CloseQueue
    BY <1>9 DEF CloseQueue, CloseSteps
<1>10. CASE CloseChannels
    BY <1>10 DEF CloseChannels, CloseSteps
<1>11. CASE CloseWaits
    BY <1>11 DEF CloseWaits, CloseSteps
<1>12. CASE CloseDrains
    <2>1. released' \in [Packets -> 0..2]
        BY <1>12, ReleaseTyped DEF CloseDrains
    <2> QED
        BY <1>12, <2>1, SessionAssumption DEF CloseDrains, CloseSteps
<1>13. CASE WriterPops
    <2>1. pc' \in [Goroutines -> Labels]
        BY <1>13 DEF WriterPops, Goto, Labels
    <2>2. outgoing' = <<>> /\ batch' = outgoing
        BY <1>13 DEF WriterPops
    <2>3. outgoing' \in Seq(Packets) /\ Len(outgoing') <= QueueLength
        BY <2>2, Nothing, SessionAssumption
    <2> QED
        BY <1>13, <2>1, <2>2, <2>3 DEF WriterPops
<1>14. CASE WriterFoundNothing
    BY <1>14 DEF WriterFoundNothing, Goto, Labels
<1>15. CASE WriterChecksClosed
    <2>1. released' \in [Packets -> 0..2]
        BY <1>15, ReleaseTyped DEF WriterChecksClosed, dropOutboundDataPackets
    <2>3. dropped' \in Nat /\ batch' \in Seq(Packets)
        <3>1. CASE closed
            <4>1. dropped' = dropped + Len(batch) /\ batch' = <<>>
                BY <1>15, <3>1 DEF WriterChecksClosed, dropOutboundDataPackets
            <4> QED
                BY <4>1, Nothing
        <3>2. CASE ~closed
            BY <1>15, <3>2 DEF WriterChecksClosed
        <3> QED
            BY <3>1, <3>2
    <2>2. pc' \in [Goroutines -> Labels]
        BY <1>15 DEF WriterChecksClosed, Goto, Labels
    <2> QED
        BY <1>15, <2>1, <2>2, <2>3 DEF WriterChecksClosed
<1>16. CASE WriterDrains
    <2>1. released' \in [Packets -> 0..2]
        BY <1>16, ReleaseTyped DEF WriterDrains
    <2>2. pc' \in [Goroutines -> Labels]
        BY <1>16 DEF WriterDrains, Goto, Labels
    <2>3. outgoing' \in Seq(Packets) /\ Len(outgoing') <= QueueLength
        BY <1>16, Nothing, SessionAssumption DEF WriterDrains
    <2> QED
        BY <1>16, <2>1, <2>2, <2>3 DEF WriterDrains
<1>17. CASE CommandEOF
    BY <1>17 DEF CommandEOF, Goto, Labels
<1>18. CASE ReceivePacket
    BY <1>18 DEF ReceivePacket, Goto, Labels
<1>19. CASE PushEnds
    BY <1>19 DEF PushEnds, Goto, Labels
<1>20. CASE ProbeFires
    BY <1>20 DEF ProbeFires, Goto, Labels
<1>21. ASSUME NEW why \in {"suspended", "restart", "event"}, FailFromOutside(why)
      PROVE  Values'
    BY <1>21 DEF FailFromOutside, Fail
<1>22. ASSUME NEW packets \in Handed, Enqueue(packets) PROVE Values'
    <2>1. packets \in Seq(Packets)
        BY HandedSeq
    <2>2. PICK n \in 0..Len(packets) :
              /\ n <= Room
              /\ outgoing' = outgoing \o SubSeq(packets, 1, n)
              /\ dropOutboundDataPackets(SubSeq(packets, n + 1, Len(packets)))
              /\ Range(packets) \subseteq fresh
              /\ fresh' = fresh \ Range(packets)
        BY <1>22, EnqueueParts DEF Values
    <2>3. /\ SubSeq(packets, 1, n) \in Seq(Packets) /\ Len(SubSeq(packets, 1, n)) = n
          /\ SubSeq(packets, n + 1, Len(packets)) \in Seq(Packets)
        BY <2>1, Cut
    <2>4. outgoing' \in Seq(Packets) /\ Len(outgoing') = Len(outgoing) + n
        BY <2>2, <2>3, Join
    <2>5. Len(outgoing') <= QueueLength
        BY <2>2, <2>4, SessionAssumption DEF Room
    <2>6. released' \in [Packets -> 0..2]
        BY <2>2, ReleaseTyped DEF dropOutboundDataPackets
    <2>7. dropped' \in Nat
        BY <2>2, <2>3 DEF dropOutboundDataPackets
    <2> QED
        BY <1>22, <2>2, <2>4, <2>5, <2>6, <2>7 DEF Enqueue
<1>23. ASSUME NEW g \in Writers, WriteChecksReady(g) PROVE Values'
    <2>1. CASE ready
        BY <1>23, <2>1 DEF WriteChecksReady, Goto, Labels
    <2>2. CASE ~ready
        <3>1. WriteReturns(g, TRUE)
            BY <1>23, <2>2 DEF WriteChecksReady
        <3>2. /\ pc' \in [Goroutines -> Labels] /\ batch' \in Seq(Packets)
              /\ released' \in [Packets -> 0..2]
            BY <3>1, WriteReturnsTyped DEF Values
        <3> QED
            BY <1>23, <2>2, <3>2 DEF WriteChecksReady, Fail
    <2> QED
        BY <2>1, <2>2
<1>24. ASSUME NEW g \in Writers, WriteFilters(g) PROVE Values'
    <2>1. Len(Buffers(g)) \in Nat
        BY DEF Buffers
    <2>2. PICK filtered \in 0..Len(Buffers(g)) :
              /\ dropped' = dropped + filtered
              /\ IF filtered > 0 /\ filtered = Len(Buffers(g))
                 THEN WriteReturns(g, FALSE) /\ UNCHANGED writeAccess
                 ELSE writeAccess' = g /\ Goto(g, "sending") /\ UNCHANGED <<released, batch>>
        BY <1>24 DEF WriteFilters
    <2>3. /\ outgoing' = outgoing /\ fresh' = fresh /\ failure' = failure /\ body' = body
          /\ startStep' = startStep /\ dropped' \in Nat
        BY <1>24, <2>1, <2>2 DEF WriteFilters
    <2>4. CASE WriteReturns(g, FALSE) /\ UNCHANGED writeAccess
        <3>1. /\ pc' \in [Goroutines -> Labels] /\ batch' \in Seq(Packets)
              /\ released' \in [Packets -> 0..2]
            BY <2>4, WriteReturnsTyped DEF Values
        <3> QED
            BY <2>3, <2>4, <3>1
    <2>5. CASE writeAccess' = g /\ Goto(g, "sending") /\ UNCHANGED <<released, batch>>
        BY <2>3, <2>5 DEF Writers, Goto, Labels
    <2> QED
        BY <2>2, <2>4, <2>5
<1>25. ASSUME NEW g \in Writers, WriteEnds(g) PROVE Values'
    <2>1. PICK failed \in BOOLEAN : WriteReturns(g, failed)
        BY <1>25 DEF WriteEnds
    <2>2. /\ pc' \in [Goroutines -> Labels] /\ batch' \in Seq(Packets)
          /\ released' \in [Packets -> 0..2]
        BY <2>1, WriteReturnsTyped DEF Values
    <2> QED
        BY <1>25, <2>2 DEF WriteEnds, Fail
<1>26. ASSUME NEW g \in Goroutines, EndsByFailing(g) PROVE Values'
    BY <1>26 DEF EndsByFailing, Fail, Goto, Labels
<1>27. CASE UNCHANGED vars
    BY <1>27 DEF vars
<1> QED
    BY <1>1, <1>2, <1>3, <1>4, <1>5, <1>6, <1>7, <1>8, <1>9, <1>10, <1>11, <1>12, <1>13,
       <1>14, <1>15, <1>16, <1>17, <1>18, <1>19, <1>20, <1>21, <1>22, <1>23, <1>24, <1>25,
       <1>26, <1>27, NextCases

LEMMA WriterPreserved == TypeOK /\ WriterInv /\ [Next]_vars => WriterInv'
<1> SUFFICES ASSUME TypeOK /\ WriterInv, [Next]_vars PROVE WriterInv'
    OBVIOUS
<1> USE DEF WriterInv, Batching, Writing, QueueShut, sessionState, queueVars, bufferVars
<1>0. /\ pc \in [Goroutines -> Labels] /\ body \in CloseSteps /\ closed \in BOOLEAN
      /\ startStep \in Abandoned..LastStart /\ outgoing \in Seq(Packets)
    BY DEF TypeOK
<1>1. CASE StartContext
    BY <1>1, <1>0 DEF StartContext, Abandoned
<1>2. CASE Abandon
    BY <1>2, <1>0 DEF Abandon, Abandoned
<1>3. CASE StartReady
    BY <1>3, <1>0 DEF StartReady
<1>4. CASE Launch
    <2>1. startStep \in 2..6 /\ startStep' = startStep + 1
        BY <1>0, <1>4 DEF Launch, LastStart
    <2>2. CASE startStep = 2
        <3>1. pc["writer"] = "off" /\ pc'["writer"] = "pop"
            BY <1>0, <1>4, <2>2 DEF Launch, Goto, Launches, Goroutines
        <3> QED
            BY <1>0, <1>4, <2>1, <2>2, <3>1 DEF Launch
    <2>3. CASE startStep # 2
        <3>1. Launches[startStep - 1] # "writer"
            BY <2>1, <2>3 DEF Launches
        <3>2. pc'["writer"] = pc["writer"]
            BY <1>0, <1>4, <3>1 DEF Launch, Goto, Goroutines
        <3> QED
            BY <1>0, <1>4, <2>1, <2>3, <3>2 DEF Launch
    <2> QED
        BY <2>2, <2>3
<1>5. CASE ContextDone
    BY <1>5, <1>0 DEF ContextDone
<1>6. CASE IncomingCloses
    BY <1>6, <1>0 DEF IncomingCloses
<1>7. CASE CloseBegins
    BY <1>7, <1>0 DEF CloseBegins
<1>8. CASE CloseStops
    BY <1>8, <1>0 DEF CloseStops
<1>9. CASE CloseQueue
    BY <1>9, <1>0 DEF CloseQueue
<1>10. CASE CloseChannels
    BY <1>10, <1>0 DEF CloseChannels
<1>11. CASE CloseWaits
    <2>1. pc["writer"] \in {"off", "ended"}
        BY <1>0, <1>11 DEF CloseWaits, Live, Goroutines
    <2> QED
        BY <1>0, <1>11, <2>1 DEF CloseWaits
<1>12. CASE CloseDrains
    BY <1>12, <1>0 DEF CloseDrains
<1>13. CASE WriterPops
    <2>1. /\ pc["writer"] = "pop"
          /\ pc'["writer"] = (IF outgoing = <<>> THEN "empty" ELSE "popped")
        BY <1>0, <1>13 DEF WriterPops, Goto, Goroutines
    <2> QED
        BY <1>0, <1>13, <2>1 DEF WriterPops
<1>14. CASE WriterFoundNothing
    <2>1. /\ pc["writer"] \in {"empty", "wait"}
          /\ pc'["writer"] \in {"drain", "wait", "pop"}
        BY <1>0, <1>14 DEF WriterFoundNothing, Goto, Goroutines
    <2> QED
        BY <1>0, <1>14, <2>1 DEF WriterFoundNothing
<1>15. CASE WriterChecksClosed
    <2>1. /\ pc["writer"] = "popped"
          /\ pc'["writer"] = (IF closed THEN "pop" ELSE "write")
        BY <1>0, <1>15 DEF WriterChecksClosed, Goto, Goroutines
    <2> QED
        BY <1>0, <1>15, <2>1 DEF WriterChecksClosed
<1>16. CASE WriterDrains
    <2>1. pc["writer"] = "drain" /\ pc'["writer"] = "ended"
        BY <1>0, <1>16 DEF WriterDrains, Goto, Goroutines
    <2> QED
        BY <1>0, <1>16, <2>1 DEF WriterDrains
<1>17. CASE CommandEOF
    <2>1. pc'["writer"] = pc["writer"]
        BY <1>0, <1>17 DEF CommandEOF, Goto, Goroutines
    <2> QED
        BY <1>0, <1>17, <2>1 DEF CommandEOF
<1>18. CASE ReceivePacket
    <2>1. pc'["writer"] = pc["writer"]
        BY <1>0, <1>18 DEF ReceivePacket, Goto, Goroutines
    <2> QED
        BY <1>0, <1>18, <2>1 DEF ReceivePacket
<1>19. CASE PushEnds
    <2>1. pc'["writer"] = pc["writer"]
        BY <1>0, <1>19 DEF PushEnds, Goto, Goroutines
    <2> QED
        BY <1>0, <1>19, <2>1 DEF PushEnds
<1>20. CASE ProbeFires
    <2>1. pc'["writer"] = pc["writer"]
        BY <1>0, <1>20 DEF ProbeFires, Goto, Goroutines
    <2> QED
        BY <1>0, <1>20, <2>1 DEF ProbeFires
<1>21. ASSUME NEW why \in {"suspended", "restart", "event"}, FailFromOutside(why)
      PROVE  WriterInv'
    BY <1>21, <1>0 DEF FailFromOutside
<1>22. ASSUME NEW packets \in Handed, Enqueue(packets) PROVE WriterInv'
    <2>1. /\ pc' = pc /\ batch' = batch /\ body' = body /\ closed' = closed
          /\ startStep' = startStep
        BY <1>0, <1>22 DEF Enqueue
    <2>2. ASSUME body = "done" PROVE outgoing' = <<>>
        <3>1. Room = 0 /\ outgoing = <<>>
            BY <2>2 DEF Room
        <3>2. PICK n \in 0..Len(packets) :
                  n <= Room /\ outgoing' = outgoing \o SubSeq(packets, 1, n)
            BY <1>0, <1>22, EnqueueParts, TypeParts
        <3>3. packets \in Seq(Packets) /\ n = 0
            BY <3>1, <3>2, HandedSeq
        <3>4. SubSeq(packets, 1, 0) = <<>>
            BY <3>3
        <3> QED
            BY <3>1, <3>2, <3>3, <3>4, Nothing
    <2> QED
        BY <2>1, <2>2
<1>23. ASSUME NEW g \in Writers, WriteChecksReady(g) PROVE WriterInv'
    <2>1. /\ body' = body /\ closed' = closed /\ startStep' = startStep
          /\ outgoing' = outgoing
        BY <1>0, <1>23 DEF WriteChecksReady
    <2>2. CASE g = "writer"
        <3>1. \/ pc'["writer"] = "lock" /\ batch' = batch
              \/ pc'["writer"] = "pop" /\ batch' = <<>>
            BY <1>0, <1>23, <2>2 DEF WriteChecksReady, WriteReturns, Goto, Goroutines
        <3>2. pc["writer"] = "write"
            BY <1>0, <1>23, <2>2 DEF WriteChecksReady
        <3> QED
            BY <1>0, <2>1, <3>1, <3>2
    <2>3. CASE g = "probe"
        <3>1. pc'["writer"] = pc["writer"] /\ batch' = batch
            BY <1>0, <1>23, <2>3 DEF WriteChecksReady, WriteReturns, Goto, Goroutines
        <3> QED
            BY <1>0, <2>1, <3>1
    <2> QED
        BY <2>2, <2>3 DEF Writers
<1>24. ASSUME NEW g \in Writers, WriteFilters(g) PROVE WriterInv'
    <2>1. /\ body' = body /\ closed' = closed /\ startStep' = startStep
          /\ outgoing' = outgoing
        BY <1>0, <1>24 DEF WriteFilters
    <2>2. CASE g = "writer"
        <3>1. \/ pc'["writer"] = "sending" /\ batch' = batch
              \/ pc'["writer"] = "pop" /\ batch' = <<>>
            BY <1>0, <1>24, <2>2 DEF WriteFilters, WriteReturns, Goto, Goroutines
        <3>2. pc["writer"] = "lock"
            BY <1>0, <1>24, <2>2 DEF WriteFilters
        <3> QED
            BY <1>0, <2>1, <3>1, <3>2
    <2>3. CASE g = "probe"
        <3>1. pc'["writer"] = pc["writer"] /\ batch' = batch
            BY <1>0, <1>24, <2>3 DEF WriteFilters, WriteReturns, Goto, Goroutines
        <3> QED
            BY <1>0, <2>1, <3>1
    <2> QED
        BY <2>2, <2>3 DEF Writers
<1>25. ASSUME NEW g \in Writers, WriteEnds(g) PROVE WriterInv'
    <2>1. /\ body' = body /\ closed' = closed /\ startStep' = startStep
          /\ outgoing' = outgoing
        BY <1>0, <1>25 DEF WriteEnds
    <2>2. CASE g = "writer"
        <3>1. pc'["writer"] = "pop" /\ batch' = <<>>
            BY <1>0, <1>25, <2>2 DEF WriteEnds, WriteReturns, Goto, Goroutines
        <3>2. pc["writer"] = "sending"
            BY <1>0, <1>25, <2>2 DEF WriteEnds
        <3> QED
            BY <1>0, <2>1, <3>1, <3>2
    <2>3. CASE g = "probe"
        <3>1. pc'["writer"] = pc["writer"] /\ batch' = batch
            BY <1>0, <1>25, <2>3 DEF WriteEnds, WriteReturns, Goto, Goroutines
        <3> QED
            BY <1>0, <2>1, <3>1
    <2> QED
        BY <2>2, <2>3 DEF Writers
<1>26. ASSUME NEW g \in Goroutines, EndsByFailing(g) PROVE WriterInv'
    <2>1. pc'["writer"] = pc["writer"]
        BY <1>0, <1>26 DEF EndsByFailing, Goto, Goroutines
    <2> QED
        BY <1>0, <1>26, <2>1 DEF EndsByFailing
<1>27. CASE UNCHANGED vars
    BY <1>27, <1>0 DEF vars
<1> QED
    BY <1>1, <1>2, <1>3, <1>4, <1>5, <1>6, <1>7, <1>8, <1>9, <1>10, <1>11, <1>12, <1>13,
       <1>14, <1>15, <1>16, <1>17, <1>18, <1>19, <1>20, <1>21, <1>22, <1>23, <1>24, <1>25,
       <1>26, <1>27, NextCases

-----------------------------------------------------------------------------
(* Releasing buffers that are held once counts each of them once. *)
LEMMA ReleaseCounts ==
    ASSUME released \in [Packets -> 0..2], NEW buffers \in Seq(Packets), Release(buffers),
           NEW p \in Packets, released[p] + Holds(buffers, p) <= 1
    PROVE  released'[p] = released[p] + Holds(buffers, p)
<1>1. p \in Range(buffers) <=> \E i \in 1..Len(buffers) : buffers[i] = p
    BY DEF Range
<1>2. released'[p] = IF p \in Range(buffers) /\ released[p] < 2 THEN released[p] + 1
                     ELSE released[p]
    BY DEF Release
<1>3. released[p] \in 0..2
    OBVIOUS
<1> QED
    BY <1>1, <1>2, <1>3 DEF Holds

LEMMA NothingHeld ==
    /\ Distinct(<<>>)
    /\ \A p \in Packets : Holds(<<>>, p) = 0
BY DEF Distinct, Holds

LEMMA HoldsBit == ASSUME NEW s, NEW p PROVE Holds(s, p) \in {0, 1}
BY DEF Holds

(* No step but those of the queue, the batch and the callers moves a buffer. *)
LEMMA OwnerFrame ==
    ASSUME OwnerInv, UNCHANGED <<outgoing, batch, fresh, released>>
    PROVE  OwnerInv'
<1>1. ASSUME NEW p \in Packets
      PROVE  (Fresh(p) + Holds(outgoing, p) + Holds(batch, p) + released[p] = 1)'
    <2>1. Fresh(p) + Holds(outgoing, p) + Holds(batch, p) + released[p] = 1
        BY DEF OwnerInv
    <2> QED
        BY <2>1 DEF Fresh, Holds
<1>2. Distinct(outgoing)' /\ Distinct(batch)'
    BY DEF OwnerInv, Distinct
<1> QED
    BY <1>1, <1>2 DEF OwnerInv

(* The queue is emptied into the pool: the two Drains. *)
LEMMA QueueReleased ==
    ASSUME TypeOK, OwnerInv, Release(outgoing), outgoing' = <<>>, UNCHANGED <<batch, fresh>>
    PROVE  OwnerInv'
<1>0. released \in [Packets -> 0..2] /\ outgoing \in Seq(Packets)
    BY DEF TypeOK
<1>1. ASSUME NEW p \in Packets
      PROVE  (Fresh(p) + Holds(outgoing, p) + Holds(batch, p) + released[p] = 1)'
    <2>1. Fresh(p) + Holds(outgoing, p) + Holds(batch, p) + released[p] = 1
        BY DEF OwnerInv
    <2>2. /\ Fresh(p) \in {0, 1} /\ Holds(batch, p) \in {0, 1}
          /\ Holds(outgoing, p) \in {0, 1} /\ released[p] \in 0..2
        BY <1>0 DEF Fresh, Holds
    <2>3. released'[p] = released[p] + Holds(outgoing, p)
        BY <1>0, <2>1, <2>2, ReleaseCounts
    <2>4. Holds(outgoing, p)' = 0
        BY NothingHeld DEF Holds
    <2>5. Fresh(p)' = Fresh(p) /\ Holds(batch, p)' = Holds(batch, p)
        BY DEF Fresh, Holds
    <2> QED
        BY <2>1, <2>2, <2>3, <2>4, <2>5
<1>2. Distinct(outgoing)' /\ Distinct(batch)'
    BY NothingHeld DEF OwnerInv, Distinct
<1> QED
    BY <1>1, <1>2 DEF OwnerInv

(* The batch goes to the pool, dropped or written. *)
LEMMA BatchReleased ==
    ASSUME TypeOK, OwnerInv, Release(batch), batch' = <<>>, UNCHANGED <<outgoing, fresh>>
    PROVE  OwnerInv'
<1>0. released \in [Packets -> 0..2] /\ batch \in Seq(Packets)
    BY DEF TypeOK
<1>1. ASSUME NEW p \in Packets
      PROVE  (Fresh(p) + Holds(outgoing, p) + Holds(batch, p) + released[p] = 1)'
    <2>1. Fresh(p) + Holds(outgoing, p) + Holds(batch, p) + released[p] = 1
        BY DEF OwnerInv
    <2>2. /\ Fresh(p) \in {0, 1} /\ Holds(batch, p) \in {0, 1}
          /\ Holds(outgoing, p) \in {0, 1} /\ released[p] \in 0..2
        BY <1>0 DEF Fresh, Holds
    <2>3. released'[p] = released[p] + Holds(batch, p)
        BY <1>0, <2>1, <2>2, ReleaseCounts
    <2>4. Holds(batch, p)' = 0
        BY NothingHeld DEF Holds
    <2>5. Fresh(p)' = Fresh(p) /\ Holds(outgoing, p)' = Holds(outgoing, p)
        BY DEF Fresh, Holds
    <2> QED
        BY <2>1, <2>2, <2>3, <2>4, <2>5
<1>2. Distinct(outgoing)' /\ Distinct(batch)'
    BY NothingHeld DEF OwnerInv, Distinct
<1> QED
    BY <1>1, <1>2 DEF OwnerInv

(* A write that returns: the writer's has released the batch, the probe's  *)
(* a buffer of its own.                                                    *)
LEMMA WriteReturnsOwners ==
    ASSUME TypeOK, OwnerInv, NEW g \in Writers, NEW failed, WriteReturns(g, failed),
           UNCHANGED <<outgoing, fresh>>
    PROVE  OwnerInv'
<1>1. CASE g = "writer"
    BY <1>1, BatchReleased DEF WriteReturns, Buffers
<1>2. CASE g = "probe"
    <2>1. batch' = batch
        BY <1>2 DEF WriteReturns
    <2>2. released' = released
        BY <1>2 DEF WriteReturns, Buffers, Release, Range, TypeOK
    <2> QED
        BY <2>1, <2>2, OwnerFrame
<1> QED
    BY <1>1, <1>2 DEF Writers

(* Distinct packets that the queue does not hold are appended to it. *)
LEMMA JoinDistinct ==
    ASSUME NEW s \in Seq(Packets), NEW t \in Seq(Packets), Distinct(s), Distinct(t),
           \A i \in 1..Len(s), j \in 1..Len(t) : s[i] # t[j]
    PROVE  Distinct(s \o t)
<1> DEFINE st == s \o t
<1>1. /\ Len(st) = Len(s) + Len(t) /\ Len(s) \in Nat /\ Len(t) \in Nat
      /\ \A i \in 1..Len(s) : st[i] = s[i]
      /\ \A i \in 1..Len(t) : st[Len(s) + i] = t[i]
    BY Join
<1> HIDE DEF st
<1>2. SUFFICES ASSUME NEW i \in 1..Len(st), NEW j \in 1..Len(st), st[i] = st[j]
               PROVE  i = j
    BY DEF Distinct, st
<1>3. ASSUME NEW k \in 1..Len(st), k \notin 1..Len(s)
      PROVE  k - Len(s) \in 1..Len(t) /\ st[k] = t[k - Len(s)]
    <2>1. k - Len(s) \in 1..Len(t) /\ k = Len(s) + (k - Len(s))
        BY <1>1, <1>3
    <2> QED
        BY <1>1, <2>1
<1>4. CASE i \in 1..Len(s) /\ j \in 1..Len(s)
    BY <1>1, <1>2, <1>4 DEF Distinct
<1>5. CASE i \in 1..Len(s) /\ j \notin 1..Len(s)
    BY <1>1, <1>2, <1>3, <1>5
<1>6. CASE i \notin 1..Len(s) /\ j \in 1..Len(s)
    BY <1>1, <1>2, <1>3, <1>6
<1>7. CASE i \notin 1..Len(s) /\ j \notin 1..Len(s)
    <2>1. i - Len(s) = j - Len(s)
        BY <1>2, <1>3, <1>7 DEF Distinct
    <2> QED
        BY <1>1, <2>1
<1> QED
    BY <1>4, <1>5, <1>6, <1>7

LEMMA JoinHolds ==
    ASSUME NEW s \in Seq(Packets), NEW t \in Seq(Packets), NEW p
    PROVE  Holds(s \o t, p) = 1 <=> Holds(s, p) = 1 \/ Holds(t, p) = 1
<1> DEFINE st == s \o t
<1>1. /\ Len(st) = Len(s) + Len(t) /\ Len(s) \in Nat /\ Len(t) \in Nat
      /\ \A i \in 1..Len(s) : st[i] = s[i]
      /\ \A i \in 1..Len(t) : st[Len(s) + i] = t[i]
    BY Join
<1> HIDE DEF st
<1>2. ASSUME NEW i \in 1..Len(st), st[i] = p
      PROVE  (\E k \in 1..Len(s) : s[k] = p) \/ (\E k \in 1..Len(t) : t[k] = p)
    <2>1. CASE i \in 1..Len(s)
        BY <1>1, <1>2, <2>1
    <2>2. CASE i \notin 1..Len(s)
        <3>1. i - Len(s) \in 1..Len(t) /\ i = Len(s) + (i - Len(s))
            BY <1>1, <2>2
        <3> QED
            BY <1>1, <1>2, <3>1
    <2> QED
        BY <2>1, <2>2
<1>3. ASSUME NEW i \in 1..Len(s), s[i] = p PROVE \E k \in 1..Len(st) : st[k] = p
    BY <1>1, <1>3
<1>4. ASSUME NEW i \in 1..Len(t), t[i] = p PROVE \E k \in 1..Len(st) : st[k] = p
    <2>1. Len(s) + i \in 1..Len(st)
        BY <1>1
    <2> QED
        BY <1>1, <1>4, <2>1
<1> QED
    BY <1>2, <1>3, <1>4 DEF st, Holds

(* Of distinct packets cut in two, each is in one part. *)
LEMMA CutHolds ==
    ASSUME NEW s \in Seq(Packets), Distinct(s), NEW n \in 0..Len(s), NEW p
    PROVE  /\ Holds(s, p) = Holds(SubSeq(s, 1, n), p) + Holds(SubSeq(s, n + 1, Len(s)), p)
           /\ Distinct(SubSeq(s, 1, n))
<1> DEFINE a == SubSeq(s, 1, n)
<1> DEFINE b == SubSeq(s, n + 1, Len(s))
<1>1. /\ Len(a) = n /\ \A i \in 1..n : a[i] = s[i]
      /\ Len(b) = Len(s) - n /\ \A i \in 1..(Len(s) - n) : b[i] = s[n + i]
    BY Cut
<1>2. Len(s) \in Nat /\ n \in Nat /\ n <= Len(s)
    OBVIOUS
<1> HIDE DEF a, b
<1>3. Distinct(a)
    BY <1>1, <1>2 DEF Distinct
<1>4. ASSUME NEW i \in 1..Len(a), NEW j \in 1..Len(b), a[i] = b[j] PROVE FALSE
    <2>1. s[i] = s[n + j] /\ i \in 1..Len(s) /\ n + j \in 1..Len(s)
        BY <1>1, <1>2, <1>4
    <2>2. i = n + j
        BY <2>1 DEF Distinct
    <2> QED
        BY <1>1, <1>2, <2>2
<1>5. ASSUME NEW i \in 1..Len(a), a[i] = p PROVE \E k \in 1..Len(s) : s[k] = p
    BY <1>1, <1>2, <1>5
<1>6. ASSUME NEW i \in 1..Len(b), b[i] = p PROVE \E k \in 1..Len(s) : s[k] = p
    <2>1. n + i \in 1..Len(s)
        BY <1>1, <1>2
    <2> QED
        BY <1>1, <1>6, <2>1
<1>7. ASSUME NEW i \in 1..Len(s), s[i] = p
      PROVE  (\E k \in 1..Len(a) : a[k] = p) \/ (\E k \in 1..Len(b) : b[k] = p)
    <2>1. CASE i <= n
        BY <1>1, <1>2, <1>7, <2>1
    <2>2. CASE i > n
        <3>1. i - n \in 1..Len(b) /\ n + (i - n) = i
            BY <1>1, <1>2, <2>2
        <3> QED
            BY <1>1, <1>7, <3>1
    <2> QED
        BY <1>2, <2>1, <2>2
<1>8. Holds(s, p) = Holds(a, p) + Holds(b, p)
    BY <1>4, <1>5, <1>6, <1>7 DEF Holds
<1> QED
    BY <1>3, <1>8 DEF a, b

LEMMA OwnersPreserved == SessionInv /\ [Next]_vars => OwnerInv'
<1> SUFFICES ASSUME SessionInv, [Next]_vars PROVE OwnerInv'
    OBVIOUS
<1> USE DEF SessionInv, sessionState, queueVars, bufferVars
<1>0. /\ released \in [Packets -> 0..2] /\ outgoing \in Seq(Packets)
      /\ batch \in Seq(Packets) /\ fresh \in SUBSET Packets
    BY DEF TypeOK
<1>1. CASE StartContext
    BY <1>1, OwnerFrame DEF StartContext
<1>2. CASE Abandon
    BY <1>2, OwnerFrame DEF Abandon
<1>3. CASE StartReady
    BY <1>3, OwnerFrame DEF StartReady
<1>4. CASE Launch
    BY <1>4, OwnerFrame DEF Launch
<1>5. CASE ContextDone
    BY <1>5, OwnerFrame DEF ContextDone
<1>6. CASE IncomingCloses
    BY <1>6, OwnerFrame DEF IncomingCloses
<1>7. CASE CloseBegins
    BY <1>7, OwnerFrame DEF CloseBegins
<1>8. CASE CloseStops
    BY <1>8, OwnerFrame DEF CloseStops
<1>9. CASE CloseQueue
    BY <1>9, OwnerFrame DEF CloseQueue
<1>10. CASE CloseChannels
    BY <1>10, OwnerFrame DEF CloseChannels
<1>11. CASE CloseWaits
    BY <1>11, OwnerFrame DEF CloseWaits
<1>12. CASE CloseDrains
    BY <1>12, QueueReleased DEF CloseDrains
<1>13. CASE WriterPops
    <2>1. batch = <<>> /\ batch' = outgoing /\ outgoing' = <<>>
          /\ fresh' = fresh /\ released' = released
        BY <1>13 DEF WriterPops, WriterInv, Batching
    <2>2. ASSUME NEW p \in Packets
          PROVE  (Fresh(p) + Holds(outgoing, p) + Holds(batch, p) + released[p] = 1)'
        <3>1. Fresh(p) + Holds(outgoing, p) + Holds(batch, p) + released[p] = 1
            BY DEF OwnerInv
        <3>2. Holds(batch, p) = 0 /\ Holds(outgoing, p)' = 0
            BY <2>1, NothingHeld DEF Holds
        <3>3. Holds(batch, p)' = Holds(outgoing, p) /\ Fresh(p)' = Fresh(p)
            BY <2>1 DEF Holds, Fresh
        <3>4. /\ Fresh(p) \in {0, 1} /\ Holds(outgoing, p) \in {0, 1}
              /\ released[p] \in 0..2
            BY <1>0 DEF Fresh, Holds
        <3> QED
            BY <2>1, <3>1, <3>2, <3>3, <3>4
    <2>3. Distinct(outgoing)' /\ Distinct(batch)'
        BY <2>1, NothingHeld DEF OwnerInv, Distinct
    <2> QED
        BY <2>2, <2>3 DEF OwnerInv
<1>14. CASE WriterFoundNothing
    BY <1>14, OwnerFrame DEF WriterFoundNothing
<1>15. CASE WriterChecksClosed
    <2>1. CASE closed
        BY <1>15, <2>1, BatchReleased DEF WriterChecksClosed, dropOutboundDataPackets
    <2>2. CASE ~closed
        BY <1>15, <2>2, OwnerFrame DEF WriterChecksClosed
    <2> QED
        BY <2>1, <2>2
<1>16. CASE WriterDrains
    BY <1>16, QueueReleased DEF WriterDrains
<1>17. CASE CommandEOF
    BY <1>17, OwnerFrame DEF CommandEOF
<1>18. CASE ReceivePacket
    BY <1>18, OwnerFrame DEF ReceivePacket
<1>19. CASE PushEnds
    BY <1>19, OwnerFrame DEF PushEnds
<1>20. CASE ProbeFires
    BY <1>20, OwnerFrame DEF ProbeFires
<1>21. ASSUME NEW why \in {"suspended", "restart", "event"}, FailFromOutside(why)
      PROVE  OwnerInv'
    BY <1>21, OwnerFrame DEF FailFromOutside
<1>22. ASSUME NEW packets \in Handed, Enqueue(packets) PROVE OwnerInv'
    <2>1. packets \in Seq(Packets) /\ Distinct(packets)
        BY HandedSeq
    <2>2. PICK n \in 0..Len(packets) :
              /\ outgoing' = outgoing \o SubSeq(packets, 1, n)
              /\ dropOutboundDataPackets(SubSeq(packets, n + 1, Len(packets)))
              /\ Range(packets) \subseteq fresh
              /\ fresh' = fresh \ Range(packets)
        BY <1>22, EnqueueParts, TypeParts
    <2>3. batch' = batch
        BY <1>22 DEF Enqueue
    <2> DEFINE a == SubSeq(packets, 1, n)
    <2> DEFINE b == SubSeq(packets, n + 1, Len(packets))
    <2>4. a \in Seq(Packets) /\ b \in Seq(Packets) /\ Len(a) = n
          /\ \A i \in 1..n : a[i] = packets[i]
        BY <2>1, Cut
    <2>5. /\ \A p \in Packets : Holds(packets, p) = Holds(a, p) + Holds(b, p)
          /\ Distinct(a)
        BY <2>1, CutHolds
    <2>6. outgoing' = outgoing \o a /\ Release(b)
        BY <2>2 DEF dropOutboundDataPackets
    <2> HIDE DEF a, b
    <2>7. \A p \in Packets : p \in Range(packets) <=> Holds(packets, p) = 1
        BY <2>1 DEF Range, Holds
    <2>8. \A p \in Packets : Holds(outgoing \o a, p) = 1
                                <=> Holds(outgoing, p) = 1 \/ Holds(a, p) = 1
        BY <1>0, <2>4, JoinHolds
    <2>9. ASSUME NEW p \in Packets
          PROVE  (Fresh(p) + Holds(outgoing, p) + Holds(batch, p) + released[p] = 1)'
        <3>1. Fresh(p) + Holds(outgoing, p) + Holds(batch, p) + released[p] = 1
            BY DEF OwnerInv
        <3>2. /\ Fresh(p) \in {0, 1} /\ Holds(batch, p) \in {0, 1}
              /\ Holds(outgoing, p) \in {0, 1} /\ released[p] \in 0..2
              /\ Holds(packets, p) \in {0, 1} /\ Holds(a, p) \in {0, 1}
              /\ Holds(b, p) \in {0, 1} /\ Holds(outgoing \o a, p) \in {0, 1}
            BY <1>0 DEF Fresh, Holds
        <3>3. Holds(packets, p) = 1 => Fresh(p) = 1
            BY <2>2, <2>7 DEF Fresh
        <3>4. Fresh(p)' = Fresh(p) - Holds(packets, p)
            BY <2>2, <2>7, <3>2 DEF Fresh
        <3>5. Holds(packets, p) = Holds(a, p) + Holds(b, p)
            BY <2>5
        <3>6. released[p] + Holds(b, p) <= 1
            BY <3>1, <3>2, <3>3, <3>5
        <3>7. released'[p] = released[p] + Holds(b, p)
            BY <1>0, <2>4, <2>6, <3>6, ReleaseCounts
        <3>8. Holds(outgoing, p)' = Holds(outgoing \o a, p)
            BY <2>6 DEF Holds
        <3>9. Holds(outgoing \o a, p) = Holds(outgoing, p) + Holds(a, p)
            BY <2>8, <3>1, <3>2, <3>3, <3>5
        <3>10. Holds(batch, p)' = Holds(batch, p)
            BY <2>3 DEF Holds
        <3> QED
            BY <3>1, <3>2, <3>4, <3>5, <3>7, <3>8, <3>9, <3>10
    <2>10. ASSUME NEW i \in 1..Len(outgoing), NEW j \in 1..Len(a), outgoing[i] = a[j]
           PROVE  FALSE
        <3> DEFINE p == outgoing[i]
        <3>1. p \in Packets
            BY <1>0
        <3>2. Holds(outgoing, p) = 1
            BY DEF Holds
        <3>3. p \in Range(packets)
            BY <2>1, <2>4, <2>10 DEF Range
        <3>4. Fresh(p) = 1
            BY <2>2, <3>3 DEF Fresh
        <3> HIDE DEF p
        <3>5. Fresh(p) + Holds(outgoing, p) + Holds(batch, p) + released[p] = 1
            BY <3>1 DEF OwnerInv
        <3>6. Holds(batch, p) \in {0, 1} /\ released[p] \in 0..2
            BY <1>0, <3>1 DEF Holds
        <3> QED
            BY <3>2, <3>4, <3>5, <3>6
    <2>11. Distinct(outgoing \o a)
        BY <1>0, <2>4, <2>5, <2>10, JoinDistinct DEF OwnerInv
    <2>12. Distinct(outgoing)' /\ Distinct(batch)'
        BY <2>3, <2>6, <2>11 DEF OwnerInv, Distinct
    <2> QED
        BY <2>9, <2>12 DEF OwnerInv
<1>23. ASSUME NEW g \in Writers, WriteChecksReady(g) PROVE OwnerInv'
    <2>1. CASE ready
        BY <1>23, <2>1, OwnerFrame DEF WriteChecksReady
    <2>2. CASE ~ready
        BY <1>23, <2>2, WriteReturnsOwners DEF WriteChecksReady
    <2> QED
        BY <2>1, <2>2
<1>24. ASSUME NEW g \in Writers, WriteFilters(g) PROVE OwnerInv'
    <2>1. UNCHANGED <<outgoing, fresh>>
        BY <1>24 DEF WriteFilters
    <2>2. CASE WriteReturns(g, FALSE)
        BY <2>1, <2>2, WriteReturnsOwners
    <2>3. CASE UNCHANGED <<released, batch>>
        BY <2>1, <2>3, OwnerFrame
    <2> QED
        BY <1>24, <2>2, <2>3 DEF WriteFilters
<1>25. ASSUME NEW g \in Writers, WriteEnds(g) PROVE OwnerInv'
    <2>1. UNCHANGED <<outgoing, fresh>>
        BY <1>25 DEF WriteEnds
    <2>2. PICK failed \in BOOLEAN : WriteReturns(g, failed)
        BY <1>25 DEF WriteEnds
    <2> QED
        BY <2>1, <2>2, WriteReturnsOwners
<1>26. ASSUME NEW g \in Goroutines, EndsByFailing(g) PROVE OwnerInv'
    BY <1>26, OwnerFrame DEF EndsByFailing
<1>27. CASE UNCHANGED vars
    BY <1>27, OwnerFrame DEF vars
<1> QED
    BY <1>1, <1>2, <1>3, <1>4, <1>5, <1>6, <1>7, <1>8, <1>9, <1>10, <1>11, <1>12, <1>13,
       <1>14, <1>15, <1>16, <1>17, <1>18, <1>19, <1>20, <1>21, <1>22, <1>23, <1>24, <1>25,
       <1>26, <1>27, NextCases

LEMMA SessionInvInit == Init => SessionInv
<1> SUFFICES ASSUME Init PROVE SessionInv
    OBVIOUS
<1>1. Flags
    BY DEF Init, Flags
<1>2. Values
    BY SessionAssumption, Nothing
    DEF Init, Values, Abandoned, LastStart, CloseSteps, Goroutines, Labels
<1>3. WriterInv
    BY DEF Init, WriterInv, Goroutines, Batching, Writing, QueueShut
<1>4. OwnerInv
    BY NothingHeld DEF Init, OwnerInv, Fresh
<1> QED
    BY <1>1, <1>2, <1>3, <1>4, TypeParts DEF SessionInv

LEMMA SessionInvInductive == SessionInv /\ [Next]_vars => SessionInv'
<1> SUFFICES ASSUME SessionInv, [Next]_vars PROVE SessionInv'
    OBVIOUS
<1>1. TypeOK /\ Flags /\ Values /\ WriterInv
    BY TypeParts, Zenon DEF SessionInv
<1>2. Flags' /\ Values'
    BY <1>1, FlagsPreserved, ValuesPreserved, Zenon
<1>3. TypeOK'
    BY <1>2, Zenon DEF TypeOK, Flags, Values
<1>4. WriterInv'
    BY <1>1, WriterPreserved, Zenon
<1>5. OwnerInv'
    BY OwnersPreserved, Zenon
<1> QED
    BY <1>3, <1>4, <1>5, Zenon DEF SessionInv

LEMMA SessionInvHolds == Spec => []SessionInv
BY SessionInvInit, SessionInvInductive, PTL DEF Spec
-----------------------------------------------------------------------------
(* src/session.go and src/data_packet_writer.go keep the values they are   *)
(* written for: the queue never exceeds its capacity, whatever the number  *)
(* of packets a caller hands over at once, and no goroutine is launched    *)
(* beyond the last.                                                        *)
THEOREM SessionTypeCorrect == Spec => []TypeOK
<1>1. SessionInv => TypeOK
    BY DEF SessionInv
<1> QED
    BY <1>1, SessionInvHolds, PTL

(* In a sequence of distinct packets a packet occurs once if at all. *)
LEMMA OccursOnce ==
    ASSUME NEW s \in Seq(Packets), Distinct(s), NEW p
    PROVE  Occurrences(p, s) = Holds(s, p)
<1>1. CASE \E i \in 1..Len(s) : s[i] = p
    <2>1. PICK k \in 1..Len(s) : s[k] = p
        BY <1>1
    <2>2. {i \in 1..Len(s) : s[i] = p} = {k}
        BY <2>1 DEF Distinct
    <2> QED
        BY <1>1, <2>2, FS_Singleton DEF Occurrences, Holds
<1>2. CASE ~ \E i \in 1..Len(s) : s[i] = p
    <2>1. {i \in 1..Len(s) : s[i] = p} = {}
        BY <1>2
    <2> QED
        BY <1>2, <2>1, FS_EmptySet DEF Occurrences, Holds
<1> QED
    BY <1>1, <1>2

(* EnqueueDataPacketBuffers, runOutgoingDataPacketWriter,                  *)
(* WriteDataPacketBuffers and the two Drains: a packet buffer has one      *)
(* owner at any time, none is released twice or lost, and a closed session *)
(* keeps none in its queue and writes none.                                *)
THEOREM SessionBuffersOwnedOnce == Spec => []BuffersOwnedOnce
<1>1. ASSUME SessionInv PROVE BuffersOwnedOnce
    <2>1. outgoing \in Seq(Packets) /\ batch \in Seq(Packets)
        BY <1>1 DEF SessionInv, TypeOK
    <2>2. ASSUME NEW p \in Packets
          PROVE  (IF p \in fresh THEN 1 ELSE 0) + Occurrences(p, outgoing)
                     + Occurrences(p, batch) + released[p] = 1
        <3>1. /\ Occurrences(p, outgoing) = Holds(outgoing, p)
              /\ Occurrences(p, batch) = Holds(batch, p)
            BY <1>1, <2>1, OccursOnce DEF SessionInv, OwnerInv
        <3>2. Fresh(p) + Holds(outgoing, p) + Holds(batch, p) + released[p] = 1
            BY <1>1 DEF SessionInv, OwnerInv
        <3> QED
            BY <3>1, <3>2 DEF Fresh
    <2>3. body = "done" =>
              outgoing = <<>> /\ pc["writer"] \notin {"write", "lock", "sending"}
        BY <1>1 DEF SessionInv, WriterInv, Writing
    <2> QED
        BY <2>2, <2>3 DEF BuffersOwnedOnce
<1> QED
    BY <1>1, SessionInvHolds, PTL

-----------------------------------------------------------------------------
(* The mapping onto the one session of ClientSession. *)
Ready   == [s \in {1} |-> ready]
Failure == [s \in {1} |-> failure]
Running == [s \in {1} |-> startStep >= 2]
Life    == [s \in {1} |-> IF body = "no" THEN "open"
                          ELSE IF body = "done" THEN "closed" ELSE "closing"]

LEMMA One ==
    ASSUME NEW x, NEW y
    PROVE  [[s \in {1} |-> x] EXCEPT ![1] = y] = [s \in {1} |-> y]
OBVIOUS

LEMMA RunningIs ==
    /\ startStep >= 2 => Running = [s \in {1} |-> TRUE]
    /\ ~ (startStep >= 2) => Running = [s \in {1} |-> FALSE]
<1>1. ASSUME startStep >= 2 PROVE Running = [s \in {1} |-> TRUE]
    <2>1. (startStep >= 2) = TRUE
        BY <1>1
    <2> QED
        BY <2>1, Zenon DEF Running
<1>2. ASSUME ~ (startStep >= 2) PROVE Running = [s \in {1} |-> FALSE]
    <2>1. (startStep >= 2) = FALSE
        BY <1>2
    <2> QED
        BY <2>1, Zenon DEF Running
<1> QED
    BY <1>1, <1>2

LEMMA RunningBecomes ==
    /\ startStep' >= 2 => Running' = [s \in {1} |-> TRUE]
    /\ ~ (startStep' >= 2) => Running' = [s \in {1} |-> FALSE]
<1>1. ASSUME startStep' >= 2 PROVE Running' = [s \in {1} |-> TRUE]
    <2>1. (startStep' >= 2) = TRUE
        BY <1>1
    <2> QED
        BY <2>1, Zenon DEF Running
<1>2. ASSUME ~ (startStep' >= 2) PROVE Running' = [s \in {1} |-> FALSE]
    <2>1. (startStep' >= 2) = FALSE
        BY <1>2
    <2> QED
        BY <2>1, Zenon DEF Running
<1> QED
    BY <1>1, <1>2

(* Most steps are none of the client's business. *)
LEMMA Unseen ==
    ASSUME UNCHANGED <<ready, failure>>,
           startStep' >= 2 <=> startStep >= 2,
           \/ body' = body
           \/ body \notin {"no", "done"} /\ body' \notin {"no", "done"}
    PROVE  UNCHANGED Contract!sessionVars
<1>1. Running' = Running
    BY RunningIs, RunningBecomes, Zenon
<1>2. Life' = Life
    BY DEF Life
<1>3. Ready' = Ready /\ Failure' = Failure
    BY DEF Ready, Failure
<1> QED
    BY <1>1, <1>2, <1>3 DEF Contract!sessionVars, Ready, Failure, Running, Life

(* Fail, by whoever calls it, is FailSession. *)
LEMMA FailIsFailSession ==
    ASSUME NEW why \in Contract!Failures, Fail(why), UNCHANGED <<startStep, body>>
    PROVE  [Contract!SessionNext]_(Contract!sessionVars)
<1>1. Running' = Running /\ Life' = Life
    BY DEF Running, Life
<1>2. CASE failure = "none"
    <2>1. /\ Failure[1] = "none"
          /\ Failure' = [Failure EXCEPT ![1] = why]
          /\ Ready' = [Ready EXCEPT ![1] = FALSE]
        BY <1>2, One DEF Failure, Ready, Fail
    <2>2. Contract!FailSession(1, why)
        BY <1>1, <2>1 DEF Contract!FailSession, Ready, Failure, Running, Life
    <2> QED
        BY <2>2 DEF Contract!SessionNext
<1>3. CASE failure # "none"
    BY <1>3, Unseen DEF Fail, sessionState
<1> QED
    BY <1>2, <1>3

LEMMA StartIsStartSession == StartReady => Contract!SessionNext
<1> SUFFICES ASSUME StartReady PROVE Contract!SessionNext
    OBVIOUS
<1>1. ~ Running[1] /\ Running' = [Running EXCEPT ![1] = TRUE]
    <2>1. ~ (startStep >= 2) /\ startStep' >= 2
        BY DEF StartReady
    <2>2. Running = [s \in {1} |-> FALSE] /\ Running' = [s \in {1} |-> TRUE]
        BY <2>1, RunningIs, RunningBecomes, Zenon
    <2> QED
        BY <2>2, One
<1>2. Ready' = [Ready EXCEPT ![1] = TRUE]
    BY DEF StartReady, Ready
<1>3. Failure' = Failure /\ Life' = Life
    BY DEF StartReady, Failure, Life
<1>4. Contract!StartSession(1)
    BY <1>1, <1>2, <1>3 DEF Contract!StartSession, Ready, Failure, Running, Life
<1> QED
    BY <1>4 DEF Contract!SessionNext

LEMMA CloseIsBeginClose == CloseBegins => Contract!SessionNext
<1> SUFFICES ASSUME CloseBegins PROVE Contract!SessionNext
    OBVIOUS
<1>1. Life[1] = "open" /\ Life' = [Life EXCEPT ![1] = "closing"]
    BY DEF CloseBegins, Life
<1>2. Ready' = [Ready EXCEPT ![1] = FALSE]
    BY DEF CloseBegins, Ready
<1>3. Failure' = [Failure EXCEPT ![1] = IF @ = "none" THEN "closed" ELSE @]
    BY DEF CloseBegins, Failure
<1>4. Running' = Running
    BY DEF CloseBegins, Running
<1>5. Contract!BeginClose(1)
    BY <1>1, <1>2, <1>3, <1>4 DEF Contract!BeginClose, Ready, Failure, Running, Life
<1> QED
    BY <1>5 DEF Contract!SessionNext

LEMMA DrainIsEndClose == CloseDrains => Contract!SessionNext
<1> SUFFICES ASSUME CloseDrains PROVE Contract!SessionNext
    OBVIOUS
<1>1. Life[1] = "closing" /\ Life' = [Life EXCEPT ![1] = "closed"]
    BY DEF CloseDrains, Life
<1>2. Ready' = Ready /\ Failure' = Failure /\ Running' = Running
    BY DEF CloseDrains, Ready, Failure, Running, sessionState
<1>3. Contract!EndClose(1)
    BY <1>1, <1>2 DEF Contract!EndClose, Ready, Failure, Running, Life
<1> QED
    BY <1>3 DEF Contract!SessionNext

LEMMA StepImplements ==
    [Next]_vars => [Contract!SessionNext]_(Contract!sessionVars)
<1> SUFFICES ASSUME [Next]_vars
             PROVE  [Contract!SessionNext]_(Contract!sessionVars)
    OBVIOUS
<1> USE DEF sessionState, queueVars, bufferVars
<1>0. {"suspended", "restart", "event", "lost"} \subseteq Contract!Failures
    BY DEF Contract!Failures
<1>1. CASE StartContext
    <2>1. ~ (startStep >= 2) /\ ~ (startStep' >= 2)
        BY <1>1 DEF StartContext, Abandoned
    <2> QED
        BY <1>1, <2>1, Unseen DEF StartContext
<1>2. CASE Abandon
    <2>1. ~ (startStep >= 2) /\ ~ (startStep' >= 2)
        BY <1>2 DEF Abandon, Abandoned
    <2> QED
        BY <1>2, <2>1, Unseen DEF Abandon
<1>3. CASE StartReady
    BY <1>3, StartIsStartSession
<1>4. CASE Launch
    <2>1. startStep >= 2 /\ startStep' >= 2
        BY <1>4 DEF Launch, LastStart
    <2> QED
        BY <1>4, <2>1, Unseen DEF Launch
<1>5. CASE ContextDone
    BY <1>5, Unseen DEF ContextDone
<1>6. CASE IncomingCloses
    BY <1>6, Unseen DEF IncomingCloses
<1>7. CASE CloseBegins
    BY <1>7, CloseIsBeginClose
<1>8. CASE CloseStops
    BY <1>8, Unseen DEF CloseStops
<1>9. CASE CloseQueue
    BY <1>9, Unseen DEF CloseQueue
<1>10. CASE CloseChannels
    BY <1>10, Unseen DEF CloseChannels
<1>11. CASE CloseWaits
    BY <1>11, Unseen DEF CloseWaits
<1>12. CASE CloseDrains
    BY <1>12, DrainIsEndClose
<1>13. CASE WriterPops
    BY <1>13, Unseen DEF WriterPops
<1>14. CASE WriterFoundNothing
    BY <1>14, Unseen DEF WriterFoundNothing
<1>15. CASE WriterChecksClosed
    BY <1>15, Unseen DEF WriterChecksClosed
<1>16. CASE WriterDrains
    BY <1>16, Unseen DEF WriterDrains
<1>17. CASE CommandEOF
    BY <1>17, Unseen DEF CommandEOF
<1>18. CASE ReceivePacket
    BY <1>18, Unseen DEF ReceivePacket
<1>19. CASE PushEnds
    BY <1>19, Unseen DEF PushEnds
<1>20. CASE ProbeFires
    BY <1>20, Unseen DEF ProbeFires
<1>21. ASSUME NEW why \in {"suspended", "restart", "event"}, FailFromOutside(why)
      PROVE  [Contract!SessionNext]_(Contract!sessionVars)
    <2>1. UNCHANGED <<startStep, body>>
        BY <1>21 DEF FailFromOutside
    <2>2. Fail(why)
        BY <1>21 DEF FailFromOutside
    <2> QED
        BY <1>0, <2>1, <2>2, FailIsFailSession
<1>22. ASSUME NEW packets \in Handed, Enqueue(packets)
      PROVE  [Contract!SessionNext]_(Contract!sessionVars)
    BY <1>22, Unseen DEF Enqueue
<1>23. ASSUME NEW g \in Writers, WriteChecksReady(g)
      PROVE  [Contract!SessionNext]_(Contract!sessionVars)
    <2>1. UNCHANGED <<startStep, body>>
        BY <1>23 DEF WriteChecksReady
    <2>2. Fail("lost") \/ UNCHANGED <<ready, failure>>
        BY <1>23 DEF WriteChecksReady
    <2> QED
        BY <1>0, <2>1, <2>2, FailIsFailSession, Unseen
<1>24. ASSUME NEW g \in Writers, WriteFilters(g)
      PROVE  [Contract!SessionNext]_(Contract!sessionVars)
    BY <1>24, Unseen DEF WriteFilters
<1>25. ASSUME NEW g \in Writers, WriteEnds(g)
      PROVE  [Contract!SessionNext]_(Contract!sessionVars)
    <2>1. UNCHANGED <<startStep, body>>
        BY <1>25 DEF WriteEnds
    <2>2. Fail("lost") \/ UNCHANGED <<ready, failure>>
        BY <1>25 DEF WriteEnds
    <2> QED
        BY <1>0, <2>1, <2>2, FailIsFailSession, Unseen
<1>26. ASSUME NEW g \in Goroutines, EndsByFailing(g)
      PROVE  [Contract!SessionNext]_(Contract!sessionVars)
    <2>1. UNCHANGED <<startStep, body>>
        BY <1>26 DEF EndsByFailing
    <2>2. Fail("lost")
        BY <1>26 DEF EndsByFailing
    <2> QED
        BY <1>0, <2>1, <2>2, FailIsFailSession
<1>27. CASE UNCHANGED vars
    BY <1>27, Unseen DEF vars
<1> QED
    BY <1>1, <1>2, <1>3, <1>4, <1>5, <1>6, <1>7, <1>8, <1>9, <1>10, <1>11, <1>12, <1>13,
       <1>14, <1>15, <1>16, <1>17, <1>18, <1>19, <1>20, <1>21, <1>22, <1>23, <1>24, <1>25,
       <1>26, <1>27, NextCases

(* tunnelSession behind the clientSession interface: with Start, Close and *)
(* every goroutine that may Fail taken step by step, the session shows the *)
(* client one Start, one error, one Close that begins and one that ends,   *)
(* which is what ClientLifecycle was written against.                      *)
THEOREM SessionImplementsContract == Spec => ImplementsClientSession
<1>1. Init => Contract!SessionInit
    <2> SUFFICES ASSUME Init PROVE Contract!SessionInit
        OBVIOUS
    <2>1. /\ [s \in {1} |-> ready] = [s \in {1} |-> FALSE]
          /\ [s \in {1} |-> failure] = [s \in {1} |-> "none"]
        BY DEF Init
    <2>2. [s \in {1} |-> startStep >= 2] = [s \in {1} |-> FALSE]
        <3>1. ~ (startStep >= 2)
            BY DEF Init
        <3> QED
            BY <3>1, RunningIs, Zenon DEF Running
    <2>3. [s \in {1} |-> IF body = "no" THEN "open"
                         ELSE IF body = "done" THEN "closed" ELSE "closing"]
              = [s \in {1} |-> "open"]
        BY DEF Init
    <2> QED
        BY <2>1, <2>2, <2>3 DEF Contract!SessionInit
<1>2. [Next]_vars => [Contract!SessionNext]_(Contract!sessionVars)
    BY StepImplements
<1> QED
    BY <1>1, <1>2, PTL DEF Spec, ImplementsClientSession, Contract!SessionSpec
-----------------------------------------------------------------------------
(* connectTunnel, which makes the session: it leaks no connection and      *)
(* returns no session with a connection missing, however the dials, their  *)
(* contexts and the functions that watch these contexts interleave.        *)

Dialling == step \in {"dial", "camouflage", "watch", "announce"}

(* Where connectTunnel is, against its context and its result. *)
PlaceInv ==
    /\ at = 5 => step = "over"
    /\ step = "over" <=> result # "none"
    /\ Dialling <=> ctx # "released"

(* The session holds the channels before the one that is dialled. *)
HeldInv ==
    /\ step = "begin" \/ Dialling => held = {c \in Channels : c < at}
    /\ step = "check" => held = {c \in Channels : c <= at}
    /\ result = "session" => held = Channels

(* An open connection has an owner that closes it: the session, or the     *)
(* dial it belongs to.                                                     *)
OpenInv ==
    /\ \A c \in Channels : conn[c] = "open" /\ result # "session" =>
           /\ result = "none"
           /\ c \in held \/ (c = at /\ step \in {"camouflage", "watch", "announce"})

(* No function closes a connection unless a context ended. *)
UndisturbedInv ==
    ~contextEnded =>
        /\ closing = {}
        /\ Dialling => ctx = "live"
        /\ step # "failed" /\ result # "error" => \A c \in held : conn[c] = "open"
        /\ step \in {"camouflage", "watch", "announce"} => conn[at] = "open"

ConnectInv == ConnectTypeOK /\ PlaceInv /\ HeldInv /\ OpenInv /\ UndisturbedInv
-----------------------------------------------------------------------------
LEMMA InitConnect == ConnectInit => ConnectInv
<1> SUFFICES ASSUME ConnectInit PROVE ConnectInv
    OBVIOUS
<1> USE DEF ConnectInit, Channels, Dialling
<1>1. ConnectTypeOK
    <2>1. armed \in BOOLEAN /\ callerEnded \in BOOLEAN /\ contextEnded \in BOOLEAN
        BY Zenon
    <2> QED
        BY <2>1 DEF ConnectTypeOK
<1>2. PlaceInv
    BY DEF PlaceInv
<1>3. HeldInv
    BY DEF HeldInv
<1>4. OpenInv
    BY DEF OpenInv
<1>5. UndisturbedInv
    BY DEF UndisturbedInv
<1> QED
    BY <1>1, <1>2, <1>3, <1>4, <1>5 DEF ConnectInv

LEMMA ConnectTypePreserved == ConnectInv /\ [ConnectNext]_connectVars => ConnectTypeOK'
<1> SUFFICES ASSUME ConnectInv, [ConnectNext]_connectVars PROVE ConnectTypeOK'
    OBVIOUS
<1> USE DEF ConnectInv, ConnectTypeOK, PlaceInv, Channels, Dialling
<1>1. CASE BeginDial
    BY <1>1 DEF BeginDial
<1>2. CASE Watch
    BY <1>2 DEF Watch, Arm
<1>3. CASE Checked
    BY <1>3 DEF Checked
<1>4. CASE DeferredCloseChannels
    BY <1>4 DEF DeferredCloseChannels
<1>5. CASE Dial
    BY <1>5 DEF Dial, Arm
<1>6. CASE Camouflage
    BY <1>6 DEF Camouflage, Disarm
<1>7. CASE Announce
    <2>1. armed' \in BOOLEAN /\ callerEnded' \in BOOLEAN /\ contextEnded' \in BOOLEAN
        BY <1>7, Zenon DEF Announce, Disarm
    <2> QED
        BY <1>7, <2>1 DEF Announce, Disarm
<1>8. CASE HandshakeFails
    BY <1>8 DEF HandshakeFails, Disarm, CloseFailed
<1>9. CASE CheckFails
    BY <1>9 DEF CheckFails, Command
<1>10. CASE DialTimesOut
    <2>1. armed' \in BOOLEAN /\ callerEnded' \in BOOLEAN /\ contextEnded' \in BOOLEAN
        BY <1>10, Zenon DEF DialTimesOut, EndContext
    <2> QED
        BY <1>10, <2>1 DEF DialTimesOut, EndContext
<1>11. CASE CallerEnds
    <2>1. armed' \in BOOLEAN /\ callerEnded' \in BOOLEAN /\ contextEnded' \in BOOLEAN
        BY <1>11, Zenon DEF CallerEnds, EndContext
    <2> QED
        BY <1>11, <2>1 DEF CallerEnds, EndContext
<1>12. ASSUME NEW c \in Channels, WatchCloses(c) PROVE ConnectTypeOK'
    BY <1>12 DEF WatchCloses
<1>13. CASE UNCHANGED connectVars
    BY <1>13 DEF connectVars
<1> QED
    BY <1>1, <1>2, <1>3, <1>4, <1>5, <1>6, <1>7, <1>8, <1>9, <1>10, <1>11, <1>12, <1>13 DEF ConnectNext, LocalStep

LEMMA PlacePreserved == ConnectInv /\ [ConnectNext]_connectVars => PlaceInv'
<1> SUFFICES ASSUME ConnectInv, [ConnectNext]_connectVars PROVE PlaceInv'
    OBVIOUS
<1> USE DEF ConnectInv, ConnectTypeOK, PlaceInv, Channels, Dialling
<1>1. CASE BeginDial
    BY <1>1 DEF BeginDial
<1>2. CASE Watch
    BY <1>2 DEF Watch, Arm
<1>3. CASE Checked
    BY <1>3 DEF Checked
<1>4. CASE DeferredCloseChannels
    BY <1>4 DEF DeferredCloseChannels
<1>5. CASE Dial
    BY <1>5 DEF Dial, Arm
<1>6. CASE Camouflage
    BY <1>6 DEF Camouflage, Disarm
<1>7. CASE Announce
    BY <1>7 DEF Announce, Disarm
<1>8. CASE HandshakeFails
    BY <1>8 DEF HandshakeFails, Disarm, CloseFailed
<1>9. CASE CheckFails
    BY <1>9 DEF CheckFails, Command
<1>10. CASE DialTimesOut
    BY <1>10 DEF DialTimesOut, EndContext
<1>11. CASE CallerEnds
    BY <1>11 DEF CallerEnds, EndContext
<1>12. ASSUME NEW c \in Channels, WatchCloses(c) PROVE PlaceInv'
    BY <1>12 DEF WatchCloses
<1>13. CASE UNCHANGED connectVars
    BY <1>13 DEF connectVars
<1> QED
    BY <1>1, <1>2, <1>3, <1>4, <1>5, <1>6, <1>7, <1>8, <1>9, <1>10, <1>11, <1>12, <1>13 DEF ConnectNext, LocalStep

LEMMA HeldPreserved == ConnectInv /\ [ConnectNext]_connectVars => HeldInv'
<1> SUFFICES ASSUME ConnectInv, [ConnectNext]_connectVars PROVE HeldInv'
    OBVIOUS
<1> USE DEF ConnectInv, ConnectTypeOK, PlaceInv, HeldInv, Channels, Dialling
<1>1. CASE BeginDial
    BY <1>1 DEF BeginDial
<1>2. CASE Watch
    BY <1>2 DEF Watch, Arm
<1>3. CASE Checked
    BY <1>3 DEF Checked
<1>4. CASE DeferredCloseChannels
    BY <1>4 DEF DeferredCloseChannels
<1>5. CASE Dial
    BY <1>5 DEF Dial, Arm
<1>6. CASE Camouflage
    BY <1>6 DEF Camouflage, Disarm
<1>7. CASE Announce
    BY <1>7 DEF Announce, Disarm
<1>8. CASE HandshakeFails
    BY <1>8 DEF HandshakeFails, Disarm, CloseFailed
<1>9. CASE CheckFails
    BY <1>9 DEF CheckFails, Command
<1>10. CASE DialTimesOut
    BY <1>10 DEF DialTimesOut, EndContext
<1>11. CASE CallerEnds
    BY <1>11 DEF CallerEnds, EndContext
<1>12. ASSUME NEW c \in Channels, WatchCloses(c) PROVE HeldInv'
    BY <1>12 DEF WatchCloses
<1>13. CASE UNCHANGED connectVars
    BY <1>13 DEF connectVars
<1> QED
    BY <1>1, <1>2, <1>3, <1>4, <1>5, <1>6, <1>7, <1>8, <1>9, <1>10, <1>11, <1>12, <1>13 DEF ConnectNext, LocalStep

LEMMA OpenPreserved == ConnectInv /\ [ConnectNext]_connectVars => OpenInv'
<1> SUFFICES ASSUME ConnectInv, [ConnectNext]_connectVars PROVE OpenInv'
    OBVIOUS
<1> USE DEF ConnectInv, ConnectTypeOK, PlaceInv, HeldInv, OpenInv, Channels, Dialling
<1>1. CASE BeginDial
    BY <1>1 DEF BeginDial
<1>2. CASE Watch
    BY <1>2 DEF Watch, Arm
<1>3. CASE Checked
    BY <1>3 DEF Checked
<1>4. CASE DeferredCloseChannels
    BY <1>4 DEF DeferredCloseChannels
<1>5. CASE Dial
    BY <1>5 DEF Dial, Arm
<1>6. CASE Camouflage
    BY <1>6 DEF Camouflage, Disarm
<1>7. CASE Announce
    BY <1>7 DEF Announce, Disarm
<1>8. CASE HandshakeFails
    BY <1>8 DEF HandshakeFails, Disarm, CloseFailed
<1>9. CASE CheckFails
    BY <1>9 DEF CheckFails, Command
<1>10. CASE DialTimesOut
    BY <1>10 DEF DialTimesOut, EndContext
<1>11. CASE CallerEnds
    BY <1>11 DEF CallerEnds, EndContext
<1>12. ASSUME NEW c \in Channels, WatchCloses(c) PROVE OpenInv'
    BY <1>12 DEF WatchCloses
<1>13. CASE UNCHANGED connectVars
    BY <1>13 DEF connectVars
<1> QED
    BY <1>1, <1>2, <1>3, <1>4, <1>5, <1>6, <1>7, <1>8, <1>9, <1>10, <1>11, <1>12, <1>13 DEF ConnectNext, LocalStep

LEMMA UndisturbedPreserved == ConnectInv /\ [ConnectNext]_connectVars => UndisturbedInv'
<1> SUFFICES ASSUME ConnectInv, [ConnectNext]_connectVars PROVE UndisturbedInv'
    OBVIOUS
<1> USE DEF ConnectInv, ConnectTypeOK, PlaceInv, HeldInv, UndisturbedInv, Channels, Dialling
<1>1. CASE BeginDial
    BY <1>1 DEF BeginDial
<1>2. CASE Watch
    BY <1>2 DEF Watch, Arm
<1>3. CASE Checked
    BY <1>3 DEF Checked
<1>4. CASE DeferredCloseChannels
    BY <1>4 DEF DeferredCloseChannels
<1>5. CASE Dial
    BY <1>5 DEF Dial, Arm
<1>6. CASE Camouflage
    BY <1>6 DEF Camouflage, Disarm
<1>7. CASE Announce
    BY <1>7 DEF Announce, Disarm
<1>8. CASE HandshakeFails
    BY <1>8 DEF HandshakeFails, Disarm, CloseFailed
<1>9. CASE CheckFails
    BY <1>9 DEF CheckFails, Command
<1>10. CASE DialTimesOut
    BY <1>10 DEF DialTimesOut, EndContext
<1>11. CASE CallerEnds
    BY <1>11 DEF CallerEnds, EndContext
<1>12. ASSUME NEW c \in Channels, WatchCloses(c) PROVE UndisturbedInv'
    BY <1>12 DEF WatchCloses
<1>13. CASE UNCHANGED connectVars
    BY <1>13 DEF connectVars
<1> QED
    BY <1>1, <1>2, <1>3, <1>4, <1>5, <1>6, <1>7, <1>8, <1>9, <1>10, <1>11, <1>12, <1>13 DEF ConnectNext, LocalStep

LEMMA ConnectInvariant == ConnectSpec => []ConnectInv
<1>1. ConnectInv /\ [ConnectNext]_connectVars => ConnectInv'
    BY ConnectTypePreserved, PlacePreserved, HeldPreserved, OpenPreserved, UndisturbedPreserved
    DEF ConnectInv
<1> QED
    BY InitConnect, <1>1, PTL DEF ConnectSpec
-----------------------------------------------------------------------------
(* An AfterFunc is armed only under a context that has not ended, and      *)
(* connectTunnel dials the channels in their order.                        *)
THEOREM ConnectTypeCorrect == ConnectSpec => []ConnectTypeOK
<1>1. ConnectInv => ConnectTypeOK
    BY DEF ConnectInv
<1> QED
    BY ConnectInvariant, <1>1, PTL

(* A connectTunnel that fails has closed every connection it opened.       *)
THEOREM NoLeak == ConnectSpec => []NoConnectionLeaks
<1>1. ConnectInv => NoConnectionLeaks
    BY DEF ConnectInv, OpenInv, NoConnectionLeaks
<1> QED
    BY ConnectInvariant, <1>1, PTL

(* The session connectTunnel returns holds four open connections that no   *)
(* AfterFunc is going to close, unless a context ended under a dial.       *)
THEOREM WholeSession == ConnectSpec => []SessionIsWhole
<1>1. ConnectInv => SessionIsWhole
    BY DEF ConnectInv, HeldInv, PlaceInv, UndisturbedInv, SessionIsWhole
<1> QED
    BY ConnectInvariant, <1>1, PTL
=============================================================================
