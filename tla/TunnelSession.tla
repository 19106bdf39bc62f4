---------------------------- MODULE TunnelSession ----------------------------
(***************************************************************************)
(* src/session.go and src/data_packet_writer.go: one connected tunnel      *)
(* session with the goroutines Start launches, the callers that hand it    *)
(* packets, the callers of Fail, and Close.                                *)
(*                                                                         *)
(* Start and Close run in different goroutines when the client is closed   *)
(* while the supervisor starts a session, so each is taken step by step.   *)
(* The outgoing queue is used as BoundedQueue describes it: DataPacketQueue *)
(* shows that the ring keeps that promise and loses no wake-up.            *)
(***************************************************************************)
EXTENDS Integers, Sequences, FiniteSets, Functions

CONSTANTS Packets,       \* outgoing packet buffers
          QueueLength,   \* capacity of the outgoing queue
          HasProbe       \* dataKeepalive # nil

ASSUME SessionAssumption ==
    /\ QueueLength \in Nat \ {0}
    /\ HasProbe \in BOOLEAN

VARIABLES
    ready, failure,      \* the flag, and the error Fail put into done
    startStep,           \* how far Start has come, or Abandoned
    body,                \* how far the body of closeOnce has come
    cancelled,           \* runContext
    channelsClosed,      \* closeChannels was called
    outgoing, closed,    \* the outgoing queue
    incomingOpen,        \* the client's incoming queue takes packets
    pc,                  \* each goroutine
    batch,               \* the writer's packetBuffers
    writeAccess,         \* who holds the mutex
    fresh,               \* packets no one has handed over yet
    released,            \* how often each buffer was released
    dropped              \* droppedOutgoingDataPackets

sessionState == <<ready, failure>>
queueVars    == <<outgoing, closed>>
bufferVars   == <<batch, fresh, released, dropped>>
vars == <<ready, failure, startStep, body, cancelled, channelsClosed, outgoing, closed,
          incomingOpen, pc, batch, writeAccess, fresh, released, dropped>>

(* The order in which Start launches them. *)
Launches == <<"writer", "keepalive", "command", "receive", "probe">>
Goroutines == {"writer", "keepalive", "command", "receive", "probe"}
Abandoned == -1
LastStart == IF HasProbe THEN 7 ELSE 6

Labels == {"off", "pop", "empty", "wait", "popped", "write", "lock", "sending", "drain",
           "run", "push", "ended"}
CloseSteps == {"no", "stop", "queue", "channels", "wait", "drain", "done"}

TypeOK ==
    /\ ready \in BOOLEAN
    /\ failure \in {"none", "closed", "suspended", "restart", "event", "lost"}
    /\ startStep \in Abandoned..LastStart
    /\ body \in CloseSteps
    /\ cancelled \in BOOLEAN /\ channelsClosed \in BOOLEAN
    /\ outgoing \in Seq(Packets) /\ Len(outgoing) <= QueueLength
    /\ closed \in BOOLEAN /\ incomingOpen \in BOOLEAN
    /\ pc \in [Goroutines -> Labels]
    /\ batch \in Seq(Packets)
    /\ writeAccess \in {"none", "writer", "probe"}
    /\ fresh \in SUBSET Packets
    /\ released \in [Packets -> 0..2]
    /\ dropped \in Nat

(* connectTunnel returned a session. *)
Init ==
    /\ ready = FALSE /\ failure = "none"
    /\ startStep = 0 /\ body = "no"
    /\ cancelled = FALSE /\ channelsClosed = FALSE
    /\ outgoing = <<>> /\ closed = FALSE /\ incomingOpen = TRUE
    /\ pc = [g \in Goroutines |-> "off"]
    /\ batch = <<>> /\ writeAccess = "none"
    /\ fresh = Packets
    /\ released = [p \in Packets |-> 0]
    /\ dropped = 0

Goto(g, label) == pc' = [pc EXCEPT ![g] = label]
-----------------------------------------------------------------------------
(* Plausible slips in these files; no action uses them. *)

FailAgain(why)  == failure' = why /\ ready' = FALSE
RoomForgetsLength == IF closed THEN 0 ELSE QueueLength
ChannelsLeftOpen ==
    /\ body = "channels"
    /\ body' = "wait"
    /\ UNCHANGED <<sessionState, startStep, cancelled, channelsClosed, queueVars,
                   incomingOpen, pc, bufferVars, writeAccess>>
-----------------------------------------------------------------------------

(* buf.ReleaseMulti.  A third release would be one too many, as the second is. *)
Release(buffers) ==
    released' = [p \in Packets |-> IF p \in Range(buffers) /\ released[p] < 2
                                   THEN released[p] + 1 ELSE released[p]]

dropOutboundDataPackets(buffers) ==
    /\ Release(buffers)
    /\ dropped' = dropped + Len(buffers)

(* Fail: failOnce lets only the first error through. *)
Fail(why) ==
    IF failure = "none" THEN failure' = why /\ ready' = FALSE
                        ELSE UNCHANGED sessionState
-----------------------------------------------------------------------------
(* Start: runContext and stopRunning, the ready flag, then the goroutines. *)
StartContext ==
    /\ startStep = 0
    /\ startStep' = 1
    /\ UNCHANGED <<ready, failure, body, cancelled, channelsClosed, queueVars, incomingOpen,
                   pc, bufferVars, writeAccess>>

(* The client was over when setCurrentSession looked: Start is not called. *)
Abandon ==
    /\ startStep = 0 /\ body = "no"
    /\ startStep' = Abandoned
    /\ UNCHANGED <<ready, failure, body, cancelled, channelsClosed, queueVars, incomingOpen,
                   pc, bufferVars, writeAccess>>

StartReady ==
    /\ startStep = 1
    /\ startStep' = 2
    /\ ready' = TRUE
    /\ UNCHANGED <<failure, body, cancelled, channelsClosed, queueVars, incomingOpen, pc,
                   bufferVars, writeAccess>>

Launch ==
    /\ startStep \in 2..(LastStart - 1)
    /\ startStep' = startStep + 1
    /\ LET g == Launches[startStep - 1]
       IN  Goto(g, IF g = "writer" THEN "pop" ELSE "run")
    /\ UNCHANGED <<ready, failure, body, cancelled, channelsClosed, queueVars, incomingOpen,
                   bufferVars, writeAccess>>

(* Suspend, RestartSession or a failed callback calls Fail from outside. *)
FailFromOutside(why) ==
    /\ failure = "none" /\ startStep # Abandoned
    /\ Fail(why)
    /\ UNCHANGED <<startStep, body, cancelled, channelsClosed, queueVars, incomingOpen, pc,
                   bufferVars, writeAccess>>

(* options.Context, the parent of runContext, ends. *)
ContextDone ==
    /\ startStep > 0 /\ ~cancelled
    /\ cancelled' = TRUE
    /\ UNCHANGED <<ready, failure, startStep, body, channelsClosed, queueVars, incomingOpen,
                   pc, bufferVars, writeAccess>>

(* Client.Close closes the incoming queue before it closes the session. *)
IncomingCloses ==
    /\ incomingOpen
    /\ incomingOpen' = FALSE
    /\ UNCHANGED <<ready, failure, startStep, body, cancelled, channelsClosed, queueVars, pc,
                   bufferVars, writeAccess>>
-----------------------------------------------------------------------------
(* Close, the body of closeOnce.  The supervisor closes a session it has   *)
(* started or abandoned; only Client.Close can come in between.            *)
CloseBegins ==
    /\ body = "no"
    /\ startStep \in {Abandoned, LastStart} \/ ~incomingOpen
    /\ body' = "stop"
    /\ ready' = FALSE
    /\ failure' = IF failure = "none" THEN "closed" ELSE failure
    /\ UNCHANGED <<startStep, cancelled, channelsClosed, queueVars, incomingOpen, pc,
                   bufferVars, writeAccess>>

(* stopRunning, unless it is nil.  Client.Close reads it without a lock    *)
(* while the supervisor may be writing it, so it may see nil though Start  *)
(* has set it; the supervisor's own Close sees what its goroutine wrote.   *)
CloseStops ==
    /\ body = "stop"
    /\ body' = "queue"
    /\ cancelled' \in IF startStep <= 0 THEN {cancelled}
                      ELSE IF incomingOpen THEN {TRUE} ELSE {cancelled, TRUE}
    /\ UNCHANGED <<sessionState, startStep, channelsClosed, queueVars, incomingOpen, pc,
                   bufferVars, writeAccess>>

CloseQueue ==
    /\ body = "queue"
    /\ body' = "channels"
    /\ closed' = TRUE
    /\ UNCHANGED <<sessionState, startStep, cancelled, channelsClosed, outgoing, incomingOpen,
                   pc, bufferVars, writeAccess>>

CloseChannels ==
    /\ body = "channels"
    /\ body' = "wait"
    /\ channelsClosed' = TRUE
    /\ UNCHANGED <<sessionState, startStep, cancelled, queueVars, incomingOpen, pc,
                   bufferVars, writeAccess>>

Live == {g \in Goroutines : pc[g] \notin {"off", "ended"}}

(* running.Wait knows the goroutines launched so far. *)
CloseWaits ==
    /\ body = "wait"
    /\ Live = {}
    /\ body' = "drain"
    /\ UNCHANGED <<sessionState, startStep, cancelled, channelsClosed, queueVars,
                   incomingOpen, pc, bufferVars, writeAccess>>

CloseDrains ==
    /\ body = "drain"
    /\ body' = "done"
    /\ Release(outgoing)
    /\ outgoing' = <<>>
    /\ UNCHANGED <<sessionState, startStep, cancelled, channelsClosed, closed, incomingOpen,
                   pc, batch, fresh, dropped, writeAccess>>
-----------------------------------------------------------------------------
(* What TryPushBatch still takes. *)
Room == IF closed THEN 0 ELSE QueueLength - Len(outgoing)

(* EnqueueDataPacketBuffers by a caller that found the session ready once, *)
(* however long ago: what the queue does not take is released and counted. *)
Enqueue(packets) ==
    LET pushed == IF Len(packets) <= Room THEN Len(packets) ELSE Room
        rest   == SubSeq(packets, pushed + 1, Len(packets))
    IN  /\ startStep >= 2
        /\ Range(packets) \subseteq fresh
        /\ fresh' = fresh \ Range(packets)
        /\ outgoing' = outgoing \o SubSeq(packets, 1, pushed)
        /\ dropOutboundDataPackets(rest)
        /\ UNCHANGED <<sessionState, startStep, body, cancelled, channelsClosed, closed,
                       incomingOpen, pc, batch, writeAccess>>

(* runOutgoingDataPacketWriter *)
WriterPops ==
    /\ pc["writer"] = "pop"
    /\ batch' = outgoing
    /\ outgoing' = <<>>
    /\ Goto("writer", IF outgoing = <<>> THEN "empty" ELSE "popped")
    /\ UNCHANGED <<sessionState, startStep, body, cancelled, channelsClosed, closed,
                   incomingOpen, fresh, released, dropped, writeAccess>>

(* Nothing popped: the queue is closed, or the writer waits for Wake. *)
WriterFoundNothing ==
    /\ \/ pc["writer"] = "empty" /\ Goto("writer", IF closed THEN "drain" ELSE "wait")
       \/ /\ pc["writer"] = "wait"
          /\ outgoing # <<>> \/ closed
          /\ Goto("writer", "pop")
    /\ UNCHANGED <<sessionState, startStep, body, cancelled, channelsClosed, queueVars,
                   incomingOpen, bufferVars, writeAccess>>

(* Something popped: a closed queue means the tunnel is over. *)
WriterChecksClosed ==
    /\ pc["writer"] = "popped"
    /\ IF closed
       THEN /\ dropOutboundDataPackets(batch)
            /\ batch' = <<>>
            /\ Goto("writer", "pop")
       ELSE Goto("writer", "write") /\ UNCHANGED <<released, dropped, batch>>
    /\ UNCHANGED <<sessionState, startStep, body, cancelled, channelsClosed, queueVars,
                   incomingOpen, fresh, writeAccess>>

(* The deferred Drain of the writer. *)
WriterDrains ==
    /\ pc["writer"] = "drain"
    /\ Release(outgoing)
    /\ outgoing' = <<>>
    /\ Goto("writer", "ended")
    /\ UNCHANGED <<sessionState, startStep, body, cancelled, channelsClosed, closed,
                   incomingOpen, batch, fresh, dropped, writeAccess>>
-----------------------------------------------------------------------------
(* WriteDataPacketBuffers, by the writer with its batch or by the probe    *)
(* with a buffer of its own: every way out releases the buffers.  After an *)
(* error the writer goes on and the probe's goroutine ends.                *)
Buffers(g) == IF g = "writer" THEN batch ELSE <<>>

(* A slip no action uses: the buffers of a failed write are forgotten. *)
WriteLeaks(g, failed) ==
    /\ Goto(g, IF g = "writer" THEN "pop" ELSE IF failed THEN "ended" ELSE "run")
    /\ Release(IF failed THEN <<>> ELSE Buffers(g))
    /\ batch' = IF g = "writer" THEN <<>> ELSE batch

WriteReturns(g, failed) ==
    /\ Goto(g, IF g = "writer" THEN "pop" ELSE IF failed THEN "ended" ELSE "run")
    /\ Release(Buffers(g))
    /\ batch' = IF g = "writer" THEN <<>> ELSE batch

WriteChecksReady(g) ==
    /\ pc[g] = "write"
    /\ IF ready
       THEN Goto(g, "lock") /\ UNCHANGED <<sessionState, released, batch>>
       ELSE /\ WriteReturns(g, TRUE)
            /\ IF g = "probe" THEN Fail("lost") ELSE UNCHANGED sessionState
    /\ UNCHANGED <<startStep, body, cancelled, channelsClosed, queueVars, incomingOpen,
                   fresh, dropped, writeAccess>>

(* The mutex, and the filter: some datagrams are not published, and are    *)
(* counted; if none is left there is nothing to write.  A probe passes,    *)
(* its destination having been tried when it was made.                     *)
WriteFilters(g) ==
    /\ pc[g] = "lock"
    /\ writeAccess = "none"
    /\ \E filtered \in 0..Len(Buffers(g)) :
          /\ dropped' = dropped + filtered
          /\ IF filtered > 0 /\ filtered = Len(Buffers(g))
             THEN WriteReturns(g, FALSE) /\ UNCHANGED writeAccess
             ELSE writeAccess' = g /\ Goto(g, "sending") /\ UNCHANGED <<released, batch>>
    /\ UNCHANGED <<sessionState, startStep, body, cancelled, channelsClosed, queueVars,
                   incomingOpen, fresh>>

(* WriteTo on the upload channel, until it is done, it fails, its deadline *)
(* passes, or the channel is closed under it.                              *)
WriteEnds(g) ==
    /\ pc[g] = "sending"
    /\ writeAccess' = "none"
    /\ \/ ~channelsClosed /\ WriteReturns(g, FALSE) /\ UNCHANGED sessionState
       \/ WriteReturns(g, TRUE) /\ Fail("lost")
    /\ UNCHANGED <<startStep, body, cancelled, channelsClosed, queueVars, incomingOpen,
                   fresh, dropped>>
-----------------------------------------------------------------------------
(* runKeepalive, runReceiveChannel, runDataChannelKeepalive and            *)
(* runCommandChannel end by failing the session.                           *)
EndsByFailing(g) ==
    /\ pc[g] = "run"
    /\ g \in {"keepalive", "command", "receive", "probe"}
    /\ Fail("lost")
    /\ Goto(g, "ended")
    /\ UNCHANGED <<startStep, body, cancelled, channelsClosed, queueVars, incomingOpen,
                   bufferVars, writeAccess>>

(* The gateway closes the command channel: io.EOF is no error of Copy. *)
CommandEOF ==
    /\ pc["command"] = "run"
    /\ ~channelsClosed
    /\ Goto("command", "ended")
    /\ UNCHANGED <<sessionState, startStep, body, cancelled, channelsClosed, queueVars,
                   incomingOpen, bufferVars, writeAccess>>

(* A datagram arrives for the incoming queue.  Those still in the reader   *)
(* when the channel closes are as if they had come before.                 *)
ReceivePacket ==
    /\ pc["receive"] = "run"
    /\ ~channelsClosed
    /\ Goto("receive", "push")
    /\ UNCHANGED <<sessionState, startStep, body, cancelled, channelsClosed, queueVars,
                   incomingOpen, bufferVars, writeAccess>>

(* pushIncomingDataPacketContext returns: pushed, if there is room, or *)
(* given up because the context ended or the queue is closed.          *)
PushEnds ==
    /\ pc["receive"] = "push"
    /\ Goto("receive", "run")
    /\ UNCHANGED <<sessionState, startStep, body, cancelled, channelsClosed, queueVars,
                   incomingOpen, bufferVars, writeAccess>>

(* The probe's timer finds the upload channel idle. *)
ProbeFires ==
    /\ pc["probe"] = "run"
    /\ Goto("probe", "write")
    /\ UNCHANGED <<sessionState, startStep, body, cancelled, channelsClosed, queueVars,
                   incomingOpen, bufferVars, writeAccess>>
-----------------------------------------------------------------------------
StartStep == StartReady \/ Launch
CloseStep == CloseStops \/ CloseQueue \/ CloseChannels \/ CloseWaits \/ CloseDrains
Writers == {"writer", "probe"}

(* What a goroutine does without waiting for anyone outside.               *)
WriterStep ==
    \/ WriterPops \/ WriterFoundNothing \/ WriterChecksClosed \/ WriterDrains
WriteStep(g) == WriteChecksReady(g) \/ WriteFilters(g)

Next ==
    \/ StartContext \/ Abandon \/ StartStep
    \/ \E why \in {"suspended", "restart", "event"} : FailFromOutside(why)
    \/ ContextDone \/ IncomingCloses
    \/ CloseBegins \/ CloseStep
    \/ \E p \in Packets : Enqueue(<<p>>) \/ \E q \in Packets \ {p} : Enqueue(<<p, q>>)
    \/ WriterStep
    \/ \E g \in Writers : WriteStep(g) \/ WriteEnds(g)
    \/ \E g \in Goroutines : EndsByFailing(g)
    \/ CommandEOF \/ ReceivePacket \/ PushEnds \/ ProbeFires

Spec == Init /\ [][Next]_vars

(* Start and Close, once begun, go on; goroutines run.  A blocked write or *)
(* read need not end before its channel is closed, nor a Push before its   *)
(* context or its queue ends; a closed channel ends both, and the timers   *)
(* of keepalive and probe, which then find it closed, fire.                *)
Fairness ==
    /\ WF_vars(StartStep)
    /\ WF_vars(CloseStep)
    /\ WF_vars(WriterStep)
    /\ \A g \in Writers : WF_vars(WriteStep(g)) /\ WF_vars(channelsClosed /\ WriteEnds(g))
    /\ \A g \in {"keepalive", "command", "receive"} :
           WF_vars(channelsClosed /\ EndsByFailing(g))
    /\ WF_vars((cancelled \/ ~incomingOpen) /\ PushEnds)
    /\ WF_vars(channelsClosed /\ (EndsByFailing("probe") \/ ProbeFires))

FairSpec == Spec /\ Fairness
-----------------------------------------------------------------------------
Occurrences(p, s) == Cardinality({i \in 1..Len(s) : s[i] = p})

(* Every packet buffer has one owner: the caller that has not handed it    *)
(* over, the queue, the writer's batch, or the pool it was released to,    *)
(* once, on whichever of the ways out of Enqueue, the writer, Write and    *)
(* Close its session's end took it.  A closed session keeps none: its      *)
(* queue is empty when Close has returned and stays so, and a writer that  *)
(* Start launched behind Close's back may take the backlog only to drop it. *)
BuffersOwnedOnce ==
    /\ \A p \in Packets :
           (IF p \in fresh THEN 1 ELSE 0) + Occurrences(p, outgoing) + Occurrences(p, batch)
               + released[p] = 1
    /\ body = "done" => outgoing = <<>> /\ pc["writer"] \notin {"write", "lock", "sending"}

(* The session is what the client takes it for: see ClientSession. *)
Contract ==
    INSTANCE ClientSession WITH
        Sessions <- {1},
        ready    <- [s \in {1} |-> ready],
        failure  <- [s \in {1} |-> failure],
        running  <- [s \in {1} |-> startStep >= 2],
        life     <- [s \in {1} |-> IF body = "no" THEN "open"
                                   ELSE IF body = "done" THEN "closed" ELSE "closing"]
ImplementsClientSession == Contract!SessionSpec

(* Close ends, though no one reads what the tunnel received and a write is *)
(* stuck: the order in which it stops things lets every goroutine it waits *)
(* for go.  And no goroutine outlives its session for good, not even one   *)
(* that Start launched after Close had looked for it.                      *)
CloseEndsSession == body = "stop" ~> [](body = "done" /\ Live = {})

(* session.go says the command channel "only reports that the gateway      *)
(* dropped the session": when it has ended, the session has failed.        *)
CommandChannelReports == pc["command"] = "ended" => failure # "none"
=============================================================================
