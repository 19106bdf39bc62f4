-------------------------- MODULE IncomingDataPath --------------------------
(***************************************************************************)
(* The way of a received datagram to the caller of ReadDataPackets         *)
(* (src/client.go): the receive goroutine of each session, the incoming    *)
(* queue that belongs to the client and outlives its sessions, the         *)
(* readers, and what the end of a session, a terminal error and Close do   *)
(* to them.                                                                *)
(*                                                                         *)
(* The queue is used as BoundedQueue describes it.  Sessions follow one    *)
(* another as ClientLifecycle has them, and the packet buffers are         *)
(* numbered in the order the gateway sent them.                            *)
(***************************************************************************)
EXTENDS Integers, Sequences, FiniteSets, Functions

CONSTANTS Readers, QueueLength,
          LastSession, LastPacket    \* bounds: sessions, packets received

ASSUME DataPathAssumption ==
    /\ QueueLength \in Nat \ {0} /\ LastSession \in Nat \ {0} /\ LastPacket \in Nat

VARIABLES
    session,             \* the number of the current session
    supervisor,          \* runs it, closes it, has ended
    receive, hand,       \* each session's runReceiveChannel, and the packet it has
    cancelled,           \* the sessions whose runContext was cancelled
    received,            \* packets the gateway has sent
    queue, queueClosed,  \* incomingDataPackets
    closed, terminal,    \* of the Client
    changes,             \* how often stateChanged was closed and made anew
    closing,             \* how far Close has come
    reader, seen,        \* each reader, and the stateChanged it took
    delivered,           \* packets readers were given
    released             \* how often each packet was released

sessionVars == <<session, supervisor, receive, hand, cancelled, received>>
clientVars  == <<closed, terminal, changes, closing>>
queueVars   == <<queue, queueClosed>>
readerVars  == <<reader, seen>>
vars == <<sessionVars, clientVars, queueVars, readerVars, delivered, released>>

Sessions == 1..LastSession
Packets  == 1..LastPacket

TypeOK ==
    /\ session \in Sessions
    /\ supervisor \in {"run", "close", "done"}
    /\ receive \in [Sessions -> {"off", "read", "push", "ended"}]
    /\ hand \in [Sessions -> Packets \cup {0}] /\ received \in 0..LastPacket
    /\ cancelled \subseteq Sessions
    /\ queue \in Seq(Packets) /\ Len(queue) <= QueueLength /\ queueClosed \in BOOLEAN
    /\ closed \in BOOLEAN /\ terminal \in BOOLEAN /\ changes \in Nat
    /\ closing \in {"no", "queue", "session", "supervisor", "drain", "done"}
    /\ reader \in [Readers -> {"out", "look", "pop", "wait"}] /\ seen \in [Readers -> Nat]
    /\ delivered \in Seq(Packets)
    /\ released \in [Packets -> 0..2]

Init ==
    /\ session = 1 /\ supervisor = "run"
    /\ receive = [s \in Sessions |-> IF s = 1 THEN "read" ELSE "off"]
    /\ hand = [s \in Sessions |-> 0]
    /\ cancelled = {} /\ received = 0
    /\ queue = <<>> /\ queueClosed = FALSE
    /\ closed = FALSE /\ terminal = FALSE /\ changes = 0 /\ closing = "no"
    /\ reader = [r \in Readers |-> "out"] /\ seen = [r \in Readers |-> 0]
    /\ delivered = <<>>
    /\ released = [p \in Packets |-> 0]
-----------------------------------------------------------------------------
(* Plausible slips in these files; no action uses them. *)
KeepsRefused(p) == released' = released
UnsignalledChange == changes' = changes
LeavesContext(s) == cancelled' = cancelled
ReconnectsAtOnce ==
    /\ supervisor = "close"
    /\ ~closed /\ ~terminal /\ session < LastSession
    /\ session' = session + 1 /\ supervisor' = "run"
    /\ receive' = [receive EXCEPT ![session + 1] = "read"]
    /\ UNCHANGED <<hand, cancelled, received, clientVars, queueVars, readerVars, delivered,
                   released>>
PushesUnbounded == ~queueClosed
-----------------------------------------------------------------------------
signalStateChanged == changes' = changes + 1

(* runReceiveChannel: readDataPacket returns a packet. *)
ReadPacket(s) ==
    /\ receive[s] = "read" /\ received < LastPacket
    /\ received' = received + 1
    /\ hand' = [hand EXCEPT ![s] = received + 1]
    /\ receive' = [receive EXCEPT ![s] = "push"]
    /\ UNCHANGED <<session, supervisor, cancelled, clientVars, queueVars, readerVars, delivered,
                   released>>

ReleaseRefused(p) == released' = [released EXCEPT ![p] = @ + 1]

(* An answer to a probe, and an empty packet, are released at once.  So is *)
(* a packet Push refuses.                                                  *)
GiveUpPacket(s) ==
    /\ receive[s] = "push"
    /\ ReleaseRefused(hand[s])
    /\ hand' = [hand EXCEPT ![s] = 0]
    /\ receive' = [receive EXCEPT ![s] = "read"]
    /\ UNCHANGED <<session, supervisor, cancelled, received, clientVars, queueVars, readerVars,
                   delivered>>

CanPush == ~queueClosed /\ Len(queue) < QueueLength

PushPacket(s) ==
    /\ receive[s] = "push" /\ CanPush
    /\ queue' = Append(queue, hand[s])
    /\ hand' = [hand EXCEPT ![s] = 0]
    /\ receive' = [receive EXCEPT ![s] = "read"]
    /\ UNCHANGED <<session, supervisor, cancelled, received, clientVars, queueClosed, readerVars,
                   delivered, released>>

(* The receive channel fails, or was closed with its session: the session  *)
(* fails, and this goroutine ends.                                         *)
ReceiveEnds(s) ==
    /\ receive[s] = "read"
    /\ receive' = [receive EXCEPT ![s] = "ended"]
    /\ UNCHANGED <<session, supervisor, hand, cancelled, received, clientVars, queueVars,
                   readerVars, delivered, released>>

stopRunning(s) == cancelled' = cancelled \cup {s}

(* runSession learns of the end of its session, for whatever reason, and   *)
(* closes it: the context first, then the channels.                        *)
SessionOver ==
    /\ supervisor = "run"
    /\ supervisor' = "close" /\ stopRunning(session)
    /\ UNCHANGED <<session, receive, hand, received, clientVars, queueVars, readerVars, delivered,
                   released>>

(* running.Wait *)
Awaited(s) == receive[s] = "ended"

(* The supervisor reconnects. *)
NextSession ==
    /\ supervisor = "close" /\ Awaited(session)
    /\ ~closed /\ ~terminal /\ session < LastSession
    /\ session' = session + 1 /\ supervisor' = "run"
    /\ receive' = [receive EXCEPT ![session + 1] = "read"]
    /\ UNCHANGED <<hand, cancelled, received, clientVars, queueVars, readerVars, delivered,
                   released>>

(* setTerminalError, by the supervisor or by the event callback. *)
Terminate ==
    /\ ~closed /\ ~terminal
    /\ terminal' = TRUE /\ signalStateChanged
    /\ UNCHANGED <<sessionVars, closed, closing, queueVars, readerVars, delivered, released>>

(* The supervisor ends; closeSupervisorState. *)
SupervisorEnds ==
    /\ supervisor = "close" /\ Awaited(session)
    /\ supervisor' = "done"
    /\ closed' = (closed \/ ~terminal) /\ signalStateChanged
    /\ UNCHANGED <<session, receive, hand, cancelled, received, terminal, closing, queueVars,
                   readerVars, delivered, released>>
-----------------------------------------------------------------------------
CloseLocks ==
    /\ closing = "no"
    /\ closed' = TRUE /\ signalStateChanged /\ closing' = "queue"
    /\ UNCHANGED <<sessionVars, terminal, queueVars, readerVars, delivered, released>>

CloseQueue ==
    /\ closing = "queue"
    /\ queueClosed' = TRUE /\ closing' = "session"
    /\ UNCHANGED <<sessionVars, closed, terminal, changes, queue, readerVars, delivered, released>>

CloseSession ==
    /\ closing = "session"
    /\ stopRunning(session) /\ closing' = "supervisor"
    /\ UNCHANGED <<session, supervisor, receive, hand, received, closed, terminal, changes,
                   queueVars, readerVars, delivered, released>>

SupervisorAwaited ==
    /\ closing = "supervisor" /\ supervisor = "done" /\ closing' = "drain"
    /\ UNCHANGED <<sessionVars, closed, terminal, changes, queueVars, readerVars, delivered,
                   released>>

Drain ==
    /\ queue' = <<>>
    /\ released' = [p \in Packets |-> IF p \in Range(queue) THEN released[p] + 1 ELSE released[p]]

CloseDrains ==
    /\ closing = "drain"
    /\ Drain /\ closing' = "done"
    /\ UNCHANGED <<sessionVars, closed, terminal, changes, queueClosed, readerVars, delivered>>
-----------------------------------------------------------------------------
ReaderAt(r, label) == reader' = [reader EXCEPT ![r] = label]

ReadDataPackets(r) ==
    /\ reader[r] = "out"
    /\ ReaderAt(r, "look")
    /\ UNCHANGED <<sessionVars, clientVars, queueVars, seen, delivered, released>>

(* The reader takes stateChanged and the state under one lock, *)
ReaderLooks(r) ==
    /\ reader[r] = "look"
    /\ ReaderAt(r, IF closed \/ terminal THEN "out" ELSE "pop")
    /\ seen' = [seen EXCEPT ![r] = changes]
    /\ UNCHANGED <<sessionVars, clientVars, queueVars, delivered, released>>

(* then asks the queue: for one packet, or for all there are, *)
ReaderPops(r) ==
    /\ reader[r] = "pop"
    /\ \/ queue = <<>> /\ ReaderAt(r, "wait") /\ UNCHANGED <<queue, delivered>>
       \/ \E n \in {1, Len(queue)} :
              /\ queue # <<>>
              /\ ReaderAt(r, "out")
              /\ delivered' = delivered \o SubSeq(queue, 1, n)
              /\ queue' = SubSeq(queue, n + 1, Len(queue))
    /\ UNCHANGED <<sessionVars, clientVars, queueClosed, seen, released>>

(* and waits for either to change, or for its own context. *)
ReaderWakes(r) ==
    /\ reader[r] = "wait"
    /\ changes # seen[r] \/ queue # <<>> \/ queueClosed
    /\ ReaderAt(r, "look")
    /\ UNCHANGED <<sessionVars, clientVars, queueVars, seen, delivered, released>>

ReaderCancelled(r) ==
    /\ reader[r] = "wait"
    /\ ReaderAt(r, "out")
    /\ UNCHANGED <<sessionVars, clientVars, queueVars, seen, delivered, released>>

ReaderStep(r) == ReaderLooks(r) \/ ReaderPops(r) \/ ReaderWakes(r)

CloseStep == CloseQueue \/ CloseSession \/ SupervisorAwaited \/ CloseDrains

Next ==
    \/ \E s \in Sessions : ReadPacket(s) \/ GiveUpPacket(s) \/ PushPacket(s) \/ ReceiveEnds(s)
    \/ SessionOver \/ NextSession \/ Terminate \/ SupervisorEnds
    \/ CloseLocks \/ CloseStep
    \/ \E r \in Readers : ReadDataPackets(r) \/ ReaderCancelled(r) \/ ReaderStep(r)

Spec == Init /\ [][Next]_vars

ChannelClosed(s) ==
    s < session \/ supervisor # "run" \/ closing \in {"supervisor", "drain", "done"}

(* What Close does, and what readers do when nothing holds them, is done.  *)
(* Push returns when its context or the queue ends, and a read when its    *)
(* channel is closed.  A client that is over closes its session and ends   *)
(* its supervisor.                                                         *)
Fairness ==
    /\ WF_vars(CloseStep)
    /\ \A r \in Readers : WF_vars(ReaderStep(r))
    /\ \A s \in Sessions :
           /\ WF_vars((s \in cancelled \/ queueClosed) /\ (GiveUpPacket(s) \/ PushPacket(s)))
           /\ WF_vars(ChannelClosed(s) /\ ReceiveEnds(s))
    /\ WF_vars((closed \/ terminal) /\ SessionOver)
    /\ WF_vars((closed \/ terminal) /\ SupervisorEnds)

FairSpec == Spec /\ Fairness
-----------------------------------------------------------------------------
InHand == {hand[s] : s \in Sessions}
Occurrences(p, s) == Cardinality({i \in DOMAIN s : s[i] = p})

(* Every packet received has one owner: a receive goroutine, the queue, a  *)
(* reader, or the pool it was released to, once, though its session, the   *)
(* queue and the client may end at any moment.  When Close has returned    *)
(* none is left in a hand or in the queue, and none comes after it.        *)
IncomingOwnedOnce ==
    /\ \A p \in 1..received :
           (IF p \in InHand THEN 1 ELSE 0) + Occurrences(p, queue) + Occurrences(p, delivered)
               + released[p] = 1
    /\ closing = "done" => queue = <<>> /\ InHand = {0}

(* Packets reach the readers in the order the gateway sent them, over the  *)
(* end of one session and the start of the next: the goroutine of the old  *)
(* one, which may hold a packet the full queue did not take, has ended.    *)
DeliveredInOrder ==
    \A i, j \in DOMAIN delivered : i < j => delivered[i] < delivered[j]

(* A reader that waits learns of Close and of a terminal error. *)
ReadersEnd ==
    \A r \in Readers : (closed \/ terminal) /\ reader[r] = "wait" ~> reader[r] = "out"

(* The close of a session gets its receive goroutine back, though nobody   *)
(* reads, the queue is full, and the queue outlives the session.           *)
SessionCloseReturns ==
    \A s \in Sessions : session = s /\ supervisor = "close" ~> Awaited(s)
=============================================================================
