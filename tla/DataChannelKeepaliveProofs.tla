--------------------- MODULE DataChannelKeepaliveProofs ---------------------
(***************************************************************************)
(* For every interval, timeout and write deadline: the upload channel of a *)
(* live session stays warm, silence is noticed in time, and a gateway that *)
(* answers its probes is not dropped; each as far as the connection takes  *)
(* the write deadline.                                                     *)
(***************************************************************************)
EXTENDS DataChannelKeepalive, TLAPS

(* The timer never fires later than an interval after the last write, and  *)
(* a write that began in that time ends within its deadline, if it has one *)
(* at all: a refused one was noted.                                        *)
TimerInv ==
    /\ phase = "wait" => now <= due /\ due <= lastWrite + Interval
    /\ phase = "judge" \/ (phase = "probe" /\ holder = "none") => now <= lastWrite + Interval
    /\ phase # "done" /\ holder # "none" /\ writeEnds # Never =>
           /\ now <= writeEnds
           /\ writeEnds <= now + WriteTimeout
           /\ writeEnds <= lastWrite + Interval + WriteTimeout
    /\ holder # "none" /\ writeEnds = Never => writeDeadlineFailed

(* How long the silence of the receive channel may still go unjudged. *)
Judged == Later(lastInbound + Timeout, lastPostponed)

(* A probe is waited for only while the silence is not too long, or while  *)
(* another write puts the judgement off; so no write but such a one comes  *)
(* more than a write's own time behind Judged.                             *)
SilenceInv ==
    Timeout > 0 /\ phase # "done" =>
        /\ lastWrite <= Judged + WriteTimeout
        /\ phase = "probe" /\ holder = "none" => now <= Judged
        /\ phase = "probe" /\ holder # "none" /\ writeEnds # Never =>
               writeEnds <= Judged + WriteTimeout

(* Between a probe and its answer an answer is due; after it the receive   *)
(* channel has spoken later than the upload channel.  How old the channel  *)
(* may be when the answer comes is bounded by the writes' deadlines, and   *)
(* without them by the answer preceding the next look at it.               *)
AnswerInv ==
    prompt /\ ~applicationWrote =>
        /\ holder # "writer"
        /\ replyDue = Never /\ phase # "done" => lastInbound >= lastWrite
        /\ replyDue # Never /\ phase # "done" =>
               /\ now <= replyDue
               /\ ~writeDeadlineFailed => replyDue <= lastInbound + Interval + WriteTimeout + Delay
               /\ Delay < Interval => replyDue <= lastWrite + Delay
        /\ phase = "wait" => due = lastWrite + Interval
        /\ phase \in {"judge", "probe"} => lastWrite + Interval <= now
        /\ PromptGatewayKept

KeepaliveInv == TypeOK /\ TimerInv /\ SilenceInv /\ AnswerInv
-----------------------------------------------------------------------------
LEMMA InitKeepalive == Init => KeepaliveInv
<1> SUFFICES ASSUME Init PROVE KeepaliveInv
    OBVIOUS
<1> USE DataKeepaliveAssumption DEF Init, Never
<1>1. TypeOK
    <2>1. /\ silent \in BOOLEAN /\ applicationWrote \in BOOLEAN
          /\ unanswered \in BOOLEAN /\ prompt \in BOOLEAN /\ writeDeadlineFailed \in BOOLEAN
        BY Zenon
    <2>2. /\ now \in Nat /\ due \in Nat /\ writeEnds \in Nat \cup {Never}
          /\ lastWrite \in 0..now /\ lastInbound \in 0..now /\ lastPostponed \in 0..now
        OBVIOUS
    <2> QED
        BY <2>1, <2>2 DEF TypeOK
<1>2. TimerInv
    BY DEF TimerInv
<1>3. SilenceInv
    BY DEF SilenceInv, Judged, Later
<1>4. AnswerInv
    BY DEF AnswerInv, PromptGatewayKept
<1> QED
    BY <1>1, <1>2, <1>3, <1>4 DEF KeepaliveInv

LEMMA TypePreserved == KeepaliveInv /\ [Next]_vars => TypeOK'
<1> SUFFICES ASSUME KeepaliveInv, [Next]_vars PROVE TypeOK'
    OBVIOUS
<1> USE DataKeepaliveAssumption DEF KeepaliveInv, TypeOK, marks, upload, gateway, writer
<1>1. CASE FiresActive
    BY <1>1 DEF FiresActive, RestOfInterval
<1>2. CASE FiresIdle
    BY <1>2 DEF FiresIdle
<1>3. CASE Drop
    BY <1>3 DEF Drop
<1>4. CASE Spare
    BY <1>4 DEF Spare
<1>5. CASE ProbeLocks
    BY <1>5 DEF ProbeLocks, SetWriteDeadline, CanLockForProbe
<1>6. CASE ProbeWritten
    BY <1>6 DEF ProbeWritten, Unlock, Never
<1>7. CASE WriterLocks
    BY <1>7 DEF WriterLocks, SetWriteDeadline
<1>8. CASE WriterWritten
    BY <1>8 DEF WriterWritten, Unlock
<1>9. CASE SessionEnds
    BY <1>9 DEF SessionEnds
<1>10. CASE Inbound
    <2>1. unanswered' \in BOOLEAN
        BY <1>10, Zenon DEF Inbound
    <2>2. replyDue' \in Nat \cup {Never}
        BY <1>10 DEF Inbound, Never
    <2> QED
        BY <1>10, <2>1, <2>2 DEF Inbound, Never
<1>11. CASE Tick
    BY <1>11 DEF Tick
<1>12. CASE UNCHANGED vars
    BY <1>12 DEF vars
<1> QED
    BY <1>1, <1>2, <1>3, <1>4, <1>5, <1>6, <1>7, <1>8, <1>9, <1>10, <1>11, <1>12 DEF Next

LEMMA TimerPreserved == KeepaliveInv /\ [Next]_vars => TimerInv'
<1> SUFFICES ASSUME KeepaliveInv, [Next]_vars PROVE TimerInv'
    OBVIOUS
<1> USE DataKeepaliveAssumption
    DEF KeepaliveInv, TypeOK, TimerInv, marks, upload, gateway, writer
<1>1. CASE FiresActive
    BY <1>1 DEF FiresActive, RestOfInterval
<1>2. CASE FiresIdle
    BY <1>2 DEF FiresIdle
<1>3. CASE Drop
    BY <1>3 DEF Drop
<1>4. CASE Spare
    BY <1>4 DEF Spare
<1>5. CASE ProbeLocks
    <2>1. writeEnds' = Never => writeDeadlineFailed'
        BY <1>5, Zenon DEF ProbeLocks, SetWriteDeadline
    <2> QED
        BY <1>5, <2>1 DEF ProbeLocks, SetWriteDeadline, CanLockForProbe, Never
<1>6. CASE ProbeWritten
    BY <1>6 DEF ProbeWritten, Unlock
<1>7. CASE WriterLocks
    <2>1. writeEnds' = Never => writeDeadlineFailed'
        BY <1>7, Zenon DEF WriterLocks, SetWriteDeadline
    <2> QED
        BY <1>7, <2>1 DEF WriterLocks, SetWriteDeadline, Never
<1>8. CASE WriterWritten
    BY <1>8 DEF WriterWritten, Unlock
<1>9. CASE SessionEnds
    BY <1>9 DEF SessionEnds
<1>10. CASE Inbound
    BY <1>10 DEF Inbound
<1>11. CASE Tick
    BY <1>11 DEF Tick, Waiting, CanLockForProbe
<1>12. CASE UNCHANGED vars
    BY <1>12 DEF vars
<1> QED
    BY <1>1, <1>2, <1>3, <1>4, <1>5, <1>6, <1>7, <1>8, <1>9, <1>10, <1>11, <1>12 DEF Next

LEMMA SilencePreserved == KeepaliveInv /\ [Next]_vars => SilenceInv'
<1> SUFFICES ASSUME KeepaliveInv, [Next]_vars PROVE SilenceInv'
    OBVIOUS
<1> USE DataKeepaliveAssumption
    DEF KeepaliveInv, TypeOK, TimerInv, SilenceInv, Judged, Later, marks, upload, gateway, writer
<1>1. CASE FiresActive
    BY <1>1 DEF FiresActive
<1>2. CASE FiresIdle
    BY <1>2 DEF FiresIdle
<1>3. CASE Drop
    BY <1>3 DEF Drop
<1>4. CASE Spare
    BY <1>4 DEF Spare, Silence
<1>5. CASE ProbeLocks
    BY <1>5 DEF ProbeLocks, SetWriteDeadline, CanLockForProbe
<1>6. CASE ProbeWritten
    BY <1>6 DEF ProbeWritten, Unlock
<1>7. CASE WriterLocks
    BY <1>7 DEF WriterLocks, SetWriteDeadline
<1>8. CASE WriterWritten
    BY <1>8 DEF WriterWritten, Unlock
<1>9. CASE SessionEnds
    BY <1>9 DEF SessionEnds
<1>10. CASE Inbound
    BY <1>10 DEF Inbound
<1>11. CASE Tick
    BY <1>11 DEF Tick, Waiting, CanLockForProbe
<1>12. CASE UNCHANGED vars
    BY <1>12 DEF vars
<1> QED
    BY <1>1, <1>2, <1>3, <1>4, <1>5, <1>6, <1>7, <1>8, <1>9, <1>10, <1>11, <1>12 DEF Next

LEMMA AnswerPreserved == KeepaliveInv /\ [Next]_vars => AnswerInv'
<1> SUFFICES ASSUME KeepaliveInv, [Next]_vars PROVE AnswerInv'
    OBVIOUS
<1> USE DataKeepaliveAssumption
    DEF KeepaliveInv, TypeOK, TimerInv, AnswerInv, PromptGatewayKept, Never, marks, upload,
        gateway, writer
<1>1. CASE FiresActive
    BY <1>1 DEF FiresActive
<1>2. CASE FiresIdle
    BY <1>2 DEF FiresIdle
<1>3. CASE Drop
    BY <1>3 DEF Drop, Silence
<1>4. CASE Spare
    BY <1>4 DEF Spare
<1>5. CASE ProbeLocks
    BY <1>5 DEF ProbeLocks, SetWriteDeadline, CanLockForProbe
<1>6. CASE ProbeWritten
    BY <1>6 DEF ProbeWritten, Unlock
<1>7. CASE WriterLocks
    BY <1>7 DEF WriterLocks, SetWriteDeadline
<1>8. CASE WriterWritten
    BY <1>8 DEF WriterWritten, Unlock
<1>9. CASE SessionEnds
    BY <1>9 DEF SessionEnds
<1>10. CASE Inbound
    BY <1>10 DEF Inbound
<1>11. CASE Tick
    BY <1>11 DEF Tick, Waiting, CanLockForProbe
<1>12. CASE UNCHANGED vars
    BY <1>12 DEF vars
<1> QED
    BY <1>1, <1>2, <1>3, <1>4, <1>5, <1>6, <1>7, <1>8, <1>9, <1>10, <1>11, <1>12 DEF Next

LEMMA KeepaliveInvariant == Spec => []KeepaliveInv
<1>1. KeepaliveInv /\ [Next]_vars => KeepaliveInv'
    BY TypePreserved, TimerPreserved, SilencePreserved, AnswerPreserved DEF KeepaliveInv
<1> QED
    BY InitKeepalive, <1>1, PTL DEF Spec
-----------------------------------------------------------------------------
(* The marks never lie in the future, and the probe holds the mutex only   *)
(* inside WriteDataPacketBuffers.                                          *)
THEOREM KeepaliveTypeCorrect == Spec => []TypeOK
<1>1. KeepaliveInv => TypeOK
    BY DEF KeepaliveInv
<1> QED
    BY KeepaliveInvariant, <1>1, PTL

(* run and the writer between them leave no gap longer than an interval    *)
(* and a write between two writes of a live session, unless the probe is   *)
(* stuck with a write whose deadline was refused.                          *)
THEOREM UploadWarm == Spec => []UploadStaysWarm
<1>1. KeepaliveInv => UploadStaysWarm
    BY DataKeepaliveAssumption DEF KeepaliveInv, TypeOK, TimerInv, ProbeStuck, UploadStaysWarm
<1> QED
    BY KeepaliveInvariant, <1>1, PTL

(* run ends with ErrDataChannelTimeout within an interval and a write of   *)
(* the moment the silence was too long, and no write by the application or *)
(* without a deadline puts the judgement off any more.                     *)
THEOREM SilenceNoticed == Spec => []SilenceIsNoticed
<1>1. KeepaliveInv => SilenceIsNoticed
    BY DataKeepaliveAssumption
    DEF KeepaliveInv, TypeOK, TimerInv, SilenceInv, Judged, Later, ProbeStuck,
        SilenceIsNoticed
<1> QED
    BY KeepaliveInvariant, <1>1, PTL

(* run does not drop a gateway that answers its probes, if the timeout     *)
(* leaves room for one and, where a deadline was refused, it answers       *)
(* within the interval.                                                    *)
THEOREM PromptGateway == Spec => []PromptGatewayKept
<1>1. KeepaliveInv => PromptGatewayKept
    BY DEF KeepaliveInv, AnswerInv, PromptGatewayKept
<1> QED
    BY KeepaliveInvariant, <1>1, PTL
=============================================================================
