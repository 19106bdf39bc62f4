------------------------ MODULE DataChannelKeepalive ------------------------
(***************************************************************************)
(* src/data_channel_keepalive.go: the goroutine that probes an idle tunnel *)
(* and drops a silent one, with what it shares with its session            *)
(* (src/session.go): the two marks lastWrite and lastInbound, and the      *)
(* upload channel whose mutex the writer may hold.                         *)
(*                                                                         *)
(* Time is counted in ticks, and one passes only when no step is due: the  *)
(* timer and the write deadline fire when they are due.  There is one      *)
(* clock: in the code the timer and the deadline are monotonic, while the  *)
(* marks go through UnixNano and are wall-clock times, so what holds here  *)
(* holds of a host whose wall clock is not stepped.                        *)
(***************************************************************************)
EXTENDS Integers

CONSTANTS Interval, Timeout,   \* DataChannelKeepAliveInterval and ...Timeout, 0: off
          WriteTimeout,        \* DataChannelTimeout
          Delay,               \* how soon a prompt gateway answers a probe
          Horizon              \* bound: ticks considered

ASSUME DataKeepaliveAssumption ==
    /\ Interval \in Nat \ {0} /\ WriteTimeout \in Nat \ {0}
    /\ Timeout \in Nat /\ Delay \in Nat /\ Horizon \in Nat

VARIABLES
    now,
    phase,               \* wait, judge, probe (inside WriteDataPacketBuffers), done
    due,                 \* when the timer fires
    lastWrite, lastInbound,
    holder, writeEnds,   \* who holds writeAccess, and the write deadline (Never: refused)
    writeDeadlineFailed, \* SetWriteDeadline has failed
    silent,              \* run ended with ErrDataChannelTimeout
    lastPostponed,       \* when a write last ended that puts off the judgement:
                         \* the writer's, or one without a deadline
    applicationWrote,    \* the writer has begun one
    unanswered,          \* a probe was written since lastInbound
    prompt, replyDue     \* the gateway answers each probe, by then

marks == <<lastWrite, lastInbound>>
upload == <<holder, writeEnds, writeDeadlineFailed>>
gateway == <<prompt, replyDue>>
writer == <<lastPostponed, applicationWrote>>
vars == <<now, phase, due, marks, upload, silent, writer, unanswered, gateway>>

Never == -1

TypeOK ==
    /\ now \in Nat /\ due \in Nat
    /\ phase \in {"wait", "judge", "probe", "done"}
    /\ lastWrite \in 0..now /\ lastInbound \in 0..now /\ lastPostponed \in 0..now
    /\ holder \in {"none", "writer", "probe"}
    /\ holder = "probe" => phase \in {"probe", "done"}
    /\ writeEnds \in Nat \cup {Never} /\ writeDeadlineFailed \in BOOLEAN
    /\ silent \in BOOLEAN /\ applicationWrote \in BOOLEAN /\ unanswered \in BOOLEAN
    /\ prompt \in BOOLEAN /\ replyDue \in Nat \cup {Never}

(* tunnelSession.Start marks both and launches run. *)
Init ==
    /\ now = 0 /\ phase = "wait" /\ due = Interval
    /\ lastWrite = 0 /\ lastInbound = 0
    /\ holder = "none" /\ writeEnds = Never /\ writeDeadlineFailed = FALSE
    /\ silent = FALSE /\ lastPostponed = 0 /\ applicationWrote = FALSE /\ unanswered = FALSE
    /\ prompt \in BOOLEAN /\ replyDue = Never
-----------------------------------------------------------------------------
(* Plausible slips in this file; no action uses them. *)
WholeInterval == now + Interval
JudgesProbes == now - lastWrite > Timeout
JudgesEarly == now - lastInbound >= Interval
-----------------------------------------------------------------------------
(* The timer fires on a tunnel that wrote in the meantime: the rest of the *)
(* interval is waited for.                                                 *)
RestOfInterval == now + (Interval - (now - lastWrite))

FiresActive ==
    /\ phase = "wait" /\ now >= due
    /\ now - lastWrite < Interval
    /\ due' = RestOfInterval
    /\ UNCHANGED <<now, phase, marks, upload, silent, writer, unanswered, gateway>>

FiresIdle ==
    /\ phase = "wait" /\ now >= due
    /\ now - lastWrite >= Interval
    /\ phase' = "judge"
    /\ UNCHANGED <<now, due, marks, upload, silent, writer, unanswered, gateway>>

(* The silence is judged by lastInbound as it is by now. *)
Silence == now - lastInbound > Timeout

Drop ==
    /\ phase = "judge" /\ Timeout > 0 /\ Silence
    /\ phase' = "done" /\ silent' = TRUE
    /\ UNCHANGED <<now, due, marks, upload, writer, unanswered, gateway>>

Spare ==
    /\ phase = "judge" /\ ~(Timeout > 0 /\ Silence)
    /\ phase' = "probe"
    /\ UNCHANGED <<now, due, marks, upload, silent, writer, unanswered, gateway>>

(* WriteDataPacketBuffers, for the probe and for the writer: the mutex,    *)
(* the write deadline, the write, the mark.  A connection that takes no    *)
(* deadline is warned of once and written to all the same.                 *)
SetWriteDeadline ==
    /\ writeEnds' \in {now + WriteTimeout, Never}
    /\ writeDeadlineFailed' = (writeDeadlineFailed \/ writeEnds' = Never)

CanLockForProbe == phase = "probe" /\ holder = "none"

ProbeLocks ==
    /\ CanLockForProbe
    /\ holder' = "probe" /\ SetWriteDeadline
    /\ UNCHANGED <<now, phase, due, marks, silent, writer, unanswered, gateway>>

WriterLocks ==
    /\ phase # "done" /\ holder = "none"
    /\ holder' = "writer" /\ SetWriteDeadline
    /\ applicationWrote' = TRUE
    /\ UNCHANGED <<now, phase, due, marks, silent, lastPostponed, unanswered, gateway>>

Unlock == holder' = "none"

ProbeWritten ==
    /\ phase = "probe" /\ holder = "probe"
    /\ Unlock /\ lastWrite' = now
    /\ phase' = "wait" /\ due' = now + Interval
    /\ unanswered' = TRUE
    /\ lastPostponed' = IF writeEnds = Never THEN now ELSE lastPostponed
    /\ replyDue' = IF prompt /\ replyDue = Never THEN now + Delay ELSE replyDue
    /\ UNCHANGED <<now, lastInbound, writeEnds, writeDeadlineFailed, silent, applicationWrote,
                   prompt>>

WriterWritten ==
    /\ phase # "done" /\ holder = "writer"
    /\ Unlock /\ lastWrite' = now /\ lastPostponed' = now
    /\ UNCHANGED <<now, phase, due, lastInbound, writeEnds, writeDeadlineFailed, silent,
                   applicationWrote, unanswered, gateway>>

(* The write fails, at its deadline or before: the session fails, and run  *)
(* ends with it.  So it does when the session ends for another reason.     *)
SessionEnds ==
    /\ phase # "done"
    /\ phase' = "done"
    /\ UNCHANGED <<now, due, marks, upload, silent, writer, unanswered, gateway>>

(* runReceiveChannel: a datagram marks the receive channel, whether it is  *)
(* the answer to a probe or anything else the tunnel carries.              *)
Inbound ==
    /\ phase # "done"
    /\ lastInbound' = now /\ unanswered' = FALSE
    /\ replyDue' \in {replyDue, Never}
    /\ UNCHANGED <<now, phase, due, lastWrite, upload, silent, writer, prompt>>

Waiting ==
    /\ phase = "wait" => now < due
    /\ phase \notin {"judge", "done"}
    /\ ~CanLockForProbe
    /\ holder # "none" /\ writeEnds # Never => now < writeEnds
    /\ replyDue # Never => now < replyDue

Tick ==
    /\ Waiting /\ now < Horizon
    /\ now' = now + 1
    /\ UNCHANGED <<phase, due, marks, upload, silent, writer, unanswered, gateway>>

Next ==
    \/ FiresActive \/ FiresIdle \/ Drop \/ Spare
    \/ ProbeLocks \/ ProbeWritten
    \/ WriterLocks \/ WriterWritten
    \/ SessionEnds \/ Inbound \/ Tick

Spec == Init /\ [][Next]_vars
-----------------------------------------------------------------------------
Later(a, b) == IF a > b THEN a ELSE b

(* The probe is in, or behind, a write that took no deadline: nothing but  *)
(* the kernel bounds it.                                                   *)
ProbeStuck == phase = "probe" /\ holder # "none" /\ writeEnds = Never

(* The probe "sends [...] once the upload channel has been idle for this   *)
(* long, so that the data connections stay in the state tables": no two    *)
(* writes of a live session are further apart than an interval and a       *)
(* write's own time, whoever writes and whenever the timer was set, unless *)
(* the probe waits for a write whose deadline the connection refused.      *)
UploadStaysWarm ==
    phase # "done" /\ ~ProbeStuck => now - lastWrite <= Interval + WriteTimeout

(* A receive channel that has been silent for the timeout costs the tunnel *)
(* within an interval and a write, counted from the end of the last write  *)
(* that puts the judgement off: while the application goes on writing, or  *)
(* a write without a deadline lasts, the silence is not looked at.         *)
SilenceIsNoticed ==
    Timeout > 0 /\ phase # "done" /\ ~ProbeStuck =>
        now - Later(lastInbound + Timeout, lastPostponed) <= Interval + WriteTimeout

(* A gateway that answers its probes is not dropped, if only probes are    *)
(* sent and the timeout leaves room for a probe and its answer; where the  *)
(* connection refused a deadline, if it also answers within the interval.  *)
PromptGatewayKept ==
    prompt /\ ~applicationWrote /\ Interval + WriteTimeout + Delay <= Timeout
    /\ (writeDeadlineFailed => Delay < Interval)
        => ~silent

(* options.go:73 says the tunnel is dropped "when the receive channel      *)
(* stays silent for this long while probes are being sent".                *)
DropsOnlyWhileProbing == silent => unanswered
=============================================================================
