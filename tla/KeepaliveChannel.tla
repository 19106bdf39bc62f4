-------------------------- MODULE KeepaliveChannel --------------------------
(***************************************************************************)
(* src/keepalive_channel.go: the TCP module connection, from its dial to   *)
(* the end of its run loop, against a gateway that answers late, twice or  *)
(* never, speaks unasked and hangs up.                                     *)
(*                                                                         *)
(* Time is counted in ticks.  A tick passes only when no step of the       *)
(* channel is due: timers and deadlines fire when they are due, and a      *)
(* message that is there is read at once.  Requests are numbered in the    *)
(* order they are made; the first is the handshake, the others are         *)
(* heartbeats.                                                             *)
(***************************************************************************)
EXTENDS Integers, Sequences

CONSTANTS Interval, Timeout,   \* keepaliveOptions
          Second,              \* ticks in a second, the unit of sequence numbers
          Uptimes,             \* how old clientStart may be when the dial begins
          Horizon,             \* bound: ticks considered
          InboxBound           \* bound: messages the gateway has sent and no one has read

ASSUME KeepaliveAssumption ==
    /\ Interval \in Nat \ {0} /\ Timeout \in Nat \ {0} /\ Second \in Nat \ {0}
    /\ Uptimes \subseteq Nat
    /\ Horizon \in Nat /\ InboxBound \in Nat

VARIABLES
    now,
    uptime,              \* age of clientStart at time 0
    phase,               \* dial, exchange (write, read), opened, idle, done
    requests,            \* when each request took its sequence number
    deadline,            \* the write or the read deadline of the exchange
    due,                 \* when the timer of run fires
    inbox,               \* what the gateway sent and the channel has not read
    up,                  \* the connection is there
    answered,            \* the request the last accepted reply was sent for
    heard,               \* when a reply was last accepted
    started,             \* when run began
    told,                \* when the gateway first sent what ends the session
    cancelled            \* when the context ended

vars == <<now, uptime, phase, requests, deadline, due, inbox, up, answered, heard, started,
          told, cancelled>>
history == <<answered, heard, started, told>>

Never == -1
Phases == {"dial", "write", "read", "opened", "idle", "done"}
(* invalid: not an ACKQ, or one of another session; unknown: a type that   *)
(* handleACKQ ignores.                                                     *)
Unasked == {"timeout", "newSession", "unknown", "invalid"}
Replies == {"handshakeReply", "heartbeatReply", "stop"}
Ending  == {"stop", "timeout", "newSession", "invalid"}

TypeOK ==
    /\ now \in Nat /\ uptime \in Nat
    /\ phase \in Phases
    /\ requests \in Seq(Nat)
    /\ phase \in {"write", "read", "opened", "idle"} => requests # <<>>
    /\ deadline \in Nat /\ due \in Nat
    /\ inbox \in Seq([type : Unasked \cup Replies, request : 0..Len(requests)])
    /\ up \in BOOLEAN
    /\ answered \in 0..Len(requests) /\ heard \in Nat /\ started \in Nat
    /\ told \in Nat \cup {Never} /\ cancelled \in Nat \cup {Never}

Init ==
    /\ now = 0 /\ uptime \in Uptimes
    /\ phase = "dial" /\ requests = <<>>
    /\ deadline = 0 /\ due = 0
    /\ inbox = <<>> /\ up = TRUE
    /\ answered = 0 /\ heard = 0 /\ started = 0
    /\ told = Never /\ cancelled = Never

(* keepaliveSequence.value at time t; 2^32 seconds are out of reach. *)
Sequence(t) == (t + uptime) \div Second

(* Still inside dialKeepaliveChannel. *)
Opening == phase = "dial" \/ (Len(requests) = 1 /\ phase \in {"write", "read"})
-----------------------------------------------------------------------------
(* Plausible slips in this file; no action uses them. *)
AcceptsAnyReply(m) == TRUE
RenewsDeadline == deadline' = now + Timeout
TimeoutUnheard(m) ==
    \/ m.type \in {"invalid", "newSession"}
    \/ m.type = "timeout" /\ Len(requests) = 1
SeesCancelWhenDue == phase = "idle" /\ cancelled # Never /\ now >= due
-----------------------------------------------------------------------------
(* exchange: the request takes its sequence number and its write deadline. *)
BeginExchange ==
    /\ requests' = Append(requests, now)
    /\ deadline' = now + Timeout
    /\ phase' = "write"

(* The connection was dialled and camouflaged; the handshake begins. *)
Dialed ==
    /\ phase = "dial"
    /\ BeginExchange
    /\ UNCHANGED <<now, uptime, due, inbox, up, history, cancelled>>

(* The dial fails, or its context (the timeout, or the caller's) closes    *)
(* the connection under the handshake.                                     *)
DialFails ==
    /\ Opening
    /\ phase' = "done"
    /\ UNCHANGED <<now, uptime, requests, deadline, due, inbox, up, history, cancelled>>

(* TIMQ is written; the replies to it get a deadline of their own. *)
WriteTIMQ ==
    /\ phase = "write" /\ now <= deadline
    /\ phase' = "read" /\ deadline' = now + Timeout
    /\ UNCHANGED <<now, uptime, requests, due, inbox, up, history, cancelled>>

(* A deadline passes, or the connection is gone: exchange returns an error *)
(* and run, or dialKeepaliveChannel, with it.                              *)
ExchangeFails ==
    /\ phase \in {"write", "read"}
    /\ now >= deadline \/ (~up /\ (phase = "write" \/ inbox = <<>>))
    /\ phase' = "done"
    /\ UNCHANGED <<now, uptime, requests, deadline, due, inbox, up, history, cancelled>>

(* handleACKQ: a reply to the kind of request that is out. *)
Answers(m) == m.type = IF Len(requests) = 1 THEN "handshakeReply" ELSE "heartbeatReply"

acceptReply(m) == Sequence(requests[m.request]) = Sequence(requests[Len(requests)])

(* What readACKQ or exchange refuses whatever was asked, and the messages  *)
(* by which the gateway ends the session.                                  *)
EndsSession(m) == m.type \in {"invalid", "timeout", "newSession"}

Rejected(m) ==
    \/ EndsSession(m)
    \/ m.type = "stop" /\ Len(requests) > 1
    \/ Answers(m) /\ ~acceptReply(m)

(* The read deadline is set once for all the replies of an exchange. *)
KeepsDeadline == deadline' = deadline

ReadACKQ ==
    /\ phase = "read" /\ inbox # <<>>
    /\ inbox' = Tail(inbox)
    /\ \/ /\ Rejected(Head(inbox))
          /\ phase' = "done"
          /\ UNCHANGED <<answered, heard, due>>
       \/ /\ ~Rejected(Head(inbox)) /\ Answers(Head(inbox))
          /\ phase' = IF Len(requests) = 1 THEN "opened" ELSE "idle"
          /\ answered' = Head(inbox).request /\ heard' = now
          /\ due' = now + Interval
       \/ /\ ~Rejected(Head(inbox)) /\ ~Answers(Head(inbox))
          /\ UNCHANGED <<phase, answered, heard, due>>
    /\ KeepsDeadline
    /\ UNCHANGED <<now, uptime, requests, up, started, told, cancelled>>

(* tunnelSession.Start, once the other channels are connected. *)
RunStarts ==
    /\ phase = "opened"
    /\ phase' = "idle" /\ started' = now /\ due' = now + Interval
    /\ UNCHANGED <<now, uptime, requests, deadline, inbox, up, answered, heard, told, cancelled>>

TimerFires ==
    /\ phase = "idle" /\ now >= due
    /\ BeginExchange
    /\ UNCHANGED <<now, uptime, due, inbox, up, history, cancelled>>

(* run looks at the context between exchanges, and nowhere else. *)
SeesCancel == phase = "idle" /\ cancelled # Never

RunCancelled ==
    /\ SeesCancel
    /\ phase' = "done"
    /\ UNCHANGED <<now, uptime, requests, deadline, due, inbox, up, history, cancelled>>

(* The context ends, while anything is left to end. *)
Cancel ==
    /\ phase # "done" /\ cancelled = Never
    /\ cancelled' = now
    /\ UNCHANGED <<now, uptime, phase, requests, deadline, due, inbox, up, history>>

(* Close, or the gateway, takes the connection down. *)
HangUp ==
    /\ phase # "done" /\ up
    /\ up' = FALSE
    /\ UNCHANGED <<now, uptime, phase, requests, deadline, due, inbox, history, cancelled>>

Send(m) ==
    /\ phase # "done" /\ up /\ Len(inbox) < InboxBound
    /\ inbox' = Append(inbox, m)
    /\ told' = IF m.type \in Ending /\ told = Never THEN now ELSE told
    /\ UNCHANGED <<now, uptime, phase, requests, deadline, due, up, answered, heard, started,
                   cancelled>>

(* The gateway answers a request it has got: this one or an earlier one,   *)
(* and perhaps not for the first time.                                     *)
GatewayAnswers(i) ==
    /\ i \in 1..Len(requests) /\ (phase = "write" => i < Len(requests))
    /\ \E type \in IF i = 1 THEN {"handshakeReply"} ELSE {"heartbeatReply", "stop"} :
           Send([type |-> type, request |-> i])

GatewaySpeaks(type) == Send([type |-> type, request |-> 0])

(* Nothing the channel would do by itself is due. *)
Waiting ==
    /\ phase # "done"
    /\ Opening => now < Timeout /\ cancelled = Never
    /\ phase \in {"write", "read"} => now < deadline
    /\ phase = "read" => inbox = <<>> /\ up
    /\ phase = "idle" => now < due /\ ~SeesCancel

Tick ==
    /\ Waiting /\ now < Horizon
    /\ now' = now + 1
    /\ UNCHANGED <<uptime, phase, requests, deadline, due, inbox, up, history, cancelled>>

ChannelStep ==
    \/ Dialed \/ DialFails \/ WriteTIMQ \/ ExchangeFails \/ ReadACKQ
    \/ RunStarts \/ TimerFires \/ RunCancelled

Next ==
    \/ ChannelStep
    \/ Cancel \/ HangUp \/ Tick
    \/ \E i \in 1..Len(requests) : GatewayAnswers(i)
    \/ \E type \in Unasked : GatewaySpeaks(type)

Spec == Init /\ [][Next]_vars
-----------------------------------------------------------------------------
Later(a, b) == IF a > b THEN a ELSE b
Running == phase \in {"write", "read", "idle"} /\ ~Opening

(* "its failure is how a dead gateway is noticed": however much the gateway *)
(* chatters, a run loop that gets no answer fails within one interval and  *)
(* two timeouts, one for the write and one for the reads.                  *)
DeadGatewayNoticed == Running => now - Later(heard, started) <= Interval + 2 * Timeout

(* A reply that was late or came twice never passes for the answer to a    *)
(* later request, provided requests are a second apart: KeepAliveInterval  *)
(* is a second by default, and a shorter one gives two requests the same   *)
(* sequence number.                                                        *)
AnswerIsOwn ==
    Interval >= Second /\ phase \in {"opened", "idle"} => answered = Len(requests)

(* What the gateway says unasked is read only during an exchange, behind   *)
(* everything sent before it.  Still a session it has ended is given up    *)
(* within two exchanges.                                                   *)
EndIsHeard ==
    Interval >= Second /\ Running /\ told # Never
        => now - Later(told, started) <= Interval + 2 * Timeout

(* exchange does not look at the context: the end of the context alone     *)
(* ends the loop within one exchange.                                      *)
CancelIsHeard ==
    Running /\ cancelled # Never => now - Later(cancelled, started) <= 2 * Timeout

(* keepalive_channel.go:26 says timeout "bounds [...] one TIMQ/ACKQ        *)
(* exchange".                                                              *)
ExchangeWithinTimeout ==
    Running /\ phase # "idle" => now - requests[Len(requests)] <= Timeout
=============================================================================
