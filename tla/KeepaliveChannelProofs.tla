----------------------- MODULE KeepaliveChannelProofs -----------------------
(***************************************************************************)
(* For every interval and timeout, and whatever the gateway sends and      *)
(* when: a dead gateway, a session the gateway ended and the end of the    *)
(* context are noticed in time, and no reply passes for the answer to      *)
(* another request.                                                        *)
(***************************************************************************)
EXTENDS KeepaliveChannel, SequenceTheorems, TLAPS

Messages(n) == [type : Unasked \cup Replies, request : 0..n]

(* What the gateway sends answers a request there is; it refuses only a    *)
(* heartbeat.                                                              *)
InboxInv ==
    \A k \in 1..Len(inbox) :
        /\ inbox[k].type \in Replies => inbox[k].request >= 1
        /\ inbox[k].type = "stop" => inbox[k].request >= 2

(* Requests lie in the past, at least an interval apart. *)
RequestInv ==
    /\ phase = "dial" => requests = <<>>
    /\ phase = "idle" => requests[Len(requests)] + Interval <= due
    /\ \A i \in 1..Len(requests) : requests[i] <= now
    /\ \A i, j \in 1..Len(requests) : i < j => requests[i] + Interval <= requests[j]

(* The timer and the deadlines, against the last sign of the gateway. *)
TimerInv ==
    /\ heard <= now /\ started <= now /\ told <= now /\ cancelled <= now
    /\ phase = "idle" =>
           now <= due /\ due <= now + Interval /\ due <= Later(heard, started) + Interval
    /\ phase \in {"write", "read"} => now <= deadline /\ deadline <= now + Timeout
    /\ Running /\ phase = "write" => deadline <= Later(heard, started) + Interval + Timeout
    /\ Running /\ phase = "read" => deadline <= Later(heard, started) + Interval + 2 * Timeout

(* A cancelled context may lose the select to the timer, but only once. *)
CancelInv ==
    cancelled # Never =>
        /\ phase = "idle" =>
               /\ now <= Later(cancelled, started) + 2 * Timeout
               /\ now >= due => now <= Later(cancelled, started)
        /\ Running /\ phase = "write" => deadline <= Later(cancelled, started) + Timeout
        /\ Running /\ phase = "read" => deadline <= Later(cancelled, started) + 2 * Timeout

(* Once the gateway has ended the session its word is in the inbox, ahead  *)
(* of every answer to a request made later.                                *)
WordInv ==
    told # Never /\ phase # "done" =>
        \E k \in 1..Len(inbox) :
            /\ inbox[k].type \in Ending
            /\ Len(requests) > 0 /\ told < requests[Len(requests)] =>
                   \A j \in 1..(k - 1) : inbox[j].request < Len(requests)

(* So it is read in the exchange that is under way or in the next one. *)
EndInv ==
    Interval >= Second /\ told # Never =>
        /\ phase = "idle" => due <= Later(told, started) + Timeout + Interval
        /\ Running /\ phase = "write" =>
               /\ deadline <= Later(told, started) + Interval + 2 * Timeout
               /\ requests[Len(requests)] <= told => deadline <= Later(told, started) + Timeout
        /\ Running /\ phase = "read" =>
               /\ now <= Later(told, started) + Interval + 2 * Timeout
               /\ requests[Len(requests)] <= told => now <= Later(told, started) + Timeout

ChannelInv ==
    /\ TypeOK /\ InboxInv /\ RequestInv /\ TimerInv /\ CancelInv
    /\ AnswerIsOwn /\ WordInv /\ EndInv
-----------------------------------------------------------------------------
(* Two times a second apart have different sequence numbers. *)
LEMMA SecondsDiffer ==
    ASSUME NEW a \in Nat, NEW b \in Nat, NEW s \in Nat \ {0}, a + s <= b
    PROVE  a \div s # b \div s
BY Z3

LEMMA Exchanged ==
    ASSUME TypeOK, BeginExchange
    PROVE  /\ requests' \in Seq(Nat) /\ requests' # <<>>
           /\ Len(requests') = Len(requests) + 1
           /\ requests'[Len(requests')] = now
           /\ \A i \in 1..Len(requests) : requests'[i] = requests[i]
<1>1. requests \in Seq(Nat) /\ now \in Nat /\ requests' = Append(requests, now)
    BY DEF TypeOK, BeginExchange
<1>2. Len(requests) \in Nat /\ Len(requests') = Len(requests) + 1
    BY <1>1, AppendProperties
<1>3. requests'[Len(requests) + 1] = now
    BY <1>1, AppendProperties, Zenon
<1> QED
    BY <1>1, <1>2, <1>3, AppendProperties

(* A message is still one when there are more requests. *)
LEMMA InboxKept ==
    ASSUME TypeOK, NEW n \in Nat, Len(requests) <= n
    PROVE  inbox \in Seq(Messages(n))
<1>1. inbox \in Seq(Messages(Len(requests))) /\ Len(requests) \in Nat
    BY DEF TypeOK, Messages
<1>2. Messages(Len(requests)) \subseteq Messages(n)
    BY <1>1 DEF Messages
<1> QED
    BY <1>1, <1>2, SeqMonotonic, Zenon

LEMMA InboxRequests ==
    ASSUME TypeOK
    PROVE  /\ Len(inbox) \in Nat /\ Len(requests) \in Nat
           /\ \A j \in 1..Len(inbox) : inbox[j].request \in 0..Len(requests)
<1>1. inbox \in Seq(Messages(Len(requests))) /\ requests \in Seq(Nat)
    BY DEF TypeOK, Messages
<1>2. \A j \in 1..Len(inbox) : inbox[j] \in Messages(Len(requests))
    BY <1>1, ElementOfSeq, Zenon
<1> QED
    BY <1>1, <1>2 DEF Messages

LEMMA Arrived ==
    ASSUME NEW m \in Messages(Len(requests)), TypeOK, Send(m)
    PROVE  /\ inbox' \in Seq(Messages(Len(requests)))
           /\ Len(inbox') = Len(inbox) + 1
           /\ inbox'[Len(inbox) + 1] = m
           /\ \A i \in 1..Len(inbox) : inbox'[i] = inbox[i]
BY AppendProperties DEF TypeOK, Send, Messages

LEMMA Taken ==
    ASSUME TypeOK, ReadACKQ
    PROVE  /\ Len(inbox) > 0 /\ Head(inbox) = inbox[1]
           /\ Head(inbox) \in Messages(Len(requests))
           /\ inbox' \in Seq(Messages(Len(requests)))
           /\ Len(inbox') = Len(inbox) - 1
           /\ \A i \in 1..Len(inbox') : inbox'[i] = inbox[i + 1]
<1>1. inbox \in Seq(Messages(Len(requests))) /\ inbox # <<>> /\ inbox' = Tail(inbox)
    BY DEF TypeOK, Messages, ReadACKQ
<1>2. Len(inbox) > 0 /\ Head(inbox) = inbox[1]
    BY <1>1
<1> QED
    BY <1>1, <1>2, HeadTailProperties

(* What the gateway sends, as the two actions say it. *)
GatewaySends(m) ==
    /\ m \in Messages(Len(requests))
    /\ m.type \in Replies => m.request >= 1
    /\ m.type = "stop" => m.request >= 2
    /\ Send(m)

LEMMA GatewaySteps ==
    /\ \A i \in 1..Len(requests) : GatewayAnswers(i) => \E m : GatewaySends(m)
    /\ \A type \in Unasked : GatewaySpeaks(type) => \E m : GatewaySends(m)
<1>1. ASSUME NEW i \in 1..Len(requests), GatewayAnswers(i)
      PROVE  \E m : GatewaySends(m)
    <2>1. PICK type \in IF i = 1 THEN {"handshakeReply"} ELSE {"heartbeatReply", "stop"} :
                  Send([type |-> type, request |-> i])
        BY <1>1 DEF GatewayAnswers
    <2>2. GatewaySends([type |-> type, request |-> i])
        BY <2>1 DEF GatewaySends, Messages, Replies, Unasked
    <2> QED
        BY <2>2
<1>2. ASSUME NEW type \in Unasked, GatewaySpeaks(type)
      PROVE  \E m : GatewaySends(m)
    <2>1. GatewaySends([type |-> type, request |-> 0])
        BY <1>2 DEF GatewaySpeaks, GatewaySends, Messages, Replies, Unasked
    <2> QED
        BY <2>1
<1> QED
    BY <1>1, <1>2

LEMMA InitChannel == Init => ChannelInv
<1> SUFFICES ASSUME Init PROVE ChannelInv
    OBVIOUS
<1> USE KeepaliveAssumption DEF Init, Never
<1>1. TypeOK
    <2>1. up \in BOOLEAN
        BY Zenon
    <2> QED
        BY <2>1, EmptySeq DEF TypeOK, Phases
<1>2. InboxInv /\ RequestInv
    BY EmptySeq DEF InboxInv, RequestInv
<1>3. TimerInv
    BY DEF TimerInv, Running
<1>4. CancelInv /\ AnswerIsOwn /\ WordInv /\ EndInv
    BY DEF CancelInv, AnswerIsOwn, WordInv, EndInv
<1> QED
    BY <1>1, <1>2, <1>3, <1>4 DEF ChannelInv

LEMMA TypePreserved == ChannelInv /\ [Next]_vars => TypeOK'
<1> SUFFICES ASSUME ChannelInv, [Next]_vars PROVE TypeOK'
    OBVIOUS
<1> USE KeepaliveAssumption DEF ChannelInv, TypeOK, Phases, history
<1>0. TypeOK
    BY DEF ChannelInv
<1>1. CASE Dialed
    <2>1. inbox' \in Seq(Messages(Len(requests')))
        <3>1. Len(requests') \in Nat /\ Len(requests) <= Len(requests')
            BY <1>0, <1>1, Exchanged DEF Dialed
        <3> QED
            BY <1>0, <1>1, <3>1, InboxKept, Zenon DEF Dialed
    <2>2. /\ requests' \in Seq(Nat) /\ requests' # <<>>
          /\ answered' \in 0..Len(requests')
        BY <1>0, <1>1, Exchanged DEF Dialed
    <2> QED
        BY <1>0, <1>1, <2>1, <2>2 DEF Dialed, BeginExchange, Messages
<1>2. CASE DialFails
    BY <1>0, <1>2 DEF DialFails, Opening
<1>3. CASE WriteTIMQ
    BY <1>0, <1>3 DEF WriteTIMQ
<1>4. CASE ExchangeFails
    BY <1>0, <1>4 DEF ExchangeFails
<1>5. CASE ReadACKQ
    <2>1. inbox' \in Seq(Messages(Len(requests)))
        BY <1>0, <1>5, Taken
    <2>2. Head(inbox).request \in 0..Len(requests)
        BY <1>0, <1>5, Taken DEF Messages
    <2>3. answered' \in 0..Len(requests) /\ heard' \in Nat /\ due' \in Nat
        BY SMTT(30), <1>0, <1>5, <2>2 DEF ReadACKQ
    <2>4. phase' \in {"read", "opened", "idle", "done"} /\ requests # <<>>
        BY <1>0, <1>5 DEF ReadACKQ
    <2> QED
        BY <1>0, <1>5, <2>1, <2>3, <2>4 DEF ReadACKQ, KeepsDeadline, Messages
<1>6. CASE RunStarts
    BY <1>0, <1>6 DEF RunStarts
<1>7. CASE TimerFires
    <2>1. inbox' \in Seq(Messages(Len(requests')))
        <3>1. Len(requests') \in Nat /\ Len(requests) <= Len(requests')
            BY <1>0, <1>7, Exchanged DEF TimerFires
        <3> QED
            BY <1>0, <1>7, <3>1, InboxKept, Zenon DEF TimerFires
    <2>2. /\ requests' \in Seq(Nat) /\ requests' # <<>>
          /\ answered' \in 0..Len(requests')
        BY <1>0, <1>7, Exchanged DEF TimerFires
    <2> QED
        BY <1>0, <1>7, <2>1, <2>2 DEF TimerFires, BeginExchange, Messages
<1>8. CASE RunCancelled
    BY <1>0, <1>8 DEF RunCancelled, SeesCancel
<1>9. CASE Cancel
    BY <1>0, <1>9 DEF Cancel
<1>10. CASE HangUp
    BY <1>0, <1>10 DEF HangUp
<1>11. CASE Tick
    BY <1>0, <1>11 DEF Tick, Waiting, SeesCancel
<1>12. ASSUME NEW m, GatewaySends(m) PROVE TypeOK'
    <2>1. inbox' \in Seq(Messages(Len(requests)))
        BY <1>0, <1>12, Arrived DEF GatewaySends
    <2>2. told' \in Nat \cup {Never}
        BY <1>12 DEF GatewaySends, Send
    <2> QED
        BY <1>0, <1>12, <2>1, <2>2 DEF GatewaySends, Send, Messages
<1>13. CASE UNCHANGED vars
    BY <1>13 DEF vars
<1> QED
    BY <1>1, <1>2, <1>3, <1>4, <1>5, <1>6, <1>7, <1>8, <1>9, <1>10, <1>11, <1>12, <1>13, GatewaySteps
    DEF Next, ChannelStep

LEMMA InboxPreserved == ChannelInv /\ [Next]_vars => InboxInv'
<1> SUFFICES ASSUME ChannelInv, [Next]_vars PROVE InboxInv'
    OBVIOUS
<1> USE KeepaliveAssumption DEF ChannelInv, InboxInv, history
<1>0. TypeOK
    BY DEF ChannelInv
<1>1. CASE Dialed
    BY <1>0, <1>1, Exchanged DEF Dialed, BeginExchange
<1>2. CASE DialFails
    BY <1>0, <1>2 DEF DialFails, Opening
<1>3. CASE WriteTIMQ
    BY <1>0, <1>3 DEF WriteTIMQ
<1>4. CASE ExchangeFails
    BY <1>0, <1>4 DEF ExchangeFails
<1>5. CASE ReadACKQ
    BY <1>0, <1>5, Taken DEF ReadACKQ, KeepsDeadline
<1>6. CASE RunStarts
    BY <1>0, <1>6 DEF RunStarts
<1>7. CASE TimerFires
    BY <1>0, <1>7, Exchanged DEF TimerFires, BeginExchange
<1>8. CASE RunCancelled
    BY <1>0, <1>8 DEF RunCancelled, SeesCancel
<1>9. CASE Cancel
    BY <1>0, <1>9 DEF Cancel
<1>10. CASE HangUp
    BY <1>0, <1>10 DEF HangUp
<1>11. CASE Tick
    BY <1>0, <1>11 DEF Tick, Waiting, SeesCancel
<1>12. ASSUME NEW m, GatewaySends(m) PROVE InboxInv'
    BY <1>0, <1>12, Arrived DEF GatewaySends, Send
<1>13. CASE UNCHANGED vars
    BY <1>13 DEF vars
<1> QED
    BY <1>1, <1>2, <1>3, <1>4, <1>5, <1>6, <1>7, <1>8, <1>9, <1>10, <1>11, <1>12, <1>13, GatewaySteps
    DEF Next, ChannelStep

LEMMA RequestPreserved == ChannelInv /\ [Next]_vars => RequestInv'
<1> SUFFICES ASSUME ChannelInv, [Next]_vars PROVE RequestInv'
    OBVIOUS
<1> USE KeepaliveAssumption DEF ChannelInv, TypeOK, RequestInv, TimerInv, history
<1>0. TypeOK
    BY DEF ChannelInv
<1>1. CASE Dialed
    BY <1>0, <1>1, Exchanged DEF Dialed, BeginExchange
<1>2. CASE DialFails
    BY <1>0, <1>2 DEF DialFails, Opening
<1>3. CASE WriteTIMQ
    BY <1>0, <1>3 DEF WriteTIMQ
<1>4. CASE ExchangeFails
    BY <1>0, <1>4 DEF ExchangeFails
<1>5. CASE ReadACKQ
    BY SMTT(30), <1>0, <1>5, Taken DEF ReadACKQ, KeepsDeadline
<1>6. CASE RunStarts
    BY <1>0, <1>6 DEF RunStarts
<1>7. CASE TimerFires
    <2>1. requests # <<>> /\ Len(requests) \in 1..Len(requests)
        BY <1>7 DEF TimerFires
    <2>2. \A i \in 1..Len(requests) : requests[i] + Interval <= now
        BY SMTT(30), <1>7, <2>1 DEF TimerFires
    <2> QED
        BY SMTT(30), <1>0, <1>7, <2>2, Exchanged DEF TimerFires, BeginExchange
<1>8. CASE RunCancelled
    BY <1>0, <1>8 DEF RunCancelled, SeesCancel
<1>9. CASE Cancel
    BY <1>0, <1>9 DEF Cancel
<1>10. CASE HangUp
    BY <1>0, <1>10 DEF HangUp
<1>11. CASE Tick
    BY <1>0, <1>11 DEF Tick, Waiting, SeesCancel
<1>12. ASSUME NEW m, GatewaySends(m) PROVE RequestInv'
    BY <1>0, <1>12, Arrived DEF GatewaySends, Send
<1>13. CASE UNCHANGED vars
    BY <1>13 DEF vars
<1> QED
    BY <1>1, <1>2, <1>3, <1>4, <1>5, <1>6, <1>7, <1>8, <1>9, <1>10, <1>11, <1>12, <1>13, GatewaySteps
    DEF Next, ChannelStep

LEMMA TimerPreserved == ChannelInv /\ [Next]_vars => TimerInv'
<1> SUFFICES ASSUME ChannelInv, [Next]_vars PROVE TimerInv'
    OBVIOUS
<1> USE KeepaliveAssumption DEF ChannelInv, TypeOK, RequestInv, TimerInv, Running, Opening, Later, Never, history
<1>0. TypeOK
    BY DEF ChannelInv
<1>1. CASE Dialed
    BY <1>0, <1>1, Exchanged DEF Dialed, BeginExchange
<1>2. CASE DialFails
    BY <1>0, <1>2 DEF DialFails, Opening
<1>3. CASE WriteTIMQ
    BY <1>0, <1>3 DEF WriteTIMQ
<1>4. CASE ExchangeFails
    BY <1>0, <1>4 DEF ExchangeFails
<1>5. CASE ReadACKQ
    <2>1. UNCHANGED <<now, requests, deadline, started, told, cancelled>>
        BY <1>5 DEF ReadACKQ, KeepsDeadline
    <2>2. \/ phase' = "done" /\ UNCHANGED <<heard, due>>
          \/ phase' \in {"opened", "idle"} /\ heard' = now /\ due' = now + Interval
          \/ UNCHANGED <<phase, heard, due>>
        BY <1>5 DEF ReadACKQ
    <2>3. CASE phase' = "done" /\ UNCHANGED <<heard, due>>
        BY <1>0, <2>1, <2>3
    <2>4. CASE phase' \in {"opened", "idle"} /\ heard' = now /\ due' = now + Interval
        BY <1>0, <2>1, <2>4
    <2>5. CASE UNCHANGED <<phase, heard, due>>
        BY <1>0, <2>1, <2>5
    <2> QED
        BY <2>2, <2>3, <2>4, <2>5
<1>6. CASE RunStarts
    BY <1>0, <1>6 DEF RunStarts
<1>7. CASE TimerFires
    BY <1>0, <1>7, Exchanged DEF TimerFires, BeginExchange
<1>8. CASE RunCancelled
    BY <1>0, <1>8 DEF RunCancelled, SeesCancel
<1>9. CASE Cancel
    BY <1>0, <1>9 DEF Cancel
<1>10. CASE HangUp
    BY <1>0, <1>10 DEF HangUp
<1>11. CASE Tick
    BY <1>0, <1>11 DEF Tick, Waiting, SeesCancel
<1>12. ASSUME NEW m, GatewaySends(m) PROVE TimerInv'
    BY <1>0, <1>12, Arrived DEF GatewaySends, Send
<1>13. CASE UNCHANGED vars
    BY <1>13 DEF vars
<1> QED
    BY <1>1, <1>2, <1>3, <1>4, <1>5, <1>6, <1>7, <1>8, <1>9, <1>10, <1>11, <1>12, <1>13, GatewaySteps
    DEF Next, ChannelStep

LEMMA CancelPreserved == ChannelInv /\ [Next]_vars => CancelInv'
<1> SUFFICES ASSUME ChannelInv, [Next]_vars PROVE CancelInv'
    OBVIOUS
<1> USE KeepaliveAssumption DEF ChannelInv, TypeOK, RequestInv, TimerInv, CancelInv, Running, Opening, Later, Never, history
<1>0. TypeOK
    BY DEF ChannelInv
<1>1. CASE Dialed
    BY <1>0, <1>1, Exchanged DEF Dialed, BeginExchange
<1>2. CASE DialFails
    BY <1>0, <1>2 DEF DialFails, Opening
<1>3. CASE WriteTIMQ
    BY <1>0, <1>3 DEF WriteTIMQ
<1>4. CASE ExchangeFails
    BY <1>0, <1>4 DEF ExchangeFails
<1>5. CASE ReadACKQ
    BY <1>0, <1>5, Taken DEF ReadACKQ, KeepsDeadline
<1>6. CASE RunStarts
    BY <1>0, <1>6 DEF RunStarts
<1>7. CASE TimerFires
    BY <1>0, <1>7, Exchanged DEF TimerFires, BeginExchange
<1>8. CASE RunCancelled
    BY <1>0, <1>8 DEF RunCancelled, SeesCancel
<1>9. CASE Cancel
    BY <1>0, <1>9 DEF Cancel
<1>10. CASE HangUp
    BY <1>0, <1>10 DEF HangUp
<1>11. CASE Tick
    BY <1>0, <1>11 DEF Tick, Waiting, SeesCancel
<1>12. ASSUME NEW m, GatewaySends(m) PROVE CancelInv'
    BY <1>0, <1>12, Arrived DEF GatewaySends, Send
<1>13. CASE UNCHANGED vars
    BY <1>13 DEF vars
<1> QED
    BY <1>1, <1>2, <1>3, <1>4, <1>5, <1>6, <1>7, <1>8, <1>9, <1>10, <1>11, <1>12, <1>13, GatewaySteps
    DEF Next, ChannelStep

(* A reply that ends an exchange answers the request that is out. *)
LEMMA OwnReply ==
    ASSUME ChannelInv, ReadACKQ, Interval >= Second, phase' \in {"opened", "idle"}
    PROVE  answered' = Len(requests)
<1> DEFINE m == Head(inbox)
<1>0. TypeOK /\ InboxInv /\ RequestInv
    BY DEF ChannelInv
<1>1. ~Rejected(m) /\ Answers(m) /\ answered' = m.request /\ phase = "read"
    BY DEF ReadACKQ
<1>2. m.type \in Replies /\ m = inbox[1] /\ 1 \in 1..Len(inbox)
    BY <1>0, <1>1, Taken DEF Answers, Replies
<1>3. m.request \in 1..Len(requests)
    BY <1>0, <1>2, Taken DEF InboxInv, Messages
<1>4. Sequence(requests[m.request]) = Sequence(requests[Len(requests)])
    BY <1>1 DEF Rejected, acceptReply
<1>5. CASE m.request = Len(requests)
    BY <1>1, <1>5
<1>6. CASE m.request < Len(requests)
    <2> DEFINE a == requests[m.request] + uptime
               b == requests[Len(requests)] + uptime
    <2>1. requests[m.request] \in Nat /\ requests[Len(requests)] \in Nat /\ uptime \in Nat
        BY SMTT(30), <1>0, <1>3, ElementOfSeq DEF TypeOK
    <2>2. requests[m.request] + Interval <= requests[Len(requests)]
        BY <1>0, <1>3, <1>6 DEF RequestInv
    <2>3. a \in Nat /\ b \in Nat /\ a + Second <= b
        BY SMTT(30), <2>1, <2>2, KeepaliveAssumption
    <2>4. a \div Second # b \div Second
        <3> HIDE DEF a, b
        <3> QED
            BY <2>3, SecondsDiffer, KeepaliveAssumption
    <2> QED
        BY <1>4, <2>4 DEF Sequence
<1> QED
    BY <1>3, <1>5, <1>6 DEF TypeOK

LEMMA AnswerPreserved == ChannelInv /\ [Next]_vars => AnswerIsOwn'
<1> SUFFICES ASSUME ChannelInv, [Next]_vars PROVE AnswerIsOwn'
    OBVIOUS
<1> USE KeepaliveAssumption DEF ChannelInv, AnswerIsOwn, history
<1>0. TypeOK
    BY DEF ChannelInv
<1>1. CASE Dialed
    BY <1>0, <1>1, Exchanged DEF Dialed, BeginExchange
<1>2. CASE DialFails
    BY <1>0, <1>2 DEF DialFails, Opening
<1>3. CASE WriteTIMQ
    BY <1>0, <1>3 DEF WriteTIMQ
<1>4. CASE ExchangeFails
    BY <1>0, <1>4 DEF ExchangeFails
<1>5. CASE ReadACKQ
    BY <1>0, <1>5, OwnReply DEF ReadACKQ
<1>6. CASE RunStarts
    BY <1>0, <1>6 DEF RunStarts
<1>7. CASE TimerFires
    BY <1>0, <1>7, Exchanged DEF TimerFires, BeginExchange
<1>8. CASE RunCancelled
    BY <1>0, <1>8 DEF RunCancelled, SeesCancel
<1>9. CASE Cancel
    BY <1>0, <1>9 DEF Cancel
<1>10. CASE HangUp
    BY <1>0, <1>10 DEF HangUp
<1>11. CASE Tick
    BY <1>0, <1>11 DEF Tick, Waiting, SeesCancel
<1>12. ASSUME NEW m, GatewaySends(m) PROVE AnswerIsOwn'
    BY <1>0, <1>12, Arrived DEF GatewaySends, Send
<1>13. CASE UNCHANGED vars
    BY <1>13 DEF vars
<1> QED
    BY <1>1, <1>2, <1>3, <1>4, <1>5, <1>6, <1>7, <1>8, <1>9, <1>10, <1>11, <1>12, <1>13, GatewaySteps
    DEF Next, ChannelStep

LEMMA WordPreserved == ChannelInv /\ [Next]_vars => WordInv'
<1> SUFFICES ASSUME ChannelInv, [Next]_vars PROVE WordInv'
    OBVIOUS
<1> USE KeepaliveAssumption DEF ChannelInv, TypeOK, WordInv, history
<1>0. TypeOK
    BY DEF ChannelInv
<1>1. CASE Dialed
    <2> SUFFICES ASSUME told # Never PROVE WordInv'
        BY <1>1 DEF Dialed
    <2>1. PICK k \in 1..Len(inbox) : inbox[k].type \in Ending
        BY <1>1 DEF Dialed
    <2>2. Len(requests') = Len(requests) + 1 /\ inbox' = inbox
        BY <1>0, <1>1, Exchanged DEF Dialed
    <2>3. \A j \in 1..(k - 1) : inbox'[j].request < Len(requests')
        BY SMTT(30), <1>0, <2>1, <2>2, InboxRequests
    <2> QED
        BY <1>1, <2>1, <2>3 DEF Dialed
<1>2. CASE DialFails
    BY <1>0, <1>2 DEF DialFails, Opening
<1>3. CASE WriteTIMQ
    BY <1>0, <1>3 DEF WriteTIMQ
<1>4. CASE ExchangeFails
    BY <1>0, <1>4 DEF ExchangeFails
<1>5. CASE ReadACKQ
    <2> SUFFICES ASSUME told # Never, phase' # "done" PROVE WordInv'
        BY <1>5 DEF ReadACKQ
    <2>1. PICK k \in 1..Len(inbox) :
              /\ inbox[k].type \in Ending
              /\ Len(requests) > 0 /\ told < requests[Len(requests)] =>
                     \A j \in 1..(k - 1) : inbox[j].request < Len(requests)
        BY <1>5 DEF ReadACKQ
    <2>2. ~Rejected(inbox[1])
        BY <1>0, <1>5, Taken DEF ReadACKQ
    <2>3. inbox[1].type \notin Ending
        <3>1. inbox[1].type = "stop" => Len(requests) > 1
            <4>1. 1 \in 1..Len(inbox) /\ inbox[1] \in Messages(Len(requests))
                BY <1>0, <1>5, Taken
            <4> QED
                BY <1>0, <4>1 DEF InboxInv, Messages
        <3> QED
            BY <2>2, <3>1 DEF Rejected, EndsSession, Ending
    <2>a. Len(inbox') = Len(inbox) - 1 /\ \A i \in 1..Len(inbox') : inbox'[i] = inbox[i + 1]
        BY <1>0, <1>5, Taken
    <2>b. k # 1
        BY <2>1, <2>3
    <2>4. k - 1 \in 1..Len(inbox') /\ inbox'[k - 1] = inbox[k]
        <3>1. k \in Int /\ Len(inbox) \in Nat /\ k >= 2 /\ k <= Len(inbox)
            BY <1>0, <2>b, InboxRequests
        <3>2. k - 1 \in 1..Len(inbox') /\ (k - 1) + 1 = k
            BY SMTT(30), <2>a, <3>1
        <3> QED
            BY <2>a, <3>2
    <2>5. \A j \in 1..(k - 2) : inbox'[j] = inbox[j + 1]
        BY <1>0, <1>5, <2>4, Taken
    <2>6. Len(requests) > 0 /\ told < requests[Len(requests)] =>
              \A j \in 1..(k - 2) : inbox'[j].request < Len(requests)
        <3> SUFFICES ASSUME Len(requests) > 0, told < requests[Len(requests)],
                            NEW j \in 1..(k - 2)
                     PROVE  inbox'[j].request < Len(requests)
            OBVIOUS
        <3>1. j + 1 \in 1..(k - 1) /\ inbox'[j] = inbox[j + 1]
            BY <2>5
        <3> QED
            BY <2>1, <3>1
    <2>7. told' = told /\ requests' = requests
        BY <1>5 DEF ReadACKQ
    <2> QED
        BY SMTT(30), <2>1, <2>4, <2>6, <2>7
<1>6. CASE RunStarts
    BY <1>0, <1>6 DEF RunStarts
<1>7. CASE TimerFires
    <2> SUFFICES ASSUME told # Never PROVE WordInv'
        BY <1>7 DEF TimerFires
    <2>1. PICK k \in 1..Len(inbox) : inbox[k].type \in Ending
        BY <1>7 DEF TimerFires
    <2>2. Len(requests') = Len(requests) + 1 /\ inbox' = inbox
        BY <1>0, <1>7, Exchanged DEF TimerFires
    <2>3. \A j \in 1..(k - 1) : inbox'[j].request < Len(requests')
        BY SMTT(30), <1>0, <2>1, <2>2, InboxRequests
    <2> QED
        BY <1>7, <2>1, <2>3 DEF TimerFires
<1>8. CASE RunCancelled
    BY <1>0, <1>8 DEF RunCancelled, SeesCancel
<1>9. CASE Cancel
    BY <1>0, <1>9 DEF Cancel
<1>10. CASE HangUp
    BY <1>0, <1>10 DEF HangUp
<1>11. CASE Tick
    BY <1>0, <1>11 DEF Tick, Waiting, SeesCancel
<1>12. ASSUME NEW m, GatewaySends(m) PROVE WordInv'
    <2> SUFFICES ASSUME told' # Never PROVE WordInv'
        OBVIOUS
    <2>0. m \in Messages(Len(requests)) /\ Send(m)
        BY <1>12 DEF GatewaySends
    <2>1. /\ Len(inbox') = Len(inbox) + 1 /\ inbox'[Len(inbox) + 1] = m
          /\ \A i \in 1..Len(inbox) : inbox'[i] = inbox[i]
        BY <1>0, <2>0, Arrived
    <2>2. requests' = requests /\ phase' = phase /\ phase # "done"
        BY <2>0 DEF Send
    <2>3. CASE told # Never
        BY <1>0, <2>0, <2>1, <2>2, <2>3 DEF Send
    <2>4. CASE told = Never
        <3>1. m.type \in Ending /\ told' = now
            BY <2>0, <2>4 DEF Send
        <3>2. ~(Len(requests) > 0 /\ told' < requests'[Len(requests')])
            BY SMTT(30), <1>0, <2>2, <3>1 DEF RequestInv
        <3>3. Len(inbox) + 1 \in 1..Len(inbox') /\ inbox'[Len(inbox) + 1].type \in Ending
            BY <1>0, <2>1, <3>1
        <3> QED
            BY <2>2, <3>2, <3>3
    <2> QED
        BY <2>3, <2>4
<1>13. CASE UNCHANGED vars
    BY <1>13 DEF vars
<1> QED
    BY <1>1, <1>2, <1>3, <1>4, <1>5, <1>6, <1>7, <1>8, <1>9, <1>10, <1>11, <1>12, <1>13, GatewaySteps
    DEF Next, ChannelStep

LEMMA EndPreserved == ChannelInv /\ [Next]_vars => EndInv'
<1> SUFFICES ASSUME ChannelInv, [Next]_vars PROVE EndInv'
    OBVIOUS
<1> USE KeepaliveAssumption DEF ChannelInv, TypeOK, RequestInv, TimerInv, EndInv, Running, Opening, Later, Never, history
<1>0. TypeOK
    BY DEF ChannelInv
<1>1. CASE Dialed
    BY <1>0, <1>1, Exchanged DEF Dialed, BeginExchange
<1>2. CASE DialFails
    BY <1>0, <1>2 DEF DialFails, Opening
<1>3. CASE WriteTIMQ
    BY <1>0, <1>3 DEF WriteTIMQ
<1>4. CASE ExchangeFails
    BY <1>0, <1>4 DEF ExchangeFails
<1>5. CASE ReadACKQ
    <2> SUFFICES ASSUME told # Never, Interval >= Second, phase' = "idle" PROVE EndInv'
        BY <1>0, <1>5 DEF ReadACKQ
    <2>1. /\ phase = "read" /\ Len(requests) > 1
          /\ answered' = Len(requests) /\ answered' = inbox[1].request
          /\ ~Rejected(inbox[1]) /\ Answers(inbox[1])
        <3>1. Head(inbox) = inbox[1]
            BY <1>0, <1>5, Taken
        <3>2. answered' = Len(requests)
            BY <1>5, OwnReply, Zenon
        <3>3. requests # <<>> /\ requests \in Seq(Nat)
            BY <1>5 DEF ReadACKQ
        <3> QED
            BY <1>5, <3>1, <3>2, <3>3 DEF ReadACKQ
    <2>2. requests[Len(requests)] <= told
        <3>1. PICK k \in 1..Len(inbox) :
                  /\ inbox[k].type \in Ending
                  /\ Len(requests) > 0 /\ told < requests[Len(requests)] =>
                         \A j \in 1..(k - 1) : inbox[j].request < Len(requests)
            BY <2>1 DEF WordInv
        <3>2. k # 1
            BY <2>1, <3>1 DEF Answers, Ending
        <3>3. 1 \in 1..(k - 1)
            BY <3>2
        <3>4. requests[Len(requests)] \in Nat
            <4>1. requests \in Seq(Nat) /\ Len(requests) \in Nat
                BY <1>0, InboxRequests
            <4>2. Len(requests) \in 1..Len(requests)
                BY <2>1, <4>1
            <4> QED
                BY <4>1, <4>2, ElementOfSeq, Zenon
        <3>5. ~(told < requests[Len(requests)])
            <4>1. ~(inbox[1].request < Len(requests))
                BY <1>0, <2>1, InboxRequests
            <4>2. Len(requests) > 0
                BY <1>0, <2>1, InboxRequests
            <4> QED
                BY <3>1, <3>3, <4>1, <4>2, Zenon
        <3> QED
            BY <3>4, <3>5
    <2>3. now <= Later(told, started) + Timeout
        BY <2>1, <2>2
    <2> QED
        BY <1>0, <1>5, <2>3 DEF ReadACKQ
<1>6. CASE RunStarts
    BY <1>0, <1>6 DEF RunStarts
<1>7. CASE TimerFires
    BY <1>0, <1>7, Exchanged DEF TimerFires, BeginExchange
<1>8. CASE RunCancelled
    BY <1>0, <1>8 DEF RunCancelled, SeesCancel
<1>9. CASE Cancel
    BY <1>0, <1>9 DEF Cancel
<1>10. CASE HangUp
    BY <1>0, <1>10 DEF HangUp
<1>11. CASE Tick
    <2>1. told # Never => phase # "read"
        BY <1>0, <1>11 DEF Tick, Waiting, WordInv
    <2> QED
        BY <1>0, <1>11, <2>1 DEF Tick, Waiting
<1>12. ASSUME NEW m, GatewaySends(m) PROVE EndInv'
    BY <1>0, <1>12, Arrived DEF GatewaySends, Send
<1>13. CASE UNCHANGED vars
    BY <1>13 DEF vars
<1> QED
    BY <1>1, <1>2, <1>3, <1>4, <1>5, <1>6, <1>7, <1>8, <1>9, <1>10, <1>11, <1>12, <1>13, GatewaySteps
    DEF Next, ChannelStep

LEMMA ChannelInvariant == Spec => []ChannelInv
<1>1. ChannelInv /\ [Next]_vars => ChannelInv'
    BY TypePreserved, InboxPreserved, RequestPreserved, TimerPreserved, CancelPreserved,
       AnswerPreserved, WordPreserved, EndPreserved
    DEF ChannelInv
<1> QED
    BY InitChannel, <1>1, PTL DEF Spec
-----------------------------------------------------------------------------
(* A request is out in every exchange, and every message refers to one     *)
(* that was made.                                                          *)
THEOREM ChannelTypeCorrect == Spec => []TypeOK
<1>1. ChannelInv => TypeOK
    BY DEF ChannelInv
<1> QED
    BY ChannelInvariant, <1>1, PTL

(* run fails within an interval and two timeouts of the last answer,       *)
(* however the gateway chatters.                                           *)
THEOREM DeadGateway == Spec => []DeadGatewayNoticed
<1>1. ChannelInv => DeadGatewayNoticed
    BY KeepaliveAssumption
    DEF ChannelInv, TypeOK, TimerInv, DeadGatewayNoticed, Running, Later
<1> QED
    BY ChannelInvariant, <1>1, PTL

(* acceptReply takes no late or repeated reply for the answer to a later   *)
(* request, if the interval is at least the second sequence numbers count. *)
THEOREM OwnAnswer == Spec => []AnswerIsOwn
<1>1. ChannelInv => AnswerIsOwn
    BY DEF ChannelInv
<1> QED
    BY ChannelInvariant, <1>1, PTL

(* The message by which the gateway ends the session is read by the        *)
(* exchange that is under way or by the next.                              *)
THEOREM EndHeard == Spec => []EndIsHeard
<1>1. ChannelInv => EndIsHeard
    BY KeepaliveAssumption
    DEF ChannelInv, TypeOK, TimerInv, EndInv, EndIsHeard, Running, Opening, Later, Never
<1> QED
    BY ChannelInvariant, <1>1, PTL

(* The end of the context ends run within one exchange. *)
THEOREM CancelHeard == Spec => []CancelIsHeard
<1>1. ChannelInv => CancelIsHeard
    BY KeepaliveAssumption
    DEF ChannelInv, TypeOK, TimerInv, CancelInv, CancelIsHeard, Running, Opening, Later, Never
<1> QED
    BY ChannelInvariant, <1>1, PTL
=============================================================================
