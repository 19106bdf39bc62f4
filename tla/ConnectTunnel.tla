---------------------------- MODULE ConnectTunnel ----------------------------
(***************************************************************************)
(* connectTunnel of src/session.go: the keepalive, command, upload and     *)
(* receive channels are dialled one after the other, each camouflaged      *)
(* (src/camouflage.go) and then announced (src/l3_channel.go, or the       *)
(* handshake of src/keepalive_channel.go) under a context with a timeout   *)
(* of its own.  A context.AfterFunc closes the connection when that        *)
(* context ends, in a goroutine of its own: its close may come after the   *)
(* handshake has succeeded.                                                *)
(***************************************************************************)
EXTENDS Integers, FiniteSets

Channels == 1..4               \* keepalive, command, upload, receive
Command  == 2

VARIABLES at,                  \* the channel that is dialled
          step,
          ctx,                 \* its context: live, ended, or released by cancel
          armed,               \* an AfterFunc waits for the context to end
          closing,             \* connections such a function is about to close
          conn,                \* each connection: none, open or closed
          held,                \* the channels of the session
          callerEnded,         \* the context connectTunnel was given has ended
          contextEnded,        \* history: some dial's context ended during it
          result

connectVars == <<at, step, ctx, armed, closing, conn, held, callerEnded, contextEnded, result>>

ConnectTypeOK ==
    /\ at \in 1..5
    /\ step \in {"begin", "dial", "camouflage", "watch", "announce", "check", "failed",
                "over"}
    /\ ctx \in {"live", "ended", "released"}
    /\ armed \in BOOLEAN /\ (armed => ctx = "live")
    /\ closing \subseteq Channels
    /\ conn \in [Channels -> {"none", "open", "closed"}]
    /\ held \subseteq Channels
    /\ callerEnded \in BOOLEAN /\ contextEnded \in BOOLEAN
    /\ result \in {"none", "session", "error"}

ConnectInit ==
    /\ at = 1 /\ step = "begin" /\ ctx = "released"
    /\ armed = FALSE /\ closing = {} /\ held = {}
    /\ conn = [c \in Channels |-> "none"]
    /\ callerEnded = FALSE /\ contextEnded = FALSE /\ result = "none"
-----------------------------------------------------------------------------
(* Plausible slips in these files; no action uses them. *)
NeverArms == armed' = FALSE /\ closing' = closing
CancelsBeforeStop ==
    /\ armed' = FALSE
    /\ closing' = IF armed THEN closing \cup {at} ELSE closing
LeavesFailedOpen == UNCHANGED conn
-----------------------------------------------------------------------------
(* context.WithTimeout *)
BeginDial ==
    /\ step = "begin"
    /\ step' = "dial"
    /\ ctx' = IF callerEnded THEN "ended" ELSE "live"
    /\ contextEnded' = (contextEnded \/ callerEnded)
    /\ UNCHANGED <<at, armed, closing, conn, held, callerEnded, result>>

(* context.AfterFunc on a context that may have ended already. *)
Arm ==
    /\ armed' = (ctx = "live")
    /\ closing' = IF ctx = "live" THEN closing ELSE closing \cup {at}

(* stopHandshakeCancel, deferred after cancel and so run before it: a      *)
(* function that was started is not stopped.                               *)
Disarm == armed' = FALSE /\ closing' = closing

(* dialer.DialContext *)
Dial ==
    /\ step = "dial"
    /\ conn' = [conn EXCEPT ![at] = "open"]
    /\ Arm
    /\ step' = "camouflage"
    /\ UNCHANGED <<at, ctx, held, callerEnded, contextEnded, result>>

(* camouflageHandshake: hello, the records of the server, syn. *)
Camouflage ==
    /\ step = "camouflage" /\ conn[at] = "open"
    /\ Disarm
    /\ step' = "watch"
    /\ UNCHANGED <<at, ctx, conn, held, callerEnded, contextEnded, result>>

(* dialKeepaliveChannel and announceL3Channel watch the context anew. *)
Watch ==
    /\ step = "watch"
    /\ Arm
    /\ step' = "announce"
    /\ UNCHANGED <<at, ctx, conn, held, callerEnded, contextEnded, result>>

(* The gateway answers as expectedAABBType or acceptReply demands; the     *)
(* function returns and connectTunnel keeps the connection.                *)
Announce ==
    /\ step = "announce" /\ conn[at] = "open"
    /\ Disarm
    /\ ctx' = "released"
    /\ held' = held \cup {at}
    /\ step' = "check"
    /\ UNCHANGED <<at, conn, callerEnded, contextEnded, result>>

(* What connectTunnel does between two dials, and after the last: nothing  *)
(* but for the command reply, whose address and encoding it checks, and    *)
(* for the probe of the whole session.                                     *)
Checked ==
    /\ step = "check"
    /\ at' = at + 1
    /\ step' = IF at = 4 THEN "over" ELSE "begin"
    /\ result' = IF at = 4 THEN "session" ELSE "none"
    /\ UNCHANGED <<ctx, armed, closing, conn, held, callerEnded, contextEnded>>

(* dialCamouflagedConn, dialKeepaliveChannel and dialL3Channel close the   *)
(* connection whose handshake failed.                                      *)
CloseFailed == conn' = [conn EXCEPT ![at] = IF @ = "open" THEN "closed" ELSE @]

(* A dial or a handshake fails: the gateway refuses, answers what is not   *)
(* expected, or the connection was closed.                                 *)
HandshakeFails ==
    /\ step \in {"dial", "camouflage", "announce"}
    /\ CloseFailed
    /\ Disarm
    /\ ctx' = "released"
    /\ step' = "failed"
    /\ UNCHANGED <<at, held, callerEnded, contextEnded, result>>

(* The gateway assigned no address, or an encoding that is not supported;  *)
(* or the destination configured for the probe is not published.           *)
CheckFails ==
    /\ step = "check" /\ at \in {Command, 4}
    /\ step' = "failed"
    /\ UNCHANGED <<at, ctx, armed, closing, conn, held, callerEnded, contextEnded, result>>

(* The deferred closeChannels closes what the session holds. *)
DeferredCloseChannels ==
    /\ step = "failed"
    /\ conn' = [c \in Channels |-> IF c \in held THEN "closed" ELSE conn[c]]
    /\ step' = "over" /\ result' = "error"
    /\ UNCHANGED <<at, ctx, armed, closing, held, callerEnded, contextEnded>>

(* The timeout of a dial, or the end of the caller's context. *)
EndContext ==
    /\ ctx' = IF ctx = "live" THEN "ended" ELSE ctx
    /\ contextEnded' = (contextEnded \/ ctx = "live")
    /\ armed' = FALSE
    /\ closing' = IF armed THEN closing \cup {at} ELSE closing
    /\ UNCHANGED <<at, step, conn, held, result>>

DialTimesOut == ctx = "live" /\ EndContext /\ UNCHANGED callerEnded

CallerEnds == ~callerEnded /\ result = "none" /\ callerEnded' = TRUE /\ EndContext

(* The function AfterFunc started closes its connection. *)
WatchCloses(c) ==
    /\ c \in closing
    /\ closing' = closing \ {c}
    /\ conn' = [conn EXCEPT ![c] = "closed"]
    /\ UNCHANGED <<at, step, ctx, armed, held, callerEnded, contextEnded, result>>

LocalStep == BeginDial \/ Watch \/ Checked \/ DeferredCloseChannels

ConnectNext ==
    \/ LocalStep \/ Dial \/ Camouflage \/ Announce \/ HandshakeFails \/ CheckFails
    \/ DialTimesOut \/ CallerEnds
    \/ \E c \in Channels : WatchCloses(c)

ConnectSpec == ConnectInit /\ [][ConnectNext]_connectVars

(* The code goes on where it waits for nobody, timers fire, and a started  *)
(* function runs.  An operation on a closed connection, or under a context *)
(* that has ended in the case of the dial, fails.  The gateway may never   *)
(* answer.                                                                 *)
ConnectFairness ==
    /\ WF_connectVars(LocalStep)
    /\ WF_connectVars(DialTimesOut)
    /\ \A c \in Channels : WF_connectVars(WatchCloses(c))
    /\ WF_connectVars(step = "dial" /\ ctx = "ended" /\ HandshakeFails)
    /\ WF_connectVars(/\ step \in {"camouflage", "announce"} /\ conn[at] = "closed"
                      /\ HandshakeFails)

ConnectFairSpec == ConnectSpec /\ ConnectFairness
-----------------------------------------------------------------------------
(* A connectTunnel that fails leaves no connection open, wherever it       *)
(* failed and whatever the AfterFuncs of its dials are about to do.        *)
NoConnectionLeaks == result = "error" => \A c \in Channels : conn[c] # "open"

(* A session is returned with its four channels, all of them open unless a *)
(* context ended while they were dialled: then the close of an AfterFunc   *)
(* that could no longer be stopped may still hit one.                      *)
SessionIsWhole ==
    result = "session" =>
        /\ held = Channels
        /\ ~contextEnded => \A c \in Channels : conn[c] = "open"
        /\ ~contextEnded => closing = {}

(* connectTunnel returns, though the gateway may accept connections and    *)
(* never say a word.                                                       *)
ConnectReturns == <>(result # "none")
=============================================================================
