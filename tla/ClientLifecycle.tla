--------------------------- MODULE ClientLifecycle ---------------------------
(***************************************************************************)
(* src/client.go and src/client_supervisor.go: one client, the goroutine   *)
(* that supervises its tunnel, the one that delivers its tunnel events,    *)
(* and the callers of Start, Suspend, Resume, RestartSession, WaitReady    *)
(* and Close, over the sessions of ClientSession.                          *)
(*                                                                         *)
(* A section under lifecycleAccess or tunnelEventAccess is one step; where *)
(* the code unlocks and goes on, another goroutine may step in between.    *)
(* sup, disp and closer say how far runSupervisor, the dispatcher and      *)
(* Close have come.                                                        *)
(***************************************************************************)
EXTENDS ClientSession, Integers, Sequences

CONSTANTS MaxSessions,        \* bound: tunnels connected in one behaviour
          MaxSuspends,        \* bound: calls of Suspend
          MaxRestarts,        \* bound: calls of RestartSession
          HasCallback,        \* options.OnTunnelEvent # nil
          ContextEnds,        \* whether options.Context may be cancelled
          InitialBackoff,     \* clientReconnectInitialBackoff
          MaximumBackoff,     \* clientReconnectMaximumBackoff
          ReconnectTimeout    \* options.ReconnectTimeout

ASSUME LifecycleAssumption ==
    /\ MaxSessions \in Nat \ {0} /\ Sessions = 1..MaxSessions
    /\ MaxSuspends \in Nat /\ MaxRestarts \in Nat
    /\ HasCallback \in BOOLEAN /\ ContextEnds \in BOOLEAN
    /\ InitialBackoff \in Nat \ {0}
    /\ MaximumBackoff \in Nat /\ InitialBackoff <= MaximumBackoff
    /\ ReconnectTimeout \in Nat \ {0}

VARIABLES
    \* lifecycleAccess
    started, closed, terminalError, suspended,
    current, published,      \* currentSession and publishedSession, 0 for nil
    cancelled,               \* the supervisor's context
    configuration,           \* tunnelConfiguration: whose it is, 0 for the zero one
    \* runSupervisor
    sup,
    web,                     \* "none"; "login": authenticate is past login_psw;
                             \* "held": the web variable is set
    err, ran,                \* what the attempt ended with; runSession's published
    reconnect, waited,       \* reconnectState, and the time waited since tunnelLost
    latest,                  \* the session connectTunnel made last
    woken,                   \* the resumed channel waitResumed holds is closed
    spent,                   \* web has lived through a Suspend
    \* tunnelEventAccess
    tunnelEvents, wake, stopped,
    disp, event, target,     \* the dispatcher, the event and the session in its hands
    delivered,               \* the configuration of the event delivered last
    \* callers
    closer, victim,          \* Close, and the session it found
    calls,                   \* Fail calls that have left the lock behind them
    suspends, restarts,
    waiter, watching         \* a WaitReady, and whether its stateChanged is unsignalled

endVars     == <<started, closed, terminalError, cancelled>>
tunnelVars  == <<current, published>>
supVars     == <<web, err, ran, reconnect, waited, latest, woken>>
suspendVars == <<suspended, spent, suspends>>
eventVars   == <<tunnelEvents, wake, stopped>>
dispVars    == <<disp, event, target, delivered>>
closeVars   == <<closer, victim>>
callVars    == <<calls, restarts>>
waitVars    == <<waiter, watching>>

vars == <<sessionVars, endVars, tunnelVars, configuration, sup, supVars, suspendVars,
          eventVars, dispVars, closeVars, callVars, waitVars>>

SupervisorLabels ==
    {"off", "top", "gate", "release", "resume", "parked", "auth", "conf", "authFailed",
     "authenticated", "connect", "set", "abandon", "start", "configure", "publish",
     "unpublished", "giveUp", "up", "upWake", "recheck", "run", "close", "clear",
     "unconfigure", "down", "downWake", "after", "afterSuspended", "drop", "discard",
     "backoff", "sleep", "exit", "closeState", "done"}

Outcomes == Failures \cup {"none", "transient", "terminal"}
Events == [reason : {"initial", "reestablishment", "disconnect"},
           configuration : Sessions \cup {0}]
TerminalErrors == {"none", "terminal", "timeout", "event"}

TypeOK ==
    /\ SessionTypeOK
    /\ started \in BOOLEAN /\ closed \in BOOLEAN /\ cancelled \in BOOLEAN
    /\ suspended \in BOOLEAN /\ spent \in BOOLEAN
    /\ terminalError \in TerminalErrors
    /\ current \in Sessions \cup {0} /\ published \in Sessions \cup {0}
    /\ configuration \in Sessions \cup {0} /\ latest \in Sessions \cup {0}
    /\ sup \in SupervisorLabels
    /\ web \in {"none", "login", "held"}
    /\ err \in Outcomes /\ ran \in BOOLEAN /\ woken \in BOOLEAN
    /\ reconnect \in [backoff : InitialBackoff..MaximumBackoff, established : BOOLEAN,
                      reconnecting : BOOLEAN, timeoutRemaining : 0..ReconnectTimeout]
    /\ waited \in 0..ReconnectTimeout
    /\ tunnelEvents \in Seq(Events) /\ wake \in BOOLEAN /\ stopped \in BOOLEAN
    /\ disp \in {"off", "look", "wait", "callback", "stop", "session", "terminal",
                 "cancel", "fail", "gone"}
    /\ event \in Events /\ target \in Sessions \cup {0} /\ delivered \in Sessions \cup {0}
    /\ closer \in {"no", "stop", "wake", "session", "await", "returned"}
    /\ victim \in Sessions \cup {0}
    /\ calls \subseteq Sessions \X {"suspended", "restart"}
    /\ suspends \in 0..MaxSuspends /\ restarts \in 0..MaxRestarts
    /\ waiter \in {"idle", "parked"} /\ watching \in BOOLEAN

newReconnectState ==
    [backoff |-> InitialBackoff, established |-> FALSE, reconnecting |-> FALSE,
     timeoutRemaining |-> 0]

Disconnect == [reason |-> "disconnect", configuration |-> 0]

(* A Client as NewClient leaves it. *)
Init ==
    /\ SessionInit
    /\ started = FALSE /\ closed = FALSE /\ terminalError = "none" /\ cancelled = FALSE
    /\ current = 0 /\ published = 0 /\ configuration = 0
    /\ sup = "off" /\ web = "none" /\ err = "none" /\ ran = FALSE
    /\ reconnect = newReconnectState /\ waited = 0 /\ latest = 0 /\ woken = FALSE
    /\ suspended = FALSE /\ spent = FALSE /\ suspends = 0
    /\ tunnelEvents = <<>> /\ wake = FALSE /\ stopped = FALSE
    /\ disp = "off" /\ event = Disconnect /\ target = 0 /\ delivered = 0
    /\ closer = "no" /\ victim = 0
    /\ calls = {} /\ restarts = 0
    /\ waiter = "idle" /\ watching = FALSE
-----------------------------------------------------------------------------
(* Plausible slips in these files; no action uses them. *)

SignalsNoOne         == UNCHANGED watching
OnlyLatestEvent(e)   == <<e>>
SendsNoWake          == UNCHANGED wake
CloseCalled(s)       == life[s] # "open"
BacksOffUncapped     == [reconnect EXCEPT !.backoff = @ * 2]
BudgetCarriedOver    ==
    [backoff |-> InitialBackoff, established |-> TRUE, reconnecting |-> TRUE,
     timeoutRemaining |-> IF reconnect.reconnecting THEN reconnect.timeoutRemaining
                                                    ELSE ReconnectTimeout]
DeafToCancel         == FALSE
DoneUnawaited        == TRUE
-----------------------------------------------------------------------------
(* signalStateChangedLocked: everyone who holds the old channel wakes. *)
SignalStateChanged == watching' = FALSE

(* The send on tunnelEventWake, which holds one token at most. *)
SendWake == wake' = TRUE

(* A call of session.Close returns, its own or another's body being done. *)
CloseDone(s) == life[s] = "closed"

(* The section of setTerminalError under the lock. *)
RecordTerminalError(why) ==
    IF closed \/ terminalError # "none"
    THEN UNCHANGED <<terminalError, watching>>
    ELSE terminalError' = why /\ SignalStateChanged

(* setTerminalError called by the supervisor, which then returns: that it  *)
(* also cancels its own context is seen by no one before it has.           *)
SupervisorFails(why) ==
    /\ RecordTerminalError(why)
    /\ cancelled' = TRUE
    /\ sup' = "exit"
    /\ UNCHANGED <<started, closed, waiter>>

(* Where every pass through the loop, and every attempt, looks for the end. *)
Over == cancelled \/ closed

(* The supervisor moves from one label to another and changes nothing else. *)
Moves(from, to) ==
    /\ sup = from
    /\ sup' = to
    /\ UNCHANGED <<sessionVars, endVars, tunnelVars, configuration, supVars, suspendVars,
                   eventVars, dispVars, closeVars, callVars, waitVars>>

Top == Moves("top", IF Over THEN "exit" ELSE "gate")

Gate == Moves("gate", IF suspended THEN "release" ELSE IF web = "none" THEN "auth" ELSE "connect")

(* releaseWebSession: logout.csp, whose answer changes nothing here. *)
Logout ==
    /\ web' = "none"
    /\ spent' = FALSE
    /\ UNCHANGED <<suspended, suspends>>

ReleaseForSuspension ==
    /\ sup = "release"
    /\ sup' = "resume"
    /\ Logout
    /\ UNCHANGED <<sessionVars, endVars, tunnelVars, configuration, err, ran, reconnect,
                   waited, latest, woken, eventVars, dispVars, closeVars, callVars, waitVars>>

(* What follows waitResumed: a fresh reconnectState and, web being nil, *)
(* authenticate.                                                        *)
Resumed ==
    /\ sup' = "auth"
    /\ reconnect' = newReconnectState
    /\ waited' = 0
    /\ woken' = FALSE
    /\ UNCHANGED <<sessionVars, endVars, tunnelVars, configuration, web, err, ran, latest,
                   suspendVars, eventVars, dispVars, closeVars, callVars, waitVars>>

(* waitResumed: the client is resumed already, or when Resume closes the *)
(* channel that was read under the lock.                                 *)
WaitResumed ==
    \/ sup = "resume" /\ ~suspended /\ Resumed
    \/ suspended /\ Moves("resume", "parked")
    \/ sup = "parked" /\ woken /\ Resumed

ResumeCancelled ==
    /\ sup = "parked" /\ cancelled
    /\ sup' = "exit"
    /\ woken' = FALSE
    /\ UNCHANGED <<sessionVars, endVars, tunnelVars, configuration, web, err, ran,
                   reconnect, waited, latest, suspendVars, eventVars, dispVars,
                   closeVars, callVars, waitVars>>
-----------------------------------------------------------------------------
SupervisorResult(label, login, outcome) ==
    /\ sup' = label
    /\ web' = login
    /\ err' = outcome
    /\ UNCHANGED <<sessionVars, endVars, tunnelVars, configuration, ran, reconnect, waited,
                   latest, woken, suspendVars, eventVars, dispVars, closeVars, callVars,
                   waitVars>>

(* authenticate: login_auth.csp and login_psw.csp, then conf.csp and       *)
(* rclist.csp.  Each may fail, in a way that ends the client or not; a     *)
(* failure after login_psw.csp forgets the login without a logout.         *)
AuthenticateFails ==
    /\ sup \in {"auth", "conf"}
    /\ \E outcome \in {"transient", "terminal"} : SupervisorResult("authFailed", "none", outcome)

LoggedIn ==
    /\ sup = "auth"
    /\ SupervisorResult("conf", "login", "none")

Authenticated ==
    /\ sup = "conf"
    /\ SupervisorResult("authenticated", "held", "none")

HandleAuthenticateError ==
    /\ sup = "authFailed"
    /\ \/ Over /\ Moves("authFailed", "exit")
       \/ /\ ~Over /\ err = "terminal"
          /\ SupervisorFails("terminal")
          /\ UNCHANGED <<sessionVars, tunnelVars, configuration, supVars, suspendVars,
                         eventVars, dispVars, closeVars, callVars>>
       \/ ~Over /\ err = "transient" /\ Moves("authFailed", "backoff")

AfterAuthenticate == Moves("authenticated", IF suspended THEN "top" ELSE "connect")

(* connectTunnel: a session with its four channels, or an error. *)
ConnectFails ==
    /\ sup = "connect"
    /\ ran' = FALSE
    /\ err' \in {"transient", "terminal"}
    /\ sup' = "after"
    /\ UNCHANGED <<sessionVars, endVars, tunnelVars, configuration, web, reconnect, waited,
                   latest, woken, suspendVars, eventVars, dispVars, closeVars, callVars,
                   waitVars>>

Connected ==
    /\ sup = "connect"
    /\ latest < MaxSessions
    /\ latest' = latest + 1
    /\ sup' = "set"
    /\ UNCHANGED <<sessionVars, endVars, tunnelVars, configuration, web, err, ran, reconnect,
                   waited, woken, suspendVars, eventVars, dispVars, closeVars, callVars,
                   waitVars>>
-----------------------------------------------------------------------------
(* runSession, with latest as its session. *)

(* setCurrentSession *)
SetCurrentSession ==
    \/ Over /\ Moves("set", "abandon")
    \/ /\ sup = "set" /\ ~Over
       /\ current' = latest
       /\ published' = 0
       /\ SignalStateChanged
       /\ sup' = "start"
       /\ UNCHANGED <<sessionVars, endVars, configuration, supVars, suspendVars, eventVars,
                      dispVars, closeVars, callVars, waiter>>

RunStart ==
    /\ sup = "start"
    /\ StartSession(latest)
    /\ sup' = "configure"
    /\ UNCHANGED <<endVars, tunnelVars, configuration, supVars, suspendVars, eventVars,
                   dispVars, closeVars, callVars, waitVars>>

(* setTunnelConfiguration, of this session or of none. *)
SetTunnelConfiguration ==
    /\ \/ sup = "configure" /\ configuration' = latest /\ sup' = "publish"
       \/ sup = "unconfigure" /\ configuration' = 0 /\ sup' = "down"
    /\ UNCHANGED <<sessionVars, endVars, tunnelVars, supVars, suspendVars, eventVars,
                   dispVars, closeVars, callVars, waitVars>>

Publishable == ~Over /\ terminalError = "none" /\ current = latest /\ ready[latest]

(* publishCurrentSession *)
PublishCurrentSession ==
    \/ sup = "publish" /\ ~Publishable /\ Moves("publish", "unpublished")
    \/ /\ sup = "publish" /\ Publishable
       /\ published' = latest
       /\ SignalStateChanged
       /\ sup' = "up"
       /\ UNCHANGED <<sessionVars, endVars, current, configuration, supVars, suspendVars,
                      eventVars, dispVars, closeVars, callVars, waiter>>

(* clearCurrentSession, after a failed publication or after the run. *)
ClearCurrentSession ==
    /\ \/ sup = "unpublished" /\ sup' = "giveUp"
       \/ sup = "clear" /\ sup' = "unconfigure"
    /\ current' = IF current = latest THEN 0 ELSE current
    /\ published' = IF current = latest THEN 0 ELSE published
    /\ SignalStateChanged
    /\ UNCHANGED <<sessionVars, endVars, configuration, supVars, suspendVars, eventVars,
                   dispVars, closeVars, callVars, waiter>>

(* The event runSession publishes: the tunnel is up, or it is down. *)
TunnelEvent ==
    IF sup = "down" THEN Disconnect
    ELSE [reason |-> IF reconnect.established THEN "reestablishment" ELSE "initial",
          configuration |-> latest]

EventsWith(e) == Append(tunnelEvents, e)

(* publishTunnelEvent: the event first, the wake-up token after the unlock. *)
PublishTunnelEvent ==
    /\ sup \in {"up", "down"}
    /\ tunnelEvents' = IF HasCallback /\ ~stopped THEN EventsWith(TunnelEvent)
                                                  ELSE tunnelEvents
    /\ sup' = IF sup = "up" THEN "upWake" ELSE "downWake"
    /\ UNCHANGED <<sessionVars, endVars, tunnelVars, configuration, supVars, suspendVars,
                   wake, stopped, dispVars, closeVars, callVars, waitVars>>

WakeDispatcher ==
    /\ \/ sup = "upWake" /\ sup' = "recheck"
       \/ sup = "downWake" /\ sup' = "after"
    /\ IF HasCallback THEN SendWake ELSE UNCHANGED wake
    /\ UNCHANGED <<sessionVars, endVars, tunnelVars, configuration, supVars, suspendVars,
                   tunnelEvents, stopped, dispVars, closeVars, callVars, waitVars>>

(* A slip no action uses: nobody looks again. *)
RecheckForgotten == Moves("recheck", "run")

(* A suspension that came before the session was published finds it here. *)
RecheckSuspended ==
    /\ sup = "recheck"
    /\ IF suspended THEN FailSession(latest, "suspended") ELSE UNCHANGED sessionVars
    /\ sup' = "run"
    /\ UNCHANGED <<endVars, tunnelVars, configuration, supVars, suspendVars, eventVars,
                   dispVars, closeVars, callVars, waitVars>>

(* The select of runSession ends with the context or with the session. *)
RunEnds ==
    /\ sup = "run"
    /\ \/ cancelled /\ err' = "none"
       \/ failure[latest] # "none" /\ err' = failure[latest]
    /\ ran' = TRUE
    /\ sup' = "close"
    /\ UNCHANGED <<sessionVars, endVars, tunnelVars, configuration, web, reconnect, waited,
                   latest, woken, suspendVars, eventVars, dispVars, closeVars, callVars,
                   waitVars>>

(* session.Close on each way out of runSession: the first call begins it, *)
(* and any call waits until it is done.                                   *)
CloseLabels == {"abandon", "giveUp", "close"}

CloseSession ==
    /\ sup \in CloseLabels
    /\ BeginClose(latest)
    /\ UNCHANGED <<endVars, tunnelVars, configuration, sup, supVars, suspendVars, eventVars,
                   dispVars, closeVars, callVars, waitVars>>

SessionClosed ==
    /\ sup \in CloseLabels
    /\ CloseDone(latest)
    /\ IF sup = "close" THEN sup' = "clear" /\ UNCHANGED <<err, ran>>
                        ELSE sup' = "after" /\ err' = "closed" /\ ran' = FALSE
    /\ UNCHANGED <<sessionVars, endVars, tunnelVars, configuration, web, reconnect, waited,
                   latest, woken, suspendVars, eventVars, dispVars, closeVars, callVars,
                   waitVars>>
-----------------------------------------------------------------------------
(* What the supervisor makes of the attempt's outcome. *)

AfterAttempt == Moves("after", IF Over THEN "exit" ELSE "afterSuspended")

(* A suspended tunnel takes the web session with it; a terminal error ends *)
(* the client; any other failure starts over from the web endpoints.       *)
Suspension == err = "suspended" \/ suspended
TerminalOutcome == err \in {"terminal", "event"}

AfterSuspended ==
    /\ sup = "afterSuspended"
    /\ \/ Suspension /\ Moves("afterSuspended", "drop")
       \/ ~Suspension /\ ~TerminalOutcome /\ Moves("afterSuspended", "discard")
       \/ /\ ~Suspension /\ TerminalOutcome
          /\ SupervisorFails(err)
          /\ UNCHANGED <<sessionVars, tunnelVars, configuration, supVars, suspendVars,
                         eventVars, dispVars, closeVars, callVars>>

DropForSuspension ==
    /\ sup = "drop"
    /\ Logout
    /\ reconnect' = newReconnectState
    /\ waited' = 0
    /\ sup' = "top"
    /\ UNCHANGED <<sessionVars, endVars, tunnelVars, configuration, err, ran, latest, woken,
                   eventVars, dispVars, closeVars, callVars, waitVars>>

tunnelLost ==
    [backoff |-> InitialBackoff, established |-> TRUE, reconnecting |-> TRUE,
     timeoutRemaining |-> ReconnectTimeout]

(* discardWebSession, and at once around the loop if a tunnel was up. *)
DiscardWebSession ==
    /\ sup = "discard"
    /\ Logout
    /\ IF ran THEN sup' = "top" /\ reconnect' = tunnelLost /\ waited' = 0
              ELSE sup' = "backoff" /\ UNCHANGED <<reconnect, waited>>
    /\ UNCHANGED <<sessionVars, endVars, tunnelVars, configuration, err, ran, latest, woken,
                   eventVars, dispVars, closeVars, callVars, waitVars>>

Lesser(a, b) == IF a < b THEN a ELSE b

(* waitClientReconnectBackoff, before its timer. *)
Backoff ==
    /\ sup = "backoff"
    /\ IF reconnect.reconnecting /\ reconnect.timeoutRemaining <= 0
       THEN /\ SupervisorFails("timeout")
            /\ UNCHANGED <<sessionVars, tunnelVars, configuration, supVars, suspendVars,
                           eventVars, dispVars, closeVars, callVars>>
       ELSE Moves("backoff", "sleep")

BackoffWait ==
    IF reconnect.reconnecting THEN Lesser(reconnect.backoff, reconnect.timeoutRemaining)
                              ELSE reconnect.backoff

attemptFailed == [reconnect EXCEPT !.backoff = Lesser(@ * 2, MaximumBackoff)]

(* The timer fires, and attemptFailed doubles the next wait. *)
BackoffEnds ==
    /\ sup = "sleep"
    /\ reconnect' =
           [attemptFailed EXCEPT
              !.timeoutRemaining = IF reconnect.reconnecting THEN @ - BackoffWait ELSE @]
    /\ waited' = IF reconnect.reconnecting THEN waited + BackoffWait ELSE waited
    /\ sup' = "top"
    /\ UNCHANGED <<sessionVars, endVars, tunnelVars, configuration, web, err, ran, latest,
                   woken, suspendVars, eventVars, dispVars, closeVars, callVars, waitVars>>

BackoffCancelled == cancelled /\ Moves("sleep", "exit")

(* The deferred calls of runSupervisor, last to first. *)
ExitReleases ==
    /\ sup = "exit"
    /\ Logout
    /\ sup' = "closeState"
    /\ UNCHANGED <<sessionVars, endVars, tunnelVars, configuration, err, ran, reconnect,
                   waited, latest, woken, eventVars, dispVars, closeVars, callVars, waitVars>>

closeSupervisorState ==
    /\ sup = "closeState"
    /\ closed' = (closed \/ terminalError = "none")
    /\ current' = 0
    /\ published' = 0
    /\ SignalStateChanged
    /\ sup' = "done"
    /\ UNCHANGED <<sessionVars, started, terminalError, cancelled, configuration, supVars,
                   suspendVars, eventVars, dispVars, closeVars, callVars, waiter>>
-----------------------------------------------------------------------------
(* runTunnelEventDispatcher *)

(* The section under tunnelEventAccess at the top of the loop. *)
DispatcherLooks ==
    /\ disp = "look"
    /\ \/ stopped /\ disp' = "gone" /\ tunnelEvents' = <<>> /\ UNCHANGED event
       \/ ~stopped /\ tunnelEvents = <<>> /\ disp' = "wait" /\ UNCHANGED <<tunnelEvents, event>>
       \/ /\ ~stopped /\ tunnelEvents # <<>>
          /\ disp' = "callback"
          /\ event' = Head(tunnelEvents)
          /\ tunnelEvents' = Tail(tunnelEvents)
    /\ UNCHANGED <<sessionVars, endVars, tunnelVars, configuration, sup, supVars, suspendVars,
                   wake, stopped, target, delivered, closeVars, callVars, waitVars>>

DispatcherWakes ==
    /\ disp = "wait" /\ wake
    /\ wake' = FALSE
    /\ disp' = "look"
    /\ UNCHANGED <<sessionVars, endVars, tunnelVars, configuration, sup, supVars, suspendVars,
                   tunnelEvents, stopped, event, target, delivered, closeVars, callVars,
                   waitVars>>

(* OnTunnelEvent returns, with an error or without. *)
CallbackReturns ==
    /\ disp = "callback"
    /\ delivered' = event.configuration
    /\ disp' \in {"look", "stop"}
    /\ UNCHANGED <<sessionVars, endVars, tunnelVars, configuration, sup, supVars, suspendVars,
                   eventVars, event, target, closeVars, callVars, waitVars>>

DispatcherStops ==
    /\ disp = "stop"
    /\ stopped' = TRUE
    /\ tunnelEvents' = <<>>
    /\ disp' = "session"
    /\ UNCHANGED <<sessionVars, endVars, tunnelVars, configuration, sup, supVars, suspendVars,
                   wake, event, target, delivered, closeVars, callVars, waitVars>>

DispatcherReadsSession ==
    /\ disp = "session"
    /\ target' = current
    /\ disp' = "terminal"
    /\ UNCHANGED <<sessionVars, endVars, tunnelVars, configuration, sup, supVars, suspendVars,
                   eventVars, event, delivered, closeVars, callVars, waitVars>>

(* setTerminalError: the lock, then the cancellation, unless it is closed. *)
DispatcherFails ==
    /\ disp = "terminal"
    /\ RecordTerminalError("event")
    /\ disp' = IF closed THEN "fail" ELSE "cancel"
    /\ UNCHANGED <<sessionVars, started, closed, cancelled, tunnelVars, configuration, sup,
                   supVars, suspendVars, eventVars, event, target, delivered, closeVars,
                   callVars, waiter>>

DispatcherCancels ==
    /\ disp = "cancel"
    /\ cancelled' = TRUE
    /\ disp' = "fail"
    /\ UNCHANGED <<sessionVars, started, closed, terminalError, tunnelVars, configuration,
                   sup, supVars, suspendVars, eventVars, event, target, delivered, closeVars,
                   callVars, waitVars>>

DispatcherFailsSession ==
    /\ disp = "fail"
    /\ IF target # 0 THEN FailSession(target, "event") ELSE UNCHANGED sessionVars
    /\ disp' = "gone"
    /\ UNCHANGED <<endVars, tunnelVars, configuration, sup, supVars, suspendVars, eventVars,
                   event, target, delivered, closeVars, callVars, waitVars>>
-----------------------------------------------------------------------------
(* The callers of the client. *)

Start ==
    /\ ~started /\ ~closed
    /\ started' = TRUE
    /\ sup' = "top"
    /\ disp' = IF HasCallback THEN "look" ELSE "off"
    /\ UNCHANGED <<sessionVars, closed, terminalError, cancelled, tunnelVars, configuration,
                   supVars, suspendVars, eventVars, event, target, delivered, closeVars,
                   callVars, waitVars>>

(* options.Context ends, and the supervisor's context with it. *)
ContextDone ==
    /\ ContextEnds /\ started /\ ~cancelled
    /\ cancelled' = TRUE
    /\ UNCHANGED <<sessionVars, started, closed, terminalError, tunnelVars, configuration,
                   sup, supVars, suspendVars, eventVars, dispVars, closeVars, callVars,
                   waitVars>>

RestartSession ==
    /\ restarts < MaxRestarts
    /\ restarts' = restarts + 1
    /\ calls' = IF current # 0 THEN calls \cup {<<current, "restart">>} ELSE calls
    /\ UNCHANGED <<sessionVars, endVars, tunnelVars, configuration, sup, supVars, suspendVars,
                   eventVars, dispVars, closeVars, waitVars>>

Suspend ==
    /\ suspends < MaxSuspends
    /\ ~suspended /\ ~closed
    /\ suspends' = suspends + 1
    /\ suspended' = TRUE
    /\ spent' = (web # "none")
    /\ calls' = IF published # 0 THEN calls \cup {<<published, "suspended">>} ELSE calls
    /\ UNCHANGED <<sessionVars, endVars, tunnelVars, configuration, sup, supVars, eventVars,
                   dispVars, closeVars, restarts, waitVars>>

(* The Fail at the end of RestartSession or Suspend, whenever it comes. *)
FailCall ==
    /\ \E call \in calls : FailSession(call[1], call[2]) /\ calls' = calls \ {call}
    /\ UNCHANGED <<endVars, tunnelVars, configuration, sup, supVars, suspendVars, eventVars,
                   dispVars, closeVars, restarts, waitVars>>

Resume ==
    /\ suspended
    /\ suspended' = FALSE
    /\ woken' = (sup = "parked")
    /\ UNCHANGED <<sessionVars, endVars, tunnelVars, configuration, sup, web, err, ran,
                   reconnect, waited, latest, spent, suspends, eventVars, dispVars, closeVars,
                   callVars, waitVars>>

(* WaitReady: what it returns for, and the channel it waits on otherwise;  *)
(* it leaves its select when that is closed or when its own context ends.  *)
Settled ==
    terminalError # "none" \/ closed \/ (current # 0 /\ published = current /\ ready[current])

WaitReady ==
    /\ \/ waiter = "idle" /\ ~Settled /\ waiter' = "parked" /\ watching' = TRUE
       \/ waiter = "parked" /\ waiter' = "idle" /\ watching' = FALSE
    /\ UNCHANGED <<sessionVars, endVars, tunnelVars, configuration, sup, supVars, suspendVars,
                   eventVars, dispVars, closeVars, callVars>>

(* Close, the section under lifecycleAccess. *)
CloseLocks ==
    /\ closer = "no"
    /\ closer' = "stop"
    /\ closed' = TRUE
    /\ cancelled' = (cancelled \/ started)
    /\ victim' = current
    /\ SignalStateChanged
    /\ UNCHANGED <<sessionVars, started, terminalError, tunnelVars, configuration, sup,
                   supVars, suspendVars, eventVars, dispVars, callVars, waiter>>

CloseStopsEvents ==
    /\ closer = "stop"
    /\ closer' = "wake"
    /\ stopped' = TRUE
    /\ tunnelEvents' = <<>>
    /\ UNCHANGED <<sessionVars, endVars, tunnelVars, configuration, sup, supVars, suspendVars,
                   wake, dispVars, victim, callVars, waitVars>>

CloseWakesDispatcher ==
    /\ closer = "wake"
    /\ closer' = IF victim = 0 THEN "await" ELSE "session"
    /\ SendWake
    /\ UNCHANGED <<sessionVars, endVars, tunnelVars, configuration, sup, supVars, suspendVars,
                   tunnelEvents, stopped, dispVars, victim, callVars, waitVars>>

CloseClosesSession ==
    /\ closer = "session"
    /\ \/ BeginClose(victim) /\ UNCHANGED closer
       \/ CloseDone(victim) /\ closer' = "await" /\ UNCHANGED sessionVars
    /\ UNCHANGED <<endVars, tunnelVars, configuration, sup, supVars, suspendVars, eventVars,
                   dispVars, victim, callVars, waitVars>>

(* <-supervisorDone, when there is a supervisor. *)
SupervisorDone == started => sup = "done"

CloseReturns ==
    /\ closer = "await"
    /\ SupervisorDone
    /\ closer' = "returned"
    /\ UNCHANGED <<sessionVars, endVars, tunnelVars, configuration, sup, supVars, suspendVars,
                   eventVars, dispVars, victim, callVars, waitVars>>
-----------------------------------------------------------------------------
(* The session's own steps: the network takes it down, or Close ends. *)
SessionLost ==
    /\ \E s \in Sessions : running[s] /\ failure[s] = "none" /\ FailSession(s, "lost")
    /\ UNCHANGED <<endVars, tunnelVars, configuration, sup, supVars, suspendVars, eventVars,
                   dispVars, closeVars, callVars, waitVars>>

SessionCloses ==
    /\ \E s \in Sessions : EndClose(s)
    /\ UNCHANGED <<endVars, tunnelVars, configuration, sup, supVars, suspendVars, eventVars,
                   dispVars, closeVars, callVars, waitVars>>

(* What the gateway alone decides: it may never answer authenticate, which *)
(* has no timeout, and a tunnel may stay up for ever.                      *)
GatewayStep == AuthenticateFails \/ LoggedIn \/ Authenticated \/ SessionLost

(* The supervisor's own steps.  connectTunnel, logout.csp and the backoff  *)
(* have deadlines of their own, and a cancelled request fails.             *)
SupervisorStep ==
    \/ Top \/ Gate \/ ReleaseForSuspension \/ WaitResumed \/ ResumeCancelled
    \/ cancelled /\ AuthenticateFails
    \/ HandleAuthenticateError \/ AfterAuthenticate \/ ConnectFails \/ Connected
    \/ SetCurrentSession \/ RunStart \/ SetTunnelConfiguration \/ PublishCurrentSession
    \/ ClearCurrentSession \/ PublishTunnelEvent \/ WakeDispatcher \/ RecheckSuspended
    \/ RunEnds \/ CloseSession \/ SessionClosed
    \/ AfterAttempt \/ AfterSuspended \/ DropForSuspension \/ DiscardWebSession
    \/ Backoff \/ BackoffEnds \/ BackoffCancelled \/ ExitReleases \/ closeSupervisorState

DispatcherStep ==
    \/ DispatcherLooks \/ DispatcherWakes \/ DispatcherStops \/ DispatcherReadsSession
    \/ DispatcherFails \/ DispatcherCancels \/ DispatcherFailsSession

CloserStep ==
    CloseStopsEvents \/ CloseWakesDispatcher \/ CloseClosesSession \/ CloseReturns

CallerStep ==
    \/ Start \/ ContextDone \/ RestartSession \/ Suspend \/ Resume \/ WaitReady \/ CloseLocks

Next ==
    \/ SupervisorStep \/ GatewayStep \/ SessionCloses
    \/ DispatcherStep \/ CallbackReturns
    \/ CallerStep \/ FailCall \/ CloserStep

Spec == Init /\ [][Next]_vars

(* A goroutine that can go on does; a call under way is finished; closing  *)
(* a session ends (TunnelSession).  No one has to call anything, and       *)
(* neither the gateway nor the callback has to answer.                     *)
Fairness ==
    /\ WF_vars(SupervisorStep)
    /\ WF_vars(SessionCloses)
    /\ WF_vars(DispatcherStep)
    /\ WF_vars(CloserStep)
    /\ WF_vars(FailCall)

FairSpec == Spec /\ Fairness
-----------------------------------------------------------------------------
(* A tunnel lives inside a login: a session that is not closed is the      *)
(* latest one, and its web session has not been logged out.  Whatever path *)
(* leaves runSession, Close of the session comes before logout.csp and     *)
(* before the next connectTunnel.                                          *)
TunnelInsideLogin ==
    \A s \in 1..latest : life[s] # "closed" => s = latest /\ web = "held"

(* When Client.Close returns, it has left nothing behind: the supervisor   *)
(* has ended, the login is released, every session is closed.              *)
CloseLeavesNothing ==
    closer = "returned" =>
        /\ sup \in {"off", "done"}
        /\ current = 0 /\ published = 0 /\ web = "none"
        /\ \A s \in 1..latest : life[s] = "closed"

(* A WaitReady that waits has nothing to return for: every change it looks *)
(* at comes with a signal on the channel it took under the same lock.      *)
NoForgottenWaiter == watching => ~Settled

(* The dispatcher never sleeps on work: when there is an event, or an      *)
(* order to stop, its token is there or about to be sent.                  *)
NoLostEventWake ==
    disp = "wait" /\ (tunnelEvents # <<>> \/ stopped) =>
        wake \/ sup \in {"upWake", "downWake"} \/ closer = "wake"

(* The callback's story: the event delivered last (or being delivered) and *)
(* the events still to come.  Up and down take turns in it, and it ends    *)
(* with the tunnel that is up now, if any.                                 *)
Story ==
    <<IF disp = "callback" THEN event.configuration ELSE delivered>>
        \o [i \in 1..Len(tunnelEvents) |-> tunnelEvents[i].configuration]

EventsTellTheTunnel ==
    HasCallback /\ ~stopped =>
        /\ \A i \in 1..(Len(Story) - 1) : (Story[i] = 0) # (Story[i + 1] = 0)
        /\ Story[Len(Story)] =
               IF sup \in {"upWake", "recheck", "run", "close", "clear", "unconfigure", "down"}
               THEN latest ELSE 0

(* The time to reconnect after a lost tunnel is metered exactly: what was  *)
(* waited and what remains make up ReconnectTimeout, and the client gives  *)
(* up only when all of it is spent.                                        *)
ReconnectBudget ==
    /\ reconnect.reconnecting => waited + reconnect.timeoutRemaining = ReconnectTimeout
    /\ terminalError = "timeout" => waited = ReconnectTimeout

(* Close returns, and a cancelled context or a terminal error ends the     *)
(* supervisor, whatever the gateway does.  Neither waits for the callback. *)
TheEndIsReached ==
    /\ closer = "stop" ~> closer = "returned"
    /\ (started /\ (cancelled \/ terminalError # "none")) ~> sup = "done"

(* A suspension that lasts releases the tunnel and the login for good. *)
SuspensionReleasesLogin == <>[]suspended => <>[](web # "held" /\ published = 0)
-----------------------------------------------------------------------------
(* client_supervisor.go says of a suspension that it "takes the session    *)
(* with the tunnel, whether or not the client has been resumed again in    *)
(* the meantime": no tunnel goes on over a login a Suspend has met.        *)
SuspensionTakesLogin ==
    ~(spent /\ ~suspended /\ sup = "run" /\ failure[latest] = "none" /\ calls = {})

(* tunnel_config.go says that a caller which programs a TUN device "has to *)
(* hear about the tunnel going down as well": the dispatcher of a client   *)
(* whose callback never failed does not leave after an up event.           *)
LastEventIsDown ==
    disp = "gone" /\ terminalError # "event" /\ closer = "returned" => delivered = 0

(* client_supervisor.go: the address "belonged to this session", so the    *)
(* configuration goes with it: between two sessions there is none.         *)
ConfigurationGoesWithSession == sup = "top" => configuration = 0
=============================================================================
