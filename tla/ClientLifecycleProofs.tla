------------------------ MODULE ClientLifecycleProofs ------------------------
(***************************************************************************)
(* For every number of sessions, suspensions and restarts, with or without *)
(* a callback, and however supervisor, dispatcher, Close and the callers   *)
(* interleave: what the client promises of its logins, its tunnels, its    *)
(* waiters, its events and its reconnect budget.                           *)
(***************************************************************************)
EXTENDS ClientLifecycle, SequenceTheorems, TLAPS

(* Where runSession has a session that need not be closed; where that      *)
(* session may be the client's current one, and its published one; where   *)
(* the last event told the callback that it is up.                         *)
Inside ==
    {"set", "abandon", "start", "configure", "publish", "unpublished", "giveUp", "up",
     "upWake", "recheck", "run", "close"}
Published == {"up", "upWake", "recheck", "run", "close", "clear"}
Current   == {"start", "configure", "publish", "unpublished"} \cup Published
ToldUp    == {"upWake", "recheck", "run", "close", "clear", "unconfigure", "down"}
Ending    == {"exit", "closeState", "done"}

(* TypeOK in three parts: the sessions, the flags, and everything else. *)
Flags ==
    /\ started \in BOOLEAN /\ closed \in BOOLEAN /\ cancelled \in BOOLEAN
    /\ suspended \in BOOLEAN /\ spent \in BOOLEAN /\ ran \in BOOLEAN /\ woken \in BOOLEAN
    /\ wake \in BOOLEAN /\ stopped \in BOOLEAN /\ watching \in BOOLEAN

Budgets == [backoff : InitialBackoff..MaximumBackoff, established : BOOLEAN,
            reconnecting : BOOLEAN, timeoutRemaining : 0..ReconnectTimeout]

Values ==
    /\ terminalError \in TerminalErrors
    /\ current \in Sessions \cup {0} /\ published \in Sessions \cup {0}
    /\ configuration \in Sessions \cup {0} /\ latest \in Sessions \cup {0}
    /\ sup \in SupervisorLabels
    /\ web \in {"none", "login", "held"}
    /\ err \in Outcomes
    /\ reconnect \in Budgets
    /\ waited \in 0..ReconnectTimeout
    /\ tunnelEvents \in Seq(Events)
    /\ disp \in {"off", "look", "wait", "callback", "stop", "session", "terminal",
                 "cancel", "fail", "gone"}
    /\ event \in Events /\ target \in Sessions \cup {0} /\ delivered \in Sessions \cup {0}
    /\ closer \in {"no", "stop", "wake", "session", "await", "returned"}
    /\ victim \in Sessions \cup {0}
    /\ calls \subseteq Sessions \X {"suspended", "restart"}
    /\ suspends \in 0..MaxSuspends /\ restarts \in 0..MaxRestarts
    /\ waiter \in {"idle", "parked"}

LEMMA TypeParts == TypeOK <=> SessionTypeOK /\ Flags /\ Values
BY Zenon DEF TypeOK, Flags, Values, Budgets

(* The login: held wherever there is a tunnel or about to be one. *)
LoginInv ==
    /\ web = "login" => sup = "conf"
    /\ sup \in Inside \cup {"authenticated", "connect"} => web = "held"
    /\ sup \in {"off", "closeState", "done"} => web = "none"

(* The sessions: all but the latest are closed, and so is the latest one *)
(* outside of runSession.                                                *)
ClosedInv ==
    /\ sup = "off" => latest = 0
    /\ sup \in Inside \cup ToldUp => latest # 0
    /\ \A s \in 1..latest : s # latest \/ sup \notin Inside => life[s] = "closed"

(* The client's pointers: to the latest session, and only while it runs. *)
PointerInv ==
    /\ current # 0 => current = latest /\ sup \in Current
    /\ published # 0 => published = latest /\ current = latest /\ sup \in Published

(* The ends: Close, the terminal error of the reconnect budget, and a *)
(* supervisor that was never started.                                 *)
EndInv ==
    /\ started => sup # "off"
    /\ ~started => sup = "off" /\ disp = "off"
    /\ closer # "no" => closed
    /\ closer = "session" => victim # 0
    /\ closer = "returned" => sup \in {"off", "done"}
    /\ terminalError = "timeout" => sup \in Ending
    /\ HasCallback \/ disp = "off"

LifecycleInv ==
    /\ TypeOK /\ ReconnectBudget /\ LoginInv /\ ClosedInv /\ PointerInv /\ EndInv
-----------------------------------------------------------------------------
(* The states reconnectState goes through. *)
LEMMA BudgetValues ==
    /\ newReconnectState \in Budgets /\ newReconnectState.reconnecting = FALSE
    /\ tunnelLost \in Budgets /\ tunnelLost.timeoutRemaining = ReconnectTimeout
<1>1. /\ InitialBackoff \in InitialBackoff..MaximumBackoff
      /\ 0 \in 0..ReconnectTimeout /\ ReconnectTimeout \in 0..ReconnectTimeout
    BY LifecycleAssumption
<1>2. TRUE \in BOOLEAN /\ FALSE \in BOOLEAN
    BY Zenon
<1> QED
    BY <1>1, <1>2 DEF newReconnectState, tunnelLost, Budgets

(* What BackoffEnds makes of it: the wait comes out of what remains. *)
SleptState ==
    [attemptFailed EXCEPT
        !.timeoutRemaining = IF reconnect.reconnecting THEN @ - BackoffWait ELSE @]

LEMMA BackoffStep ==
    ASSUME Values, ReconnectBudget
    PROVE  /\ SleptState \in Budgets
           /\ SleptState.reconnecting = reconnect.reconnecting
           /\ reconnect.reconnecting =>
                  /\ BackoffWait \in 0..reconnect.timeoutRemaining
                  /\ waited + BackoffWait \in 0..ReconnectTimeout
                  /\ waited + BackoffWait + SleptState.timeoutRemaining = ReconnectTimeout
<1>1. reconnect \in Budgets /\ waited \in 0..ReconnectTimeout
    BY DEF Values
<1>2. /\ reconnect.backoff \in InitialBackoff..MaximumBackoff
      /\ reconnect.timeoutRemaining \in 0..ReconnectTimeout
      /\ DOMAIN reconnect = {"backoff", "established", "reconnecting", "timeoutRemaining"}
    BY <1>1 DEF Budgets
<1>3. /\ InitialBackoff \in Nat /\ MaximumBackoff \in Nat /\ InitialBackoff <= MaximumBackoff
      /\ ReconnectTimeout \in Nat
    BY LifecycleAssumption
<1>4. reconnect.established \in BOOLEAN /\ reconnect.reconnecting \in BOOLEAN
    BY <1>1, Zenon DEF Budgets
<1>5. Lesser(reconnect.backoff * 2, MaximumBackoff) \in InitialBackoff..MaximumBackoff
    BY <1>2, <1>3 DEF Lesser
<1>6. reconnect.reconnecting =>
          /\ BackoffWait \in 0..reconnect.timeoutRemaining
          /\ waited + BackoffWait \in 0..ReconnectTimeout
          /\ waited + BackoffWait + (reconnect.timeoutRemaining - BackoffWait)
                 = ReconnectTimeout
    BY <1>1, <1>2, <1>3 DEF BackoffWait, Lesser, ReconnectBudget
<1> DEFINE left == IF reconnect.reconnecting THEN reconnect.timeoutRemaining - BackoffWait
                                             ELSE reconnect.timeoutRemaining
<1>7. left \in 0..ReconnectTimeout
    BY <1>2, <1>3, <1>6
<1>8. SleptState = [backoff |-> Lesser(reconnect.backoff * 2, MaximumBackoff),
                    established |-> reconnect.established,
                    reconnecting |-> reconnect.reconnecting,
                    timeoutRemaining |-> left]
    <2>1. reconnect = [backoff |-> reconnect.backoff, established |-> reconnect.established,
                       reconnecting |-> reconnect.reconnecting,
                       timeoutRemaining |-> reconnect.timeoutRemaining]
        BY <1>1 DEF Budgets
    <2>2. attemptFailed = [backoff |-> Lesser(reconnect.backoff * 2, MaximumBackoff),
                           established |-> reconnect.established,
                           reconnecting |-> reconnect.reconnecting,
                           timeoutRemaining |-> reconnect.timeoutRemaining]
        BY <2>1 DEF attemptFailed
    <2> QED
        BY <2>2 DEF SleptState
<1> HIDE DEF left
<1>9. SleptState \in Budgets
    BY <1>4, <1>5, <1>7, <1>8 DEF Budgets
<1> QED
    BY <1>6, <1>8, <1>9 DEF left

(* The three parts of TypeOK: the flags need nothing but themselves, *)
LEMMA FlagsPreserved == Flags /\ [Next]_vars => Flags'
<1> SUFFICES ASSUME Flags, [Next]_vars PROVE Flags'
    OBVIOUS
<1> USE DEF Flags, vars, sessionVars, endVars, tunnelVars, supVars, suspendVars,
   eventVars, dispVars, closeVars, callVars, waitVars
<1>1. CASE Top
    BY <1>1, Zenon DEF Top, Moves
<1>2. CASE Gate
    BY <1>2, Zenon DEF Gate, Moves
<1>3. CASE ReleaseForSuspension
    BY <1>3, Zenon DEF ReleaseForSuspension, Logout
<1>4. CASE WaitResumed
    BY <1>4, ZenonT(60) DEF WaitResumed, Moves, Resumed
<1>5. CASE ResumeCancelled
    BY <1>5, Zenon DEF ResumeCancelled
<1>6. CASE AuthenticateFails
    BY <1>6, Zenon DEF AuthenticateFails, SupervisorResult
<1>7. CASE LoggedIn
    BY <1>7, Zenon DEF LoggedIn, SupervisorResult
<1>8. CASE Authenticated
    BY <1>8, Zenon DEF Authenticated, SupervisorResult
<1>9. CASE HandleAuthenticateError
    BY <1>9, ZenonT(60) DEF HandleAuthenticateError, Moves, SupervisorFails,
       RecordTerminalError, SignalStateChanged
<1>10. CASE AfterAuthenticate
    BY <1>10, Zenon DEF AfterAuthenticate, Moves
<1>11. CASE ConnectFails
    BY <1>11, Zenon DEF ConnectFails
<1>12. CASE Connected
    BY <1>12, Zenon DEF Connected
<1>13. CASE SetCurrentSession
    BY <1>13, ZenonT(60) DEF SetCurrentSession, Moves, SignalStateChanged
<1>14. CASE RunStart
    BY <1>14, Zenon DEF RunStart, StartSession
<1>15. CASE SetTunnelConfiguration
    BY <1>15, Zenon DEF SetTunnelConfiguration
<1>16. CASE PublishCurrentSession
    BY <1>16, ZenonT(60) DEF PublishCurrentSession, Moves, SignalStateChanged
<1>17. CASE ClearCurrentSession
    BY <1>17, Zenon DEF ClearCurrentSession, SignalStateChanged
<1>18. CASE PublishTunnelEvent
    BY <1>18, Zenon DEF PublishTunnelEvent
<1>19. CASE WakeDispatcher
    BY <1>19, Zenon DEF WakeDispatcher, SendWake
<1>20. CASE RecheckSuspended
    BY <1>20, Zenon DEF RecheckSuspended, FailSession
<1>21. CASE RunEnds
    BY <1>21, Zenon DEF RunEnds
<1>22. CASE CloseSession
    BY <1>22, Zenon DEF CloseSession, BeginClose
<1>23. CASE SessionClosed
    BY <1>23, Zenon DEF SessionClosed
<1>24. CASE AfterAttempt
    BY <1>24, Zenon DEF AfterAttempt, Moves
<1>25. CASE AfterSuspended
    BY <1>25, ZenonT(60) DEF AfterSuspended, Moves, SupervisorFails, RecordTerminalError,
       SignalStateChanged
<1>26. CASE DropForSuspension
    BY <1>26, Zenon DEF DropForSuspension, Logout
<1>27. CASE DiscardWebSession
    BY <1>27, Zenon DEF DiscardWebSession, Logout
<1>28. CASE Backoff
    BY <1>28, ZenonT(60) DEF Backoff, Moves, SupervisorFails, RecordTerminalError,
       SignalStateChanged
<1>29. CASE BackoffEnds
    BY <1>29, Zenon DEF BackoffEnds
<1>30. CASE BackoffCancelled
    BY <1>30, Zenon DEF BackoffCancelled, Moves
<1>31. CASE ExitReleases
    BY <1>31, Zenon DEF ExitReleases, Logout
<1>32. CASE closeSupervisorState
    BY <1>32, Zenon DEF closeSupervisorState, SignalStateChanged
<1>33. CASE SessionLost
    BY <1>33, Zenon DEF SessionLost, FailSession
<1>34. CASE SessionCloses
    BY <1>34, Zenon DEF SessionCloses, EndClose
<1>35. CASE FailCall
    BY <1>35, Zenon DEF FailCall, FailSession
<1>36. CASE DispatcherLooks
    BY <1>36, Zenon DEF DispatcherLooks
<1>37. CASE DispatcherWakes
    BY <1>37, Zenon DEF DispatcherWakes
<1>38. CASE CallbackReturns
    BY <1>38, Zenon DEF CallbackReturns
<1>39. CASE DispatcherStops
    BY <1>39, Zenon DEF DispatcherStops
<1>40. CASE DispatcherReadsSession
    BY <1>40, Zenon DEF DispatcherReadsSession
<1>41. CASE DispatcherFails
    BY <1>41, Zenon DEF DispatcherFails, RecordTerminalError, SignalStateChanged
<1>42. CASE DispatcherCancels
    BY <1>42, Zenon DEF DispatcherCancels
<1>43. CASE DispatcherFailsSession
    BY <1>43, Zenon DEF DispatcherFailsSession, FailSession
<1>44. CASE Start
    BY <1>44, Zenon DEF Start
<1>45. CASE ContextDone
    BY <1>45, Zenon DEF ContextDone
<1>46. CASE RestartSession
    BY <1>46, Zenon DEF RestartSession
<1>47. CASE Suspend
    BY <1>47, Zenon DEF Suspend
<1>48. CASE Resume
    BY <1>48, Zenon DEF Resume
<1>49. CASE WaitReady
    BY <1>49, Zenon DEF WaitReady
<1>50. CASE CloseLocks
    BY <1>50, Zenon DEF CloseLocks, SignalStateChanged
<1>51. CASE CloseStopsEvents
    BY <1>51, Zenon DEF CloseStopsEvents
<1>52. CASE CloseWakesDispatcher
    BY <1>52, Zenon DEF CloseWakesDispatcher, SendWake
<1>53. CASE CloseClosesSession
    BY <1>53, Zenon DEF CloseClosesSession, BeginClose
<1>54. CASE CloseReturns
    BY <1>54, Zenon DEF CloseReturns
<1>55. CASE UNCHANGED vars
    BY <1>55
<1> QED
    BY <1>1, <1>2, <1>3, <1>4, <1>5, <1>6, <1>7, <1>8, <1>9, <1>10, <1>11, <1>12, <1>13,
       <1>14, <1>15, <1>16, <1>17, <1>18, <1>19, <1>20, <1>21, <1>22, <1>23, <1>24, <1>25,
       <1>26, <1>27, <1>28, <1>29, <1>30, <1>31, <1>32, <1>33, <1>34, <1>35, <1>36, <1>37,
       <1>38, <1>39, <1>40, <1>41, <1>42, <1>43, <1>44, <1>45, <1>46, <1>47, <1>48, <1>49,
       <1>50, <1>51, <1>52, <1>53, <1>54, <1>55 DEF Next, SupervisorStep, GatewayStep,
       DispatcherStep, CloserStep, CallerStep

(* the sessions are used as ClientSession permits, by whoever uses them, *)
LEMMA SessionStep == LifecycleInv /\ [Next]_vars => [SessionNext]_sessionVars
<1> SUFFICES ASSUME LifecycleInv, [Next]_vars PROVE [SessionNext]_sessionVars
    OBVIOUS
<1> USE DEF sessionVars
<1>1. CASE Top
    BY <1>1, Zenon DEF Top, Moves
<1>2. CASE Gate
    BY <1>2, Zenon DEF Gate, Moves
<1>3. CASE ReleaseForSuspension
    BY <1>3, Zenon DEF ReleaseForSuspension, Logout
<1>4. CASE WaitResumed
    BY <1>4, Zenon DEF WaitResumed, Moves, Resumed
<1>5. CASE ResumeCancelled
    BY <1>5, Zenon DEF ResumeCancelled
<1>6. CASE AuthenticateFails
    BY <1>6, Zenon DEF AuthenticateFails, SupervisorResult
<1>7. CASE LoggedIn
    BY <1>7, Zenon DEF LoggedIn, SupervisorResult
<1>8. CASE Authenticated
    BY <1>8, Zenon DEF Authenticated, SupervisorResult
<1>9. CASE HandleAuthenticateError
    BY <1>9, Zenon DEF HandleAuthenticateError, Moves, SupervisorFails,
       RecordTerminalError, SignalStateChanged
<1>10. CASE AfterAuthenticate
    BY <1>10, Zenon DEF AfterAuthenticate, Moves
<1>11. CASE ConnectFails
    BY <1>11, Zenon DEF ConnectFails
<1>12. CASE Connected
    BY <1>12, Zenon DEF Connected
<1>13. CASE SetCurrentSession
    BY <1>13, Zenon DEF SetCurrentSession, Moves, SignalStateChanged
<1>14. CASE RunStart
    BY <1>14 DEF RunStart, SessionNext, LifecycleInv, ClosedInv, Inside,
       TypeOK
<1>15. CASE SetTunnelConfiguration
    BY <1>15, Zenon DEF SetTunnelConfiguration
<1>16. CASE PublishCurrentSession
    BY <1>16, Zenon DEF PublishCurrentSession, Moves, SignalStateChanged
<1>17. CASE ClearCurrentSession
    BY <1>17, Zenon DEF ClearCurrentSession, SignalStateChanged
<1>18. CASE PublishTunnelEvent
    BY <1>18, Zenon DEF PublishTunnelEvent
<1>19. CASE WakeDispatcher
    BY <1>19, Zenon DEF WakeDispatcher, SendWake
<1>20. CASE RecheckSuspended
    BY <1>20 DEF RecheckSuspended, SessionNext, LifecycleInv, ClosedInv,
       Inside, TypeOK, Failures
<1>21. CASE RunEnds
    BY <1>21, Zenon DEF RunEnds
<1>22. CASE CloseSession
    BY <1>22 DEF CloseSession, SessionNext, LifecycleInv, ClosedInv, Inside,
       CloseLabels, TypeOK
<1>23. CASE SessionClosed
    BY <1>23, Zenon DEF SessionClosed
<1>24. CASE AfterAttempt
    BY <1>24, Zenon DEF AfterAttempt, Moves
<1>25. CASE AfterSuspended
    BY <1>25, Zenon DEF AfterSuspended, Moves, SupervisorFails, RecordTerminalError,
       SignalStateChanged
<1>26. CASE DropForSuspension
    BY <1>26, Zenon DEF DropForSuspension, Logout
<1>27. CASE DiscardWebSession
    BY <1>27, Zenon DEF DiscardWebSession, Logout
<1>28. CASE Backoff
    BY <1>28, Zenon DEF Backoff, Moves, SupervisorFails, RecordTerminalError,
       SignalStateChanged
<1>29. CASE BackoffEnds
    BY <1>29, Zenon DEF BackoffEnds
<1>30. CASE BackoffCancelled
    BY <1>30, Zenon DEF BackoffCancelled, Moves
<1>31. CASE ExitReleases
    BY <1>31, Zenon DEF ExitReleases, Logout
<1>32. CASE closeSupervisorState
    BY <1>32, Zenon DEF closeSupervisorState, SignalStateChanged
<1>33. CASE SessionLost
    BY <1>33 DEF SessionLost, SessionNext, Failures
<1>34. CASE SessionCloses
    BY <1>34 DEF SessionCloses, SessionNext
<1>35. CASE FailCall
    BY <1>35 DEF FailCall, SessionNext, LifecycleInv, TypeOK, Failures
<1>36. CASE DispatcherLooks
    BY <1>36, Zenon DEF DispatcherLooks
<1>37. CASE DispatcherWakes
    BY <1>37, Zenon DEF DispatcherWakes
<1>38. CASE CallbackReturns
    BY <1>38, Zenon DEF CallbackReturns
<1>39. CASE DispatcherStops
    BY <1>39, Zenon DEF DispatcherStops
<1>40. CASE DispatcherReadsSession
    BY <1>40, Zenon DEF DispatcherReadsSession
<1>41. CASE DispatcherFails
    BY <1>41, Zenon DEF DispatcherFails, RecordTerminalError, SignalStateChanged
<1>42. CASE DispatcherCancels
    BY <1>42, Zenon DEF DispatcherCancels
<1>43. CASE DispatcherFailsSession
    BY <1>43 DEF DispatcherFailsSession, SessionNext, LifecycleInv, TypeOK,
       Failures
<1>44. CASE Start
    BY <1>44, Zenon DEF Start
<1>45. CASE ContextDone
    BY <1>45, Zenon DEF ContextDone
<1>46. CASE RestartSession
    BY <1>46, Zenon DEF RestartSession
<1>47. CASE Suspend
    BY <1>47, Zenon DEF Suspend
<1>48. CASE Resume
    BY <1>48, Zenon DEF Resume
<1>49. CASE WaitReady
    BY <1>49, Zenon DEF WaitReady
<1>50. CASE CloseLocks
    BY <1>50, Zenon DEF CloseLocks, SignalStateChanged
<1>51. CASE CloseStopsEvents
    BY <1>51, Zenon DEF CloseStopsEvents
<1>52. CASE CloseWakesDispatcher
    BY <1>52, Zenon DEF CloseWakesDispatcher, SendWake
<1>53. CASE CloseClosesSession
    BY <1>53 DEF CloseClosesSession, SessionNext, LifecycleInv, EndInv, TypeOK
<1>54. CASE CloseReturns
    BY <1>54, Zenon DEF CloseReturns
<1>55. CASE UNCHANGED vars
    BY <1>55 DEF vars
<1> QED
    BY <1>1, <1>2, <1>3, <1>4, <1>5, <1>6, <1>7, <1>8, <1>9, <1>10, <1>11, <1>12, <1>13,
       <1>14, <1>15, <1>16, <1>17, <1>18, <1>19, <1>20, <1>21, <1>22, <1>23, <1>24, <1>25,
       <1>26, <1>27, <1>28, <1>29, <1>30, <1>31, <1>32, <1>33, <1>34, <1>35, <1>36, <1>37,
       <1>38, <1>39, <1>40, <1>41, <1>42, <1>43, <1>44, <1>45, <1>46, <1>47, <1>48, <1>49,
       <1>50, <1>51, <1>52, <1>53, <1>54, <1>55 DEF Next, SupervisorStep, GatewayStep,
       DispatcherStep, CloserStep, CallerStep

(* and the rest needs the budget and a session wherever one is run. *)
LEMMA ValuesPreserved == LifecycleInv /\ [Next]_vars => Values'
<1> SUFFICES ASSUME LifecycleInv, [Next]_vars PROVE Values'
    OBVIOUS
<1> USE LifecycleAssumption DEF Values, vars, sessionVars, endVars, tunnelVars, supVars,
   suspendVars, eventVars, dispVars, closeVars, callVars, waitVars
<1>0. Values
    BY TypeParts, Zenon DEF LifecycleInv
<1>1. CASE Top
    BY <1>1, <1>0 DEF Top, Moves, SupervisorLabels
<1>2. CASE Gate
    BY <1>2, <1>0 DEF Gate, Moves, SupervisorLabels
<1>3. CASE ReleaseForSuspension
    BY <1>3, <1>0 DEF ReleaseForSuspension, Logout, SupervisorLabels
<1>4. CASE WaitResumed
    <2>1. CASE Resumed
        BY <1>0, <2>1, BudgetValues DEF Resumed, SupervisorLabels
    <2>2. CASE Moves("resume", "parked")
        BY <1>0, <2>2 DEF Moves, SupervisorLabels
    <2> QED
        BY <1>4, <2>1, <2>2, Zenon DEF WaitResumed
<1>5. CASE ResumeCancelled
    BY <1>5, <1>0 DEF ResumeCancelled, SupervisorLabels
<1>6. CASE AuthenticateFails
    BY <1>6, <1>0 DEF AuthenticateFails, SupervisorResult, SupervisorLabels, Outcomes,
       Failures
<1>7. CASE LoggedIn
    BY <1>7, <1>0 DEF LoggedIn, SupervisorResult, SupervisorLabels, Outcomes, Failures
<1>8. CASE Authenticated
    BY <1>8, <1>0 DEF Authenticated, SupervisorResult, SupervisorLabels, Outcomes,
       Failures
<1>9. CASE HandleAuthenticateError
    <2>1. terminalError' \in TerminalErrors /\ sup' \in SupervisorLabels
        BY <1>0, <1>9
        DEF HandleAuthenticateError, Moves, SupervisorFails, RecordTerminalError,
            TerminalErrors, SupervisorLabels
    <2>2. UNCHANGED <<tunnelVars, configuration, web, err, reconnect, waited, latest,
                      suspends, tunnelEvents, dispVars, closeVars, callVars, waiter>>
        BY <1>9, Zenon DEF HandleAuthenticateError, Moves, SupervisorFails
    <2> QED
        BY <1>0, <2>1, <2>2
<1>10. CASE AfterAuthenticate
    BY <1>10, <1>0 DEF AfterAuthenticate, Moves, SupervisorLabels
<1>11. CASE ConnectFails
    BY <1>11, <1>0 DEF ConnectFails, SupervisorLabels, Outcomes, Failures
<1>12. CASE Connected
    BY <1>12, <1>0 DEF Connected, SupervisorLabels
<1>13. CASE SetCurrentSession
    <2>1. CASE sup' = "abandon"
        BY <1>0, <1>13, <2>1 DEF SetCurrentSession, Moves, SupervisorLabels
    <2>2. CASE sup' = "start"
        BY <1>0, <1>13, <2>2 DEF SetCurrentSession, Moves, SupervisorLabels
    <2> QED
        BY <1>13, <2>1, <2>2 DEF SetCurrentSession, Moves
<1>14. CASE RunStart
    BY <1>14, <1>0 DEF RunStart, StartSession, SupervisorLabels
<1>15. CASE SetTunnelConfiguration
    BY <1>15, <1>0 DEF SetTunnelConfiguration, SupervisorLabels
<1>16. CASE PublishCurrentSession
    <2>1. CASE sup' = "unpublished"
        BY <1>0, <1>16, <2>1 DEF PublishCurrentSession, Moves, SupervisorLabels
    <2>2. CASE sup' = "up"
        BY <1>0, <1>16, <2>2 DEF PublishCurrentSession, Moves, SupervisorLabels
    <2> QED
        BY <1>16, <2>1, <2>2 DEF PublishCurrentSession, Moves
<1>17. CASE ClearCurrentSession
    BY <1>17, <1>0 DEF ClearCurrentSession, SignalStateChanged, SupervisorLabels
<1>18. CASE PublishTunnelEvent
    <2>1. TunnelEvent \in Events
        BY <1>0 DEF TunnelEvent, Disconnect, Events
    <2>2. tunnelEvents' \in Seq(Events)
        BY <1>0, <1>18, <2>1, AppendProperties DEF PublishTunnelEvent, EventsWith
    <2> QED
        BY <1>0, <1>18, <2>2 DEF PublishTunnelEvent, SupervisorLabels
<1>19. CASE WakeDispatcher
    BY <1>19, <1>0 DEF WakeDispatcher, SendWake, SupervisorLabels
<1>20. CASE RecheckSuspended
    BY <1>20, <1>0 DEF RecheckSuspended, FailSession, SupervisorLabels
<1>21. CASE RunEnds
    BY <1>21, <1>0 DEF RunEnds, SupervisorLabels, Outcomes, Failures, ClosedInv, Inside,
       LifecycleInv, TypeOK, SessionTypeOK
<1>22. CASE CloseSession
    BY <1>22, <1>0 DEF CloseSession, BeginClose, SupervisorLabels
<1>23. CASE SessionClosed
    BY <1>23, <1>0 DEF SessionClosed, SupervisorLabels, Outcomes, Failures
<1>24. CASE AfterAttempt
    BY <1>24, <1>0 DEF AfterAttempt, Moves, SupervisorLabels
<1>25. CASE AfterSuspended
    <2>1. terminalError' \in TerminalErrors /\ sup' \in SupervisorLabels
        BY <1>0, <1>25
        DEF AfterSuspended, Moves, SupervisorFails, RecordTerminalError,
            TerminalErrors, SupervisorLabels, TerminalOutcome
    <2>2. UNCHANGED <<tunnelVars, configuration, web, err, reconnect, waited, latest,
                      suspends, tunnelEvents, dispVars, closeVars, callVars, waiter>>
        BY <1>25, Zenon DEF AfterSuspended, Moves, SupervisorFails
    <2> QED
        BY <1>0, <2>1, <2>2
<1>26. CASE DropForSuspension
    BY <1>0, <1>26, BudgetValues DEF DropForSuspension, Logout, SupervisorLabels
<1>27. CASE DiscardWebSession
    BY <1>0, <1>27, BudgetValues DEF DiscardWebSession, Logout, SupervisorLabels
<1>28. CASE Backoff
    <2>1. terminalError' \in TerminalErrors /\ sup' \in SupervisorLabels
        BY <1>0, <1>28
        DEF Backoff, Moves, SupervisorFails, RecordTerminalError,
            TerminalErrors, SupervisorLabels
    <2>2. UNCHANGED <<tunnelVars, configuration, web, err, reconnect, waited, latest,
                      suspends, tunnelEvents, dispVars, closeVars, callVars, waiter>>
        BY <1>28, Zenon DEF Backoff, Moves, SupervisorFails
    <2> QED
        BY <1>0, <2>1, <2>2
<1>29. CASE BackoffEnds
    <2>1. ReconnectBudget /\ reconnect' = SleptState
        BY <1>29 DEF BackoffEnds, SleptState, LifecycleInv
    <2>2. reconnect' \in Budgets
        BY <1>0, <2>1, BackoffStep
    <2>3. waited' \in 0..ReconnectTimeout
        BY <1>0, <1>29, <2>1, BackoffStep DEF BackoffEnds
    <2> QED
        BY <1>0, <1>29, <2>2, <2>3 DEF BackoffEnds, SupervisorLabels
<1>30. CASE BackoffCancelled
    BY <1>30, <1>0 DEF BackoffCancelled, Moves, SupervisorLabels
<1>31. CASE ExitReleases
    BY <1>31, <1>0 DEF ExitReleases, Logout, SupervisorLabels
<1>32. CASE closeSupervisorState
    BY <1>32, <1>0 DEF closeSupervisorState, SignalStateChanged, SupervisorLabels
<1>33. CASE SessionLost
    BY <1>33, <1>0 DEF SessionLost, FailSession
<1>34. CASE SessionCloses
    BY <1>34, <1>0 DEF SessionCloses, EndClose
<1>35. CASE FailCall
    BY <1>35, <1>0 DEF FailCall, FailSession
<1>36. CASE DispatcherLooks
    <2>1. tunnelEvents' \in Seq(Events) /\ event' \in Events
        BY <1>0, <1>36, HeadTailProperties, EmptySeq DEF DispatcherLooks
    <2> QED
        BY <1>0, <1>36, <2>1 DEF DispatcherLooks
<1>37. CASE DispatcherWakes
    BY <1>37, <1>0 DEF DispatcherWakes
<1>38. CASE CallbackReturns
    <2>1. event.configuration \in Sessions \cup {0}
        BY <1>0 DEF Events
    <2> QED
        BY <1>0, <1>38, <2>1 DEF CallbackReturns
<1>39. CASE DispatcherStops
    BY <1>39, <1>0 DEF DispatcherStops
<1>40. CASE DispatcherReadsSession
    BY <1>40, <1>0 DEF DispatcherReadsSession
<1>41. CASE DispatcherFails
    BY <1>41, <1>0 DEF DispatcherFails, RecordTerminalError, SignalStateChanged,
       TerminalErrors
<1>42. CASE DispatcherCancels
    BY <1>42, <1>0 DEF DispatcherCancels
<1>43. CASE DispatcherFailsSession
    BY <1>43, <1>0 DEF DispatcherFailsSession, FailSession
<1>44. CASE Start
    BY <1>44, <1>0 DEF Start, SupervisorLabels
<1>45. CASE ContextDone
    BY <1>45, <1>0 DEF ContextDone
<1>46. CASE RestartSession
    BY <1>46, <1>0 DEF RestartSession
<1>47. CASE Suspend
    BY <1>47, <1>0 DEF Suspend
<1>48. CASE Resume
    BY <1>48, <1>0 DEF Resume
<1>49. CASE WaitReady
    BY <1>49, <1>0 DEF WaitReady
<1>50. CASE CloseLocks
    BY <1>50, <1>0 DEF CloseLocks, SignalStateChanged
<1>51. CASE CloseStopsEvents
    BY <1>51, <1>0 DEF CloseStopsEvents
<1>52. CASE CloseWakesDispatcher
    BY <1>52, <1>0 DEF CloseWakesDispatcher, SendWake
<1>53. CASE CloseClosesSession
    BY <1>53, <1>0 DEF CloseClosesSession, BeginClose
<1>54. CASE CloseReturns
    BY <1>54, <1>0 DEF CloseReturns
<1>55. CASE UNCHANGED vars
    BY <1>55, <1>0
<1> QED
    BY <1>1, <1>2, <1>3, <1>4, <1>5, <1>6, <1>7, <1>8, <1>9, <1>10, <1>11, <1>12, <1>13,
       <1>14, <1>15, <1>16, <1>17, <1>18, <1>19, <1>20, <1>21, <1>22, <1>23, <1>24, <1>25,
       <1>26, <1>27, <1>28, <1>29, <1>30, <1>31, <1>32, <1>33, <1>34, <1>35, <1>36, <1>37,
       <1>38, <1>39, <1>40, <1>41, <1>42, <1>43, <1>44, <1>45, <1>46, <1>47, <1>48, <1>49,
       <1>50, <1>51, <1>52, <1>53, <1>54, <1>55 DEF Next, SupervisorStep, GatewayStep,
       DispatcherStep, CloserStep, CallerStep
(* What the sessions, the dispatcher, Close and the callers do leaves the  *)
(* supervisor's own state and the client's pointers alone; only Start sets *)
(* it going.                                                               *)
Others ==
    \/ SessionLost \/ SessionCloses \/ FailCall \/ DispatcherLooks
    \/ DispatcherWakes \/ CallbackReturns \/ DispatcherStops \/ DispatcherReadsSession
    \/ DispatcherFails \/ DispatcherCancels \/ DispatcherFailsSession \/ ContextDone
    \/ RestartSession \/ Suspend \/ Resume \/ WaitReady
    \/ CloseLocks \/ CloseStopsEvents \/ CloseWakesDispatcher \/ CloseClosesSession
    \/ CloseReturns

supervised ==
    <<started, sup, web, err, ran, reconnect, waited, latest, current, published>>

LEMMA OthersLeaveSupervisor ==
    Others => /\ UNCHANGED supervised
              /\ terminalError' = "timeout" => terminalError = "timeout"
<1> DEFINE Leaves == /\ UNCHANGED supervised
                     /\ terminalError' = "timeout" => terminalError = "timeout"
<1> USE DEF supervised, endVars, tunnelVars, supVars
<1>1. SessionLost => Leaves
    BY DEF SessionLost
<1>2. SessionCloses => Leaves
    BY DEF SessionCloses
<1>3. FailCall => Leaves
    BY DEF FailCall
<1>4. DispatcherLooks => Leaves
    BY DEF DispatcherLooks
<1>5. DispatcherWakes => Leaves
    BY DEF DispatcherWakes
<1>6. CallbackReturns => Leaves
    BY DEF CallbackReturns
<1>7. DispatcherStops => Leaves
    BY DEF DispatcherStops
<1>8. DispatcherReadsSession => Leaves
    BY DEF DispatcherReadsSession
<1>9. DispatcherFails => Leaves
    BY DEF DispatcherFails, RecordTerminalError
<1>10. DispatcherCancels => Leaves
    BY DEF DispatcherCancels
<1>11. DispatcherFailsSession => Leaves
    BY DEF DispatcherFailsSession
<1>12. ContextDone => Leaves
    BY DEF ContextDone
<1>13. RestartSession => Leaves
    BY DEF RestartSession
<1>14. Suspend => Leaves
    BY DEF Suspend
<1>15. Resume => Leaves
    BY DEF Resume
<1>16. WaitReady => Leaves
    BY DEF WaitReady
<1>17. CloseLocks => Leaves
    BY DEF CloseLocks
<1>18. CloseStopsEvents => Leaves
    BY DEF CloseStopsEvents
<1>19. CloseWakesDispatcher => Leaves
    BY DEF CloseWakesDispatcher
<1>20. CloseClosesSession => Leaves
    BY DEF CloseClosesSession
<1>21. CloseReturns => Leaves
    BY DEF CloseReturns
<1> QED
    BY <1>1, <1>2, <1>3, <1>4, <1>5, <1>6, <1>7, <1>8, <1>9, <1>10, <1>11, <1>12, <1>13,
          <1>14, <1>15, <1>16, <1>17, <1>18, <1>19, <1>20, <1>21 DEF Others

(* So a step is one of the supervisor's, Start, or one of the others'. *)
LEMMA NextCases ==
    ASSUME [Next]_vars
    PROVE  \/ Top \/ Gate \/ ReleaseForSuspension \/ WaitResumed
           \/ ResumeCancelled \/ AuthenticateFails \/ LoggedIn \/ Authenticated
           \/ HandleAuthenticateError \/ AfterAuthenticate \/ ConnectFails \/ Connected
           \/ SetCurrentSession \/ RunStart \/ SetTunnelConfiguration \/ PublishCurrentSession
           \/ ClearCurrentSession \/ PublishTunnelEvent \/ WakeDispatcher \/ RecheckSuspended
           \/ RunEnds \/ CloseSession \/ SessionClosed \/ AfterAttempt
           \/ AfterSuspended \/ DropForSuspension \/ DiscardWebSession \/ Backoff
           \/ BackoffEnds \/ BackoffCancelled \/ ExitReleases \/ closeSupervisorState
           \/ Start \/ Others
           \/ UNCHANGED vars
BY Zenon DEF Next, SupervisorStep, GatewayStep, DispatcherStep, CloserStep, CallerStep, Others

LEMMA SessionTypePreserved == LifecycleInv /\ [Next]_vars => SessionTypeOK'
<1> SUFFICES ASSUME LifecycleInv, [Next]_vars PROVE SessionTypeOK'
    OBVIOUS
<1>1. SessionTypeOK /\ [SessionNext]_sessionVars
    BY SessionStep DEF LifecycleInv, TypeOK
<1> QED
    BY <1>1 DEF SessionTypeOK, SessionNext, StartSession, FailSession, BeginClose, EndClose,
        sessionVars, Failures

(* web is set and reset by the supervisor alone, outside of runSession. *)
LEMMA LoginPreserved == LifecycleInv /\ [Next]_vars => LoginInv'
<1> SUFFICES ASSUME LifecycleInv, [Next]_vars PROVE LoginInv'
    OBVIOUS
<1> USE DEF LifecycleInv, LoginInv, Inside, supVars
<1>1. CASE Top
    BY <1>1 DEF Top, Moves
<1>2. CASE Gate
    BY <1>2 DEF Gate, Moves, TypeOK
<1>3. CASE ReleaseForSuspension
    BY <1>3 DEF ReleaseForSuspension, Logout
<1>4. CASE WaitResumed
    BY <1>4 DEF WaitResumed, Moves, Resumed
<1>5. CASE ResumeCancelled
    BY <1>5 DEF ResumeCancelled
<1>6. CASE AuthenticateFails
    BY <1>6 DEF AuthenticateFails, SupervisorResult
<1>7. CASE LoggedIn
    BY <1>7 DEF LoggedIn, SupervisorResult
<1>8. CASE Authenticated
    BY <1>8 DEF Authenticated, SupervisorResult
<1>9. CASE HandleAuthenticateError
    BY <1>9 DEF HandleAuthenticateError, Moves, SupervisorFails, RecordTerminalError,
       SignalStateChanged
<1>10. CASE AfterAuthenticate
    BY <1>10 DEF AfterAuthenticate, Moves
<1>11. CASE ConnectFails
    BY <1>11 DEF ConnectFails
<1>12. CASE Connected
    BY <1>12 DEF Connected
<1>13. CASE SetCurrentSession
    BY <1>13 DEF SetCurrentSession, Moves, SignalStateChanged
<1>14. CASE RunStart
    BY <1>14 DEF RunStart, StartSession
<1>15. CASE SetTunnelConfiguration
    BY <1>15 DEF SetTunnelConfiguration
<1>16. CASE PublishCurrentSession
    BY <1>16 DEF PublishCurrentSession, Moves, SignalStateChanged
<1>17. CASE ClearCurrentSession
    BY <1>17 DEF ClearCurrentSession, SignalStateChanged
<1>18. CASE PublishTunnelEvent
    BY <1>18 DEF PublishTunnelEvent
<1>19. CASE WakeDispatcher
    BY <1>19 DEF WakeDispatcher, SendWake
<1>20. CASE RecheckSuspended
    BY <1>20 DEF RecheckSuspended, FailSession
<1>21. CASE RunEnds
    BY <1>21 DEF RunEnds
<1>22. CASE CloseSession
    BY <1>22 DEF CloseSession, BeginClose
<1>23. CASE SessionClosed
    BY <1>23 DEF SessionClosed, CloseLabels
<1>24. CASE AfterAttempt
    BY <1>24 DEF AfterAttempt, Moves
<1>25. CASE AfterSuspended
    BY <1>25 DEF AfterSuspended, Moves, SupervisorFails, RecordTerminalError,
       SignalStateChanged
<1>26. CASE DropForSuspension
    BY <1>26 DEF DropForSuspension, Logout
<1>27. CASE DiscardWebSession
    BY <1>27 DEF DiscardWebSession, Logout
<1>28. CASE Backoff
    BY <1>28 DEF Backoff, Moves, SupervisorFails, RecordTerminalError, SignalStateChanged
<1>29. CASE BackoffEnds
    BY <1>29 DEF BackoffEnds
<1>30. CASE BackoffCancelled
    BY <1>30 DEF BackoffCancelled, Moves
<1>31. CASE ExitReleases
    BY <1>31 DEF ExitReleases, Logout
<1>32. CASE closeSupervisorState
    BY <1>32 DEF closeSupervisorState, SignalStateChanged
<1>33. CASE Start
    BY <1>33 DEF Start, EndInv
<1>34. CASE Others
    BY <1>34, OthersLeaveSupervisor DEF supervised
<1>35. CASE UNCHANGED vars
    BY <1>35 DEF vars, supVars, tunnelVars
<1> QED
    BY <1>1, <1>2, <1>3, <1>4, <1>5, <1>6, <1>7, <1>8, <1>9, <1>10, <1>11, <1>12, <1>13,
       <1>14, <1>15, <1>16, <1>17, <1>18, <1>19, <1>20, <1>21, <1>22, <1>23, <1>24, <1>25,
       <1>26, <1>27, <1>28, <1>29, <1>30, <1>31, <1>32, <1>33, <1>34, <1>35, NextCases

(* A closed session stays closed. *)
LEMMA ClosedStays ==
    ASSUME LifecycleInv, [Next]_vars
    PROVE  /\ latest \in Nat
           /\ \A s \in 1..latest : life[s] = "closed" => life'[s] = "closed"
<1>1. SessionTypeOK /\ [SessionNext]_sessionVars /\ latest \in Sessions \cup {0}
    BY SessionStep DEF LifecycleInv, TypeOK
<1>2. \A s \in Sessions : life[s] = "closed" => life'[s] = "closed"
    BY <1>1 DEF SessionTypeOK, SessionNext, StartSession, FailSession, BeginClose, EndClose,
        sessionVars
<1> QED
    BY <1>1, <1>2, LifecycleAssumption

(* runSession is left through the close of its session. *)
LEMMA ClosedPreserved == LifecycleInv /\ [Next]_vars => ClosedInv'
<1> SUFFICES ASSUME LifecycleInv, [Next]_vars PROVE ClosedInv'
    OBVIOUS
<1> USE DEF LifecycleInv, ClosedInv, Inside, ToldUp, supVars
<1>0. latest \in Nat /\ \A s \in 1..latest : life[s] = "closed" => life'[s] = "closed"
    BY ClosedStays
<1>1. CASE Top
    BY <1>1, <1>0 DEF Top, Moves
<1>2. CASE Gate
    BY <1>2, <1>0 DEF Gate, Moves
<1>3. CASE ReleaseForSuspension
    BY <1>3, <1>0 DEF ReleaseForSuspension, Logout
<1>4. CASE WaitResumed
    BY <1>4, <1>0 DEF WaitResumed, Moves, Resumed
<1>5. CASE ResumeCancelled
    BY <1>5, <1>0 DEF ResumeCancelled
<1>6. CASE AuthenticateFails
    BY <1>6, <1>0 DEF AuthenticateFails, SupervisorResult
<1>7. CASE LoggedIn
    BY <1>7, <1>0 DEF LoggedIn, SupervisorResult
<1>8. CASE Authenticated
    BY <1>8, <1>0 DEF Authenticated, SupervisorResult
<1>9. CASE HandleAuthenticateError
    BY <1>9, <1>0 DEF HandleAuthenticateError, Moves, SupervisorFails,
       RecordTerminalError, SignalStateChanged
<1>10. CASE AfterAuthenticate
    BY <1>10, <1>0 DEF AfterAuthenticate, Moves
<1>11. CASE ConnectFails
    BY <1>11, <1>0 DEF ConnectFails
<1>12. CASE Connected
    BY <1>12, <1>0 DEF Connected
<1>13. CASE SetCurrentSession
    BY <1>13, <1>0 DEF SetCurrentSession, Moves, SignalStateChanged
<1>14. CASE RunStart
    BY <1>14, <1>0 DEF RunStart, StartSession
<1>15. CASE SetTunnelConfiguration
    BY <1>15, <1>0 DEF SetTunnelConfiguration
<1>16. CASE PublishCurrentSession
    BY <1>16, <1>0 DEF PublishCurrentSession, Moves, SignalStateChanged
<1>17. CASE ClearCurrentSession
    BY <1>17, <1>0 DEF ClearCurrentSession, SignalStateChanged
<1>18. CASE PublishTunnelEvent
    BY <1>18, <1>0 DEF PublishTunnelEvent
<1>19. CASE WakeDispatcher
    BY <1>19, <1>0 DEF WakeDispatcher, SendWake
<1>20. CASE RecheckSuspended
    BY <1>20, <1>0 DEF RecheckSuspended, FailSession
<1>21. CASE RunEnds
    BY <1>21, <1>0 DEF RunEnds
<1>22. CASE CloseSession
    BY <1>22, <1>0 DEF CloseSession, BeginClose, CloseLabels
<1>23. CASE SessionClosed
    BY <1>23, <1>0 DEF SessionClosed, CloseLabels, CloseDone
<1>24. CASE AfterAttempt
    BY <1>24, <1>0 DEF AfterAttempt, Moves
<1>25. CASE AfterSuspended
    BY <1>25, <1>0 DEF AfterSuspended, Moves, SupervisorFails, RecordTerminalError,
       SignalStateChanged
<1>26. CASE DropForSuspension
    BY <1>26, <1>0 DEF DropForSuspension, Logout
<1>27. CASE DiscardWebSession
    BY <1>27, <1>0 DEF DiscardWebSession, Logout
<1>28. CASE Backoff
    BY <1>28, <1>0 DEF Backoff, Moves, SupervisorFails, RecordTerminalError,
       SignalStateChanged
<1>29. CASE BackoffEnds
    BY <1>29, <1>0 DEF BackoffEnds
<1>30. CASE BackoffCancelled
    BY <1>30, <1>0 DEF BackoffCancelled, Moves
<1>31. CASE ExitReleases
    BY <1>31, <1>0 DEF ExitReleases, Logout
<1>32. CASE closeSupervisorState
    BY <1>32, <1>0 DEF closeSupervisorState, SignalStateChanged
<1>33. CASE Start
    BY <1>33, <1>0 DEF Start, EndInv
<1>34. CASE Others
    BY <1>34, <1>0, OthersLeaveSupervisor DEF supervised
<1>35. CASE UNCHANGED vars
    BY <1>35, <1>0 DEF vars, supVars, tunnelVars
<1> QED
    BY <1>1, <1>2, <1>3, <1>4, <1>5, <1>6, <1>7, <1>8, <1>9, <1>10, <1>11, <1>12, <1>13,
       <1>14, <1>15, <1>16, <1>17, <1>18, <1>19, <1>20, <1>21, <1>22, <1>23, <1>24, <1>25,
       <1>26, <1>27, <1>28, <1>29, <1>30, <1>31, <1>32, <1>33, <1>34, <1>35, NextCases

(* setCurrentSession and publishCurrentSession point to the latest session; *)
(* clearCurrentSession comes before the next.                              *)
LEMMA PointersPreserved == LifecycleInv /\ [Next]_vars => PointerInv'
<1> SUFFICES ASSUME LifecycleInv, [Next]_vars PROVE PointerInv'
    OBVIOUS
<1> USE DEF LifecycleInv, PointerInv, Current, Published, Inside, supVars, tunnelVars
<1>1. CASE Top
    BY <1>1 DEF Top, Moves
<1>2. CASE Gate
    BY <1>2 DEF Gate, Moves
<1>3. CASE ReleaseForSuspension
    BY <1>3 DEF ReleaseForSuspension, Logout
<1>4. CASE WaitResumed
    BY <1>4 DEF WaitResumed, Moves, Resumed
<1>5. CASE ResumeCancelled
    BY <1>5 DEF ResumeCancelled
<1>6. CASE AuthenticateFails
    BY <1>6 DEF AuthenticateFails, SupervisorResult
<1>7. CASE LoggedIn
    BY <1>7 DEF LoggedIn, SupervisorResult
<1>8. CASE Authenticated
    BY <1>8 DEF Authenticated, SupervisorResult
<1>9. CASE HandleAuthenticateError
    BY <1>9 DEF HandleAuthenticateError, Moves, SupervisorFails, RecordTerminalError,
       SignalStateChanged
<1>10. CASE AfterAuthenticate
    BY <1>10 DEF AfterAuthenticate, Moves
<1>11. CASE ConnectFails
    BY <1>11 DEF ConnectFails
<1>12. CASE Connected
    BY <1>12 DEF Connected
<1>13. CASE SetCurrentSession
    BY <1>13 DEF SetCurrentSession, Moves, SignalStateChanged
<1>14. CASE RunStart
    BY <1>14 DEF RunStart, StartSession
<1>15. CASE SetTunnelConfiguration
    BY <1>15 DEF SetTunnelConfiguration
<1>16. CASE PublishCurrentSession
    BY <1>16 DEF PublishCurrentSession, Moves, SignalStateChanged, Publishable
<1>17. CASE ClearCurrentSession
    BY <1>17 DEF ClearCurrentSession, SignalStateChanged
<1>18. CASE PublishTunnelEvent
    BY <1>18 DEF PublishTunnelEvent
<1>19. CASE WakeDispatcher
    BY <1>19 DEF WakeDispatcher, SendWake
<1>20. CASE RecheckSuspended
    BY <1>20 DEF RecheckSuspended, FailSession
<1>21. CASE RunEnds
    BY <1>21 DEF RunEnds
<1>22. CASE CloseSession
    BY <1>22 DEF CloseSession, BeginClose, CloseLabels
<1>23. CASE SessionClosed
    BY <1>23 DEF SessionClosed, CloseLabels
<1>24. CASE AfterAttempt
    BY <1>24 DEF AfterAttempt, Moves
<1>25. CASE AfterSuspended
    BY <1>25 DEF AfterSuspended, Moves, SupervisorFails, RecordTerminalError,
       SignalStateChanged
<1>26. CASE DropForSuspension
    BY <1>26 DEF DropForSuspension, Logout
<1>27. CASE DiscardWebSession
    BY <1>27 DEF DiscardWebSession, Logout
<1>28. CASE Backoff
    BY <1>28 DEF Backoff, Moves, SupervisorFails, RecordTerminalError, SignalStateChanged
<1>29. CASE BackoffEnds
    BY <1>29 DEF BackoffEnds
<1>30. CASE BackoffCancelled
    BY <1>30 DEF BackoffCancelled, Moves
<1>31. CASE ExitReleases
    BY <1>31 DEF ExitReleases, Logout
<1>32. CASE closeSupervisorState
    BY <1>32 DEF closeSupervisorState, SignalStateChanged
<1>33. CASE Start
    BY <1>33 DEF Start, EndInv
<1>34. CASE Others
    BY <1>34, OthersLeaveSupervisor DEF supervised
<1>35. CASE UNCHANGED vars
    BY <1>35 DEF vars, supVars, tunnelVars
<1> QED
    BY <1>1, <1>2, <1>3, <1>4, <1>5, <1>6, <1>7, <1>8, <1>9, <1>10, <1>11, <1>12, <1>13,
       <1>14, <1>15, <1>16, <1>17, <1>18, <1>19, <1>20, <1>21, <1>22, <1>23, <1>24, <1>25,
       <1>26, <1>27, <1>28, <1>29, <1>30, <1>31, <1>32, <1>33, <1>34, <1>35, NextCases

(* What a backoff waits leaves the budget; a loss or a resume opens a new one. *)
LEMMA BudgetPreserved == LifecycleInv /\ [Next]_vars => ReconnectBudget'
<1> SUFFICES ASSUME LifecycleInv, [Next]_vars PROVE ReconnectBudget'
    OBVIOUS
<1> USE DEF LifecycleInv, ReconnectBudget, supVars, endVars
<1>1. CASE Top
    BY <1>1 DEF Top, Moves
<1>2. CASE Gate
    BY <1>2 DEF Gate, Moves
<1>3. CASE ReleaseForSuspension
    BY <1>3 DEF ReleaseForSuspension, Logout
<1>4. CASE WaitResumed
    BY <1>4, BudgetValues DEF WaitResumed, Moves, Resumed, EndInv, Ending
<1>5. CASE ResumeCancelled
    BY <1>5 DEF ResumeCancelled
<1>6. CASE AuthenticateFails
    BY <1>6 DEF AuthenticateFails, SupervisorResult
<1>7. CASE LoggedIn
    BY <1>7 DEF LoggedIn, SupervisorResult
<1>8. CASE Authenticated
    BY <1>8 DEF Authenticated, SupervisorResult
<1>9. CASE HandleAuthenticateError
    BY <1>9 DEF HandleAuthenticateError, Moves, SupervisorFails, RecordTerminalError,
       SignalStateChanged, RecordTerminalError, EndInv, Ending
<1>10. CASE AfterAuthenticate
    BY <1>10 DEF AfterAuthenticate, Moves
<1>11. CASE ConnectFails
    BY <1>11 DEF ConnectFails
<1>12. CASE Connected
    BY <1>12 DEF Connected
<1>13. CASE SetCurrentSession
    BY <1>13 DEF SetCurrentSession, Moves, SignalStateChanged
<1>14. CASE RunStart
    BY <1>14 DEF RunStart, StartSession
<1>15. CASE SetTunnelConfiguration
    BY <1>15 DEF SetTunnelConfiguration
<1>16. CASE PublishCurrentSession
    BY <1>16 DEF PublishCurrentSession, Moves, SignalStateChanged
<1>17. CASE ClearCurrentSession
    BY <1>17 DEF ClearCurrentSession, SignalStateChanged
<1>18. CASE PublishTunnelEvent
    BY <1>18 DEF PublishTunnelEvent
<1>19. CASE WakeDispatcher
    BY <1>19 DEF WakeDispatcher, SendWake
<1>20. CASE RecheckSuspended
    BY <1>20 DEF RecheckSuspended, FailSession
<1>21. CASE RunEnds
    BY <1>21 DEF RunEnds
<1>22. CASE CloseSession
    BY <1>22 DEF CloseSession, BeginClose, CloseLabels
<1>23. CASE SessionClosed
    BY <1>23 DEF SessionClosed, CloseLabels
<1>24. CASE AfterAttempt
    BY <1>24 DEF AfterAttempt, Moves
<1>25. CASE AfterSuspended
    BY <1>25 DEF AfterSuspended, Moves, SupervisorFails, RecordTerminalError,
       SignalStateChanged, TerminalOutcome, RecordTerminalError, EndInv, Ending
<1>26. CASE DropForSuspension
    BY <1>26, BudgetValues DEF DropForSuspension, Logout, EndInv, Ending
<1>27. CASE DiscardWebSession
    <2>1. ReconnectTimeout \in Nat /\ 0 + ReconnectTimeout = ReconnectTimeout
        BY LifecycleAssumption
    <2> QED
        BY <1>27, <2>1, BudgetValues DEF DiscardWebSession, Logout, EndInv, Ending
<1>28. CASE Backoff
    <2>1. waited \in Nat /\ reconnect.timeoutRemaining \in Nat
        BY LifecycleAssumption DEF TypeOK
    <2> QED
        BY <1>28, <2>1
        DEF Backoff, Moves, SupervisorFails, RecordTerminalError, EndInv, Ending
<1>29. CASE BackoffEnds
    <2>1. TypeOK /\ ReconnectBudget /\ Values
        BY TypeParts, Zenon DEF LifecycleInv
    <2>2. reconnect' = SleptState /\ sup = "sleep" /\ UNCHANGED terminalError
        BY <1>29 DEF BackoffEnds, SleptState
    <2> QED
        BY <1>29, <2>1, <2>2, BackoffStep DEF BackoffEnds, EndInv, Ending
<1>30. CASE BackoffCancelled
    BY <1>30 DEF BackoffCancelled, Moves
<1>31. CASE ExitReleases
    BY <1>31 DEF ExitReleases, Logout
<1>32. CASE closeSupervisorState
    BY <1>32 DEF closeSupervisorState, SignalStateChanged
<1>33. CASE Start
    BY <1>33 DEF Start, EndInv
<1>34. CASE Others
    BY <1>34, OthersLeaveSupervisor DEF supervised
<1>35. CASE UNCHANGED vars
    BY <1>35 DEF vars, supVars, tunnelVars
<1> QED
    BY <1>1, <1>2, <1>3, <1>4, <1>5, <1>6, <1>7, <1>8, <1>9, <1>10, <1>11, <1>12, <1>13,
       <1>14, <1>15, <1>16, <1>17, <1>18, <1>19, <1>20, <1>21, <1>22, <1>23, <1>24, <1>25,
       <1>26, <1>27, <1>28, <1>29, <1>30, <1>31, <1>32, <1>33, <1>34, <1>35, NextCases

(* Close sets closed first and waits for the supervisor last. *)
LEMMA EndPreserved == LifecycleInv /\ [Next]_vars => EndInv'
<1> SUFFICES ASSUME LifecycleInv, [Next]_vars PROVE EndInv'
    OBVIOUS
<1> USE DEF LifecycleInv, EndInv, Ending, vars, sessionVars, endVars, tunnelVars, supVars,
   suspendVars, eventVars, dispVars, closeVars, callVars, waitVars
<1>1. CASE Top
    BY <1>1 DEF Top, Moves
<1>2. CASE Gate
    BY <1>2 DEF Gate, Moves
<1>3. CASE ReleaseForSuspension
    BY <1>3 DEF ReleaseForSuspension, Logout
<1>4. CASE WaitResumed
    BY <1>4 DEF WaitResumed, Moves, Resumed
<1>5. CASE ResumeCancelled
    BY <1>5 DEF ResumeCancelled
<1>6. CASE AuthenticateFails
    BY <1>6 DEF AuthenticateFails, SupervisorResult
<1>7. CASE LoggedIn
    BY <1>7 DEF LoggedIn, SupervisorResult
<1>8. CASE Authenticated
    BY <1>8 DEF Authenticated, SupervisorResult
<1>9. CASE HandleAuthenticateError
    BY <1>9 DEF HandleAuthenticateError, Moves, SupervisorFails, RecordTerminalError,
       SignalStateChanged
<1>10. CASE AfterAuthenticate
    BY <1>10 DEF AfterAuthenticate, Moves
<1>11. CASE ConnectFails
    BY <1>11 DEF ConnectFails
<1>12. CASE Connected
    BY <1>12 DEF Connected
<1>13. CASE SetCurrentSession
    BY <1>13 DEF SetCurrentSession, Moves, SignalStateChanged
<1>14. CASE RunStart
    BY <1>14 DEF RunStart, StartSession
<1>15. CASE SetTunnelConfiguration
    BY <1>15 DEF SetTunnelConfiguration
<1>16. CASE PublishCurrentSession
    BY <1>16 DEF PublishCurrentSession, Moves, SignalStateChanged
<1>17. CASE ClearCurrentSession
    BY <1>17 DEF ClearCurrentSession, SignalStateChanged
<1>18. CASE PublishTunnelEvent
    BY <1>18 DEF PublishTunnelEvent
<1>19. CASE WakeDispatcher
    BY <1>19 DEF WakeDispatcher, SendWake
<1>20. CASE RecheckSuspended
    BY <1>20 DEF RecheckSuspended, FailSession
<1>21. CASE RunEnds
    BY <1>21 DEF RunEnds
<1>22. CASE CloseSession
    BY <1>22 DEF CloseSession, BeginClose, CloseLabels
<1>23. CASE SessionClosed
    BY <1>23 DEF SessionClosed, CloseLabels
<1>24. CASE AfterAttempt
    BY <1>24 DEF AfterAttempt, Moves
<1>25. CASE AfterSuspended
    BY <1>25 DEF AfterSuspended, Moves, SupervisorFails, RecordTerminalError,
       SignalStateChanged
<1>26. CASE DropForSuspension
    BY <1>26 DEF DropForSuspension, Logout
<1>27. CASE DiscardWebSession
    BY <1>27 DEF DiscardWebSession, Logout
<1>28. CASE Backoff
    BY <1>28 DEF Backoff, Moves, SupervisorFails, RecordTerminalError, SignalStateChanged
<1>29. CASE BackoffEnds
    BY <1>29 DEF BackoffEnds
<1>30. CASE BackoffCancelled
    BY <1>30 DEF BackoffCancelled, Moves
<1>31. CASE ExitReleases
    BY <1>31 DEF ExitReleases, Logout
<1>32. CASE closeSupervisorState
    BY <1>32 DEF closeSupervisorState, SignalStateChanged
<1>33. CASE SessionLost
    BY <1>33 DEF SessionLost, FailSession
<1>34. CASE SessionCloses
    BY <1>34 DEF SessionCloses, EndClose
<1>35. CASE FailCall
    BY <1>35 DEF FailCall, FailSession
<1>36. CASE DispatcherLooks
    BY <1>36 DEF DispatcherLooks
<1>37. CASE DispatcherWakes
    BY <1>37 DEF DispatcherWakes
<1>38. CASE CallbackReturns
    BY <1>38 DEF CallbackReturns
<1>39. CASE DispatcherStops
    BY <1>39 DEF DispatcherStops
<1>40. CASE DispatcherReadsSession
    BY <1>40 DEF DispatcherReadsSession
<1>41. CASE DispatcherFails
    BY <1>41 DEF DispatcherFails, RecordTerminalError, SignalStateChanged
<1>42. CASE DispatcherCancels
    BY <1>42 DEF DispatcherCancels
<1>43. CASE DispatcherFailsSession
    BY <1>43 DEF DispatcherFailsSession, FailSession
<1>44. CASE Start
    BY <1>44 DEF Start
<1>45. CASE ContextDone
    BY <1>45 DEF ContextDone
<1>46. CASE RestartSession
    BY <1>46 DEF RestartSession
<1>47. CASE Suspend
    BY <1>47 DEF Suspend
<1>48. CASE Resume
    BY <1>48 DEF Resume
<1>49. CASE WaitReady
    BY <1>49 DEF WaitReady
<1>50. CASE CloseLocks
    BY <1>50 DEF CloseLocks, SignalStateChanged
<1>51. CASE CloseStopsEvents
    BY <1>51 DEF CloseStopsEvents
<1>52. CASE CloseWakesDispatcher
    BY <1>52 DEF CloseWakesDispatcher, SendWake
<1>53. CASE CloseClosesSession
    BY <1>53 DEF CloseClosesSession, BeginClose
<1>54. CASE CloseReturns
    BY <1>54 DEF CloseReturns, SupervisorDone
<1>55. CASE UNCHANGED vars
    BY <1>55
<1> QED
    BY <1>1, <1>2, <1>3, <1>4, <1>5, <1>6, <1>7, <1>8, <1>9, <1>10, <1>11, <1>12, <1>13,
       <1>14, <1>15, <1>16, <1>17, <1>18, <1>19, <1>20, <1>21, <1>22, <1>23, <1>24, <1>25,
       <1>26, <1>27, <1>28, <1>29, <1>30, <1>31, <1>32, <1>33, <1>34, <1>35, <1>36, <1>37,
       <1>38, <1>39, <1>40, <1>41, <1>42, <1>43, <1>44, <1>45, <1>46, <1>47, <1>48, <1>49,
       <1>50, <1>51, <1>52, <1>53, <1>54, <1>55 DEF Next, SupervisorStep, GatewayStep,
       DispatcherStep, CloserStep, CallerStep

LEMMA InitLifecycle == Init => LifecycleInv
<1> SUFFICES ASSUME Init PROVE LifecycleInv
    OBVIOUS
<1> USE LifecycleAssumption DEF Init
<1>1. SessionTypeOK
    BY DEF SessionInit, SessionTypeOK, Failures
<1>2. Flags
    BY Zenon DEF Flags
<1>3. Values
    <2>1. reconnect \in Budgets
        BY BudgetValues
    <2> QED
        BY <2>1, EmptySeq
        DEF Values, TerminalErrors, SupervisorLabels, Outcomes, Failures, Events, Disconnect
<1>4. ReconnectBudget
    BY BudgetValues DEF ReconnectBudget
<1>5. LoginInv /\ ClosedInv /\ PointerInv
    BY DEF LoginInv, ClosedInv, PointerInv, Inside, ToldUp
<1>6. EndInv
    BY DEF EndInv
<1> QED
    BY <1>1, <1>2, <1>3, <1>4, <1>5, <1>6, TypeParts, Zenon DEF LifecycleInv

LEMMA LifecycleInductive == LifecycleInv /\ [Next]_vars => LifecycleInv'
<1> SUFFICES ASSUME LifecycleInv, [Next]_vars PROVE LifecycleInv'
    OBVIOUS
<1>1. SessionTypeOK' /\ Flags' /\ Values'
    BY SessionTypePreserved, FlagsPreserved, ValuesPreserved, TypeParts DEF LifecycleInv
<1>2. TypeOK'
    BY <1>1, Zenon DEF TypeOK, Flags, Values, Budgets
<1> QED
    BY <1>2, BudgetPreserved, LoginPreserved, ClosedPreserved, PointersPreserved, EndPreserved
    DEF LifecycleInv

LEMMA LifecycleInvariant == Spec => []LifecycleInv
BY InitLifecycle, LifecycleInductive, PTL DEF Spec

(* Only Start of a session makes it ready. *)
LEMMA ReadyFalls ==
    ASSUME SessionTypeOK, NEW s \in Sessions, NEW t \in Sessions, NEW why,
           FailSession(s, why) \/ BeginClose(s) \/ EndClose(s)
    PROVE  ready'[t] => ready[t]
<1>1. ready \in [Sessions -> BOOLEAN]
    BY DEF SessionTypeOK
<1>2. CASE ready' = ready
    BY <1>2
<1>3. CASE ready' = [ready EXCEPT ![s] = FALSE]
    BY <1>1, <1>3
<1> QED
    BY <1>2, <1>3 DEF FailSession, BeginClose, EndClose

(* Whoever settles a WaitReady signals; a started session is not published yet. *)
LEMMA WaiterRemembered == LifecycleInv /\ NoForgottenWaiter /\ [Next]_vars => NoForgottenWaiter'
<1> SUFFICES ASSUME LifecycleInv /\ NoForgottenWaiter, [Next]_vars PROVE NoForgottenWaiter'
    OBVIOUS
<1> USE DEF NoForgottenWaiter, vars, sessionVars, endVars, tunnelVars, supVars,
   suspendVars, eventVars, dispVars, closeVars, callVars, waitVars
<1>0. /\ SessionTypeOK /\ latest \in Sessions \cup {0} /\ current \in Sessions \cup {0}
      /\ target \in Sessions \cup {0} /\ victim \in Sessions \cup {0}
      /\ calls \subseteq Sessions \X {"suspended", "restart"}
    BY DEF LifecycleInv, TypeOK
<1>1. CASE Top
    BY <1>1 DEF Top, Moves, Settled
<1>2. CASE Gate
    BY <1>2 DEF Gate, Moves, Settled
<1>3. CASE ReleaseForSuspension
    BY <1>3 DEF ReleaseForSuspension, Logout, Settled
<1>4. CASE WaitResumed
    BY <1>4 DEF WaitResumed, Moves, Resumed, Settled
<1>5. CASE ResumeCancelled
    BY <1>5 DEF ResumeCancelled, Settled
<1>6. CASE AuthenticateFails
    BY <1>6 DEF AuthenticateFails, SupervisorResult, Settled
<1>7. CASE LoggedIn
    BY <1>7 DEF LoggedIn, SupervisorResult, Settled
<1>8. CASE Authenticated
    BY <1>8 DEF Authenticated, SupervisorResult, Settled
<1>9. CASE HandleAuthenticateError
    BY <1>9 DEF HandleAuthenticateError, Moves, SupervisorFails, RecordTerminalError,
       SignalStateChanged, Settled
<1>10. CASE AfterAuthenticate
    BY <1>10 DEF AfterAuthenticate, Moves, Settled
<1>11. CASE ConnectFails
    BY <1>11 DEF ConnectFails, Settled
<1>12. CASE Connected
    BY <1>12 DEF Connected, Settled
<1>13. CASE SetCurrentSession
    BY <1>13 DEF SetCurrentSession, Moves, SignalStateChanged, Settled
<1>14. CASE RunStart
    <2>1. published = 0
        BY <1>14 DEF RunStart, LifecycleInv, PointerInv, Published
    <2>2. UNCHANGED <<terminalError, closed, current, published, watching>>
        BY <1>14, Zenon DEF RunStart
    <2> QED
        BY <2>1, <2>2 DEF Settled
<1>15. CASE SetTunnelConfiguration
    BY <1>15 DEF SetTunnelConfiguration, Settled
<1>16. CASE PublishCurrentSession
    BY <1>16 DEF PublishCurrentSession, Moves, SignalStateChanged, Settled
<1>17. CASE ClearCurrentSession
    BY <1>17 DEF ClearCurrentSession, SignalStateChanged, Settled
<1>18. CASE PublishTunnelEvent
    BY <1>18 DEF PublishTunnelEvent, Settled
<1>19. CASE WakeDispatcher
    BY <1>19 DEF WakeDispatcher, SendWake, Settled
<1>20. CASE RecheckSuspended
    <2>1. UNCHANGED <<terminalError, closed, current, published, watching>>
        BY <1>20, Zenon DEF RecheckSuspended
    <2>2. ready'[current] => current = 0 \/ ready[current]
        BY <1>20, <1>0, ReadyFalls
        DEF RecheckSuspended, LifecycleInv, ClosedInv, Inside, sessionVars
    <2> QED
        BY <2>1, <2>2 DEF Settled
<1>21. CASE RunEnds
    BY <1>21 DEF RunEnds, Settled
<1>22. CASE CloseSession
    <2>1. UNCHANGED <<terminalError, closed, current, published, watching>>
        BY <1>22, Zenon DEF CloseSession
    <2>2. ready'[current] => current = 0 \/ ready[current]
        BY <1>22, <1>0, ReadyFalls
        DEF CloseSession, CloseLabels, LifecycleInv, ClosedInv, Inside, sessionVars
    <2> QED
        BY <2>1, <2>2 DEF Settled
<1>23. CASE SessionClosed
    BY <1>23 DEF SessionClosed, Settled
<1>24. CASE AfterAttempt
    BY <1>24 DEF AfterAttempt, Moves, Settled
<1>25. CASE AfterSuspended
    BY <1>25 DEF AfterSuspended, Moves, SupervisorFails, RecordTerminalError,
       SignalStateChanged, Settled
<1>26. CASE DropForSuspension
    BY <1>26 DEF DropForSuspension, Logout, Settled
<1>27. CASE DiscardWebSession
    BY <1>27 DEF DiscardWebSession, Logout, Settled
<1>28. CASE Backoff
    BY <1>28 DEF Backoff, Moves, SupervisorFails, RecordTerminalError, SignalStateChanged,
       Settled
<1>29. CASE BackoffEnds
    BY <1>29 DEF BackoffEnds, Settled
<1>30. CASE BackoffCancelled
    BY <1>30 DEF BackoffCancelled, Moves, Settled
<1>31. CASE ExitReleases
    BY <1>31 DEF ExitReleases, Logout, Settled
<1>32. CASE closeSupervisorState
    BY <1>32 DEF closeSupervisorState, SignalStateChanged, Settled
<1>33. CASE SessionLost
    <2>1. UNCHANGED <<terminalError, closed, current, published, watching>>
        BY <1>33, Zenon DEF SessionLost
    <2>2. ready'[current] => current = 0 \/ ready[current]
        BY <1>33, <1>0, ReadyFalls DEF SessionLost
    <2> QED
        BY <2>1, <2>2 DEF Settled
<1>34. CASE SessionCloses
    <2>1. UNCHANGED <<terminalError, closed, current, published, watching>>
        BY <1>34, Zenon DEF SessionCloses
    <2>2. ready'[current] => current = 0 \/ ready[current]
        BY <1>34, <1>0, ReadyFalls DEF SessionCloses
    <2> QED
        BY <2>1, <2>2 DEF Settled
<1>35. CASE FailCall
    <2>1. UNCHANGED <<terminalError, closed, current, published, watching>>
        BY <1>35, Zenon DEF FailCall
    <2>2. ready'[current] => current = 0 \/ ready[current]
        BY <1>35, <1>0, ReadyFalls DEF FailCall
    <2> QED
        BY <2>1, <2>2 DEF Settled
<1>36. CASE DispatcherLooks
    BY <1>36 DEF DispatcherLooks, Settled
<1>37. CASE DispatcherWakes
    BY <1>37 DEF DispatcherWakes, Settled
<1>38. CASE CallbackReturns
    BY <1>38 DEF CallbackReturns, Settled
<1>39. CASE DispatcherStops
    BY <1>39 DEF DispatcherStops, Settled
<1>40. CASE DispatcherReadsSession
    BY <1>40 DEF DispatcherReadsSession, Settled
<1>41. CASE DispatcherFails
    BY <1>41 DEF DispatcherFails, RecordTerminalError, SignalStateChanged, Settled
<1>42. CASE DispatcherCancels
    BY <1>42 DEF DispatcherCancels, Settled
<1>43. CASE DispatcherFailsSession
    <2>1. UNCHANGED <<terminalError, closed, current, published, watching>>
        BY <1>43, Zenon DEF DispatcherFailsSession
    <2>2. ready'[current] => current = 0 \/ ready[current]
        BY <1>43, <1>0, ReadyFalls DEF DispatcherFailsSession, LifecycleInv, sessionVars
    <2> QED
        BY <2>1, <2>2 DEF Settled
<1>44. CASE Start
    BY <1>44 DEF Start, Settled
<1>45. CASE ContextDone
    BY <1>45 DEF ContextDone, Settled
<1>46. CASE RestartSession
    BY <1>46 DEF RestartSession, Settled
<1>47. CASE Suspend
    BY <1>47 DEF Suspend, Settled
<1>48. CASE Resume
    BY <1>48 DEF Resume, Settled
<1>49. CASE WaitReady
    BY <1>49 DEF WaitReady, Settled
<1>50. CASE CloseLocks
    BY <1>50 DEF CloseLocks, SignalStateChanged, Settled
<1>51. CASE CloseStopsEvents
    BY <1>51 DEF CloseStopsEvents, Settled
<1>52. CASE CloseWakesDispatcher
    BY <1>52 DEF CloseWakesDispatcher, SendWake, Settled
<1>53. CASE CloseClosesSession
    <2>1. UNCHANGED <<terminalError, closed, current, published, watching>>
        BY <1>53, Zenon DEF CloseClosesSession
    <2>2. ready'[current] => current = 0 \/ ready[current]
        BY <1>53, <1>0, ReadyFalls DEF CloseClosesSession, LifecycleInv, EndInv, sessionVars
    <2> QED
        BY <2>1, <2>2 DEF Settled
<1>54. CASE CloseReturns
    BY <1>54 DEF CloseReturns, Settled
<1>55. CASE UNCHANGED vars
    BY <1>55 DEF Settled
<1> QED
    BY <1>1, <1>2, <1>3, <1>4, <1>5, <1>6, <1>7, <1>8, <1>9, <1>10, <1>11, <1>12, <1>13,
       <1>14, <1>15, <1>16, <1>17, <1>18, <1>19, <1>20, <1>21, <1>22, <1>23, <1>24, <1>25,
       <1>26, <1>27, <1>28, <1>29, <1>30, <1>31, <1>32, <1>33, <1>34, <1>35, <1>36, <1>37,
       <1>38, <1>39, <1>40, <1>41, <1>42, <1>43, <1>44, <1>45, <1>46, <1>47, <1>48, <1>49,
       <1>50, <1>51, <1>52, <1>53, <1>54, <1>55 DEF Next, SupervisorStep, GatewayStep,
       DispatcherStep, CloserStep, CallerStep

(* Whoever leaves the dispatcher work has the token still to send. *)
LEMMA EventWakeKept == LifecycleInv /\ NoLostEventWake /\ [Next]_vars => NoLostEventWake'
<1> SUFFICES ASSUME LifecycleInv /\ NoLostEventWake, [Next]_vars PROVE NoLostEventWake'
    OBVIOUS
<1> USE DEF NoLostEventWake, vars, sessionVars, endVars, tunnelVars, supVars, suspendVars,
   eventVars, dispVars, closeVars, callVars, waitVars
<1>1. CASE Top
    BY <1>1 DEF Top, Moves
<1>2. CASE Gate
    BY <1>2 DEF Gate, Moves
<1>3. CASE ReleaseForSuspension
    BY <1>3 DEF ReleaseForSuspension, Logout
<1>4. CASE WaitResumed
    BY <1>4 DEF WaitResumed, Moves, Resumed
<1>5. CASE ResumeCancelled
    BY <1>5 DEF ResumeCancelled
<1>6. CASE AuthenticateFails
    BY <1>6 DEF AuthenticateFails, SupervisorResult
<1>7. CASE LoggedIn
    BY <1>7 DEF LoggedIn, SupervisorResult
<1>8. CASE Authenticated
    BY <1>8 DEF Authenticated, SupervisorResult
<1>9. CASE HandleAuthenticateError
    BY <1>9 DEF HandleAuthenticateError, Moves, SupervisorFails, RecordTerminalError,
       SignalStateChanged
<1>10. CASE AfterAuthenticate
    BY <1>10 DEF AfterAuthenticate, Moves
<1>11. CASE ConnectFails
    BY <1>11 DEF ConnectFails
<1>12. CASE Connected
    BY <1>12 DEF Connected
<1>13. CASE SetCurrentSession
    BY <1>13 DEF SetCurrentSession, Moves, SignalStateChanged
<1>14. CASE RunStart
    BY <1>14 DEF RunStart, StartSession
<1>15. CASE SetTunnelConfiguration
    BY <1>15 DEF SetTunnelConfiguration
<1>16. CASE PublishCurrentSession
    BY <1>16 DEF PublishCurrentSession, Moves, SignalStateChanged
<1>17. CASE ClearCurrentSession
    BY <1>17 DEF ClearCurrentSession, SignalStateChanged
<1>18. CASE PublishTunnelEvent
    BY <1>18 DEF PublishTunnelEvent
<1>19. CASE WakeDispatcher
    BY <1>19 DEF WakeDispatcher, SendWake, LifecycleInv, EndInv
<1>20. CASE RecheckSuspended
    BY <1>20 DEF RecheckSuspended, FailSession
<1>21. CASE RunEnds
    BY <1>21 DEF RunEnds
<1>22. CASE CloseSession
    BY <1>22 DEF CloseSession, BeginClose, CloseLabels
<1>23. CASE SessionClosed
    BY <1>23 DEF SessionClosed, CloseLabels
<1>24. CASE AfterAttempt
    BY <1>24 DEF AfterAttempt, Moves
<1>25. CASE AfterSuspended
    BY <1>25 DEF AfterSuspended, Moves, SupervisorFails, RecordTerminalError,
       SignalStateChanged
<1>26. CASE DropForSuspension
    BY <1>26 DEF DropForSuspension, Logout
<1>27. CASE DiscardWebSession
    BY <1>27 DEF DiscardWebSession, Logout
<1>28. CASE Backoff
    BY <1>28 DEF Backoff, Moves, SupervisorFails, RecordTerminalError, SignalStateChanged
<1>29. CASE BackoffEnds
    BY <1>29 DEF BackoffEnds
<1>30. CASE BackoffCancelled
    BY <1>30 DEF BackoffCancelled, Moves
<1>31. CASE ExitReleases
    BY <1>31 DEF ExitReleases, Logout
<1>32. CASE closeSupervisorState
    BY <1>32 DEF closeSupervisorState, SignalStateChanged
<1>33. CASE SessionLost
    BY <1>33 DEF SessionLost, FailSession
<1>34. CASE SessionCloses
    BY <1>34 DEF SessionCloses, EndClose
<1>35. CASE FailCall
    BY <1>35 DEF FailCall, FailSession
<1>36. CASE DispatcherLooks
    BY <1>36 DEF DispatcherLooks
<1>37. CASE DispatcherWakes
    BY <1>37 DEF DispatcherWakes
<1>38. CASE CallbackReturns
    BY <1>38 DEF CallbackReturns
<1>39. CASE DispatcherStops
    BY <1>39 DEF DispatcherStops
<1>40. CASE DispatcherReadsSession
    BY <1>40 DEF DispatcherReadsSession
<1>41. CASE DispatcherFails
    BY <1>41 DEF DispatcherFails, RecordTerminalError, SignalStateChanged
<1>42. CASE DispatcherCancels
    BY <1>42 DEF DispatcherCancels
<1>43. CASE DispatcherFailsSession
    BY <1>43 DEF DispatcherFailsSession, FailSession
<1>44. CASE Start
    BY <1>44 DEF Start
<1>45. CASE ContextDone
    BY <1>45 DEF ContextDone
<1>46. CASE RestartSession
    BY <1>46 DEF RestartSession
<1>47. CASE Suspend
    BY <1>47 DEF Suspend
<1>48. CASE Resume
    BY <1>48 DEF Resume
<1>49. CASE WaitReady
    BY <1>49 DEF WaitReady
<1>50. CASE CloseLocks
    BY <1>50 DEF CloseLocks, SignalStateChanged
<1>51. CASE CloseStopsEvents
    BY <1>51 DEF CloseStopsEvents
<1>52. CASE CloseWakesDispatcher
    BY <1>52 DEF CloseWakesDispatcher, SendWake
<1>53. CASE CloseClosesSession
    BY <1>53 DEF CloseClosesSession, BeginClose
<1>54. CASE CloseReturns
    BY <1>54 DEF CloseReturns
<1>55. CASE UNCHANGED vars
    BY <1>55
<1> QED
    BY <1>1, <1>2, <1>3, <1>4, <1>5, <1>6, <1>7, <1>8, <1>9, <1>10, <1>11, <1>12, <1>13,
       <1>14, <1>15, <1>16, <1>17, <1>18, <1>19, <1>20, <1>21, <1>22, <1>23, <1>24, <1>25,
       <1>26, <1>27, <1>28, <1>29, <1>30, <1>31, <1>32, <1>33, <1>34, <1>35, <1>36, <1>37,
       <1>38, <1>39, <1>40, <1>41, <1>42, <1>43, <1>44, <1>45, <1>46, <1>47, <1>48, <1>49,
       <1>50, <1>51, <1>52, <1>53, <1>54, <1>55 DEF Next, SupervisorStep, GatewayStep,
       DispatcherStep, CloserStep, CallerStep

(* The story as a function of the event told last and those to come. *)
Told == IF disp = "callback" THEN event.configuration ELSE delivered
LastTold == IF sup \in ToldUp THEN latest ELSE 0
StoryOf(h, q) == <<h>> \o [i \in 1..Len(q) |-> q[i].configuration]

LEMMA StoryShape ==
    ASSUME NEW h \in Sessions \cup {0}, NEW q \in Seq(Events)
    PROVE  /\ StoryOf(h, q) \in Seq(Sessions \cup {0})
           /\ Len(StoryOf(h, q)) = Len(q) + 1 /\ Len(q) \in Nat
           /\ StoryOf(h, q)[1] = h
           /\ \A i \in 1..Len(q) : StoryOf(h, q)[i + 1] = q[i].configuration
<1>1. Len(q) \in Nat /\ \A i \in 1..Len(q) : q[i].configuration \in Sessions \cup {0}
    <2>1. Len(q) \in Nat /\ \A i \in 1..Len(q) : q[i] \in Events
        BY ElementOfSeq
    <2> QED
        BY <2>1 DEF Events
<1> DEFINE tail == [i \in 1..Len(q) |-> q[i].configuration]
<1>2. tail \in Seq(Sessions \cup {0}) /\ Len(tail) = Len(q)
    BY <1>1
<1>3. <<h>> \in Seq(Sessions \cup {0}) /\ Len(<<h>>) = 1 /\ <<h>>[1] = h
    OBVIOUS
<1>4. \A i \in 1..Len(q) : tail[i] = q[i].configuration
    OBVIOUS
<1> HIDE DEF tail
<1>5. <<h>> \o tail \in Seq(Sessions \cup {0}) /\ Len(<<h>> \o tail) = 1 + Len(q)
    BY <1>1, <1>2, <1>3, ConcatProperties
<1>6. \A i \in 1..(1 + Len(q)) :
          (<<h>> \o tail)[i] = IF i <= 1 THEN <<h>>[i] ELSE tail[i - 1]
    BY <1>1, <1>2, <1>3, ConcatProperties
<1> QED
    BY <1>1, <1>3, <1>4, <1>5, <1>6 DEF StoryOf, tail

(* Told in these words, the property says: *)
LEMMA StoryTold ==
    ASSUME Told \in Sessions \cup {0}, tunnelEvents \in Seq(Events)
    PROVE  EventsTellTheTunnel <=>
               (HasCallback /\ ~stopped =>
                    /\ Len(tunnelEvents) = 0 => Told = LastTold
                    /\ Len(tunnelEvents) > 0 =>
                           /\ (Told = 0) # (tunnelEvents[1].configuration = 0)
                           /\ tunnelEvents[Len(tunnelEvents)].configuration = LastTold
                    /\ \A i \in 1..(Len(tunnelEvents) - 1) :
                           (tunnelEvents[i].configuration = 0)
                               # (tunnelEvents[i + 1].configuration = 0))
<1>1. Story = StoryOf(Told, tunnelEvents)
    BY DEF Story, StoryOf, Told
<1>2. /\ Len(Story) = Len(tunnelEvents) + 1 /\ Len(tunnelEvents) \in Nat
      /\ Story[1] = Told
      /\ \A i \in 1..Len(tunnelEvents) : Story[i + 1] = tunnelEvents[i].configuration
    BY <1>1, StoryShape
<1>3. Story[Len(Story)] = IF Len(tunnelEvents) = 0 THEN Told
                          ELSE tunnelEvents[Len(tunnelEvents)].configuration
    BY <1>2
<1>4. (\A i \in 1..(Len(Story) - 1) : (Story[i] = 0) # (Story[i + 1] = 0))
          <=> /\ Len(tunnelEvents) > 0 => (Told = 0) # (tunnelEvents[1].configuration = 0)
              /\ \A i \in 1..(Len(tunnelEvents) - 1) :
                     (tunnelEvents[i].configuration = 0)
                         # (tunnelEvents[i + 1].configuration = 0)
    <2>1. ASSUME \A i \in 1..(Len(Story) - 1) : (Story[i] = 0) # (Story[i + 1] = 0)
          PROVE  /\ Len(tunnelEvents) > 0 => (Told = 0) # (tunnelEvents[1].configuration = 0)
                 /\ \A i \in 1..(Len(tunnelEvents) - 1) :
                        (tunnelEvents[i].configuration = 0)
                            # (tunnelEvents[i + 1].configuration = 0)
        <3>1. ASSUME Len(tunnelEvents) > 0
              PROVE  (Told = 0) # (tunnelEvents[1].configuration = 0)
            BY <1>2, <2>1, <3>1
        <3>2. ASSUME NEW i \in 1..(Len(tunnelEvents) - 1)
              PROVE  (tunnelEvents[i].configuration = 0)
                         # (tunnelEvents[i + 1].configuration = 0)
            <4>1. (Story[i + 1] = 0) # (Story[i + 1 + 1] = 0)
                BY <1>2, <2>1
            <4> QED
                BY <1>2, <4>1
        <3> QED
            BY <3>1, <3>2
    <2>2. ASSUME Len(tunnelEvents) > 0 => (Told = 0) # (tunnelEvents[1].configuration = 0),
                 \A i \in 1..(Len(tunnelEvents) - 1) :
                     (tunnelEvents[i].configuration = 0)
                         # (tunnelEvents[i + 1].configuration = 0),
                 NEW i \in 1..(Len(Story) - 1)
          PROVE  (Story[i] = 0) # (Story[i + 1] = 0)
        <3>1. CASE i = 1
            BY <1>2, <2>2, <3>1
        <3>2. CASE i # 1
            <4>1. /\ i - 1 \in 1..(Len(tunnelEvents) - 1) /\ (i - 1) + 1 = i
                BY <1>2, <3>2
            <4>2. (tunnelEvents[i - 1].configuration = 0) # (tunnelEvents[i].configuration = 0)
                BY <2>2, <4>1
            <4>3. /\ Story[(i - 1) + 1] = tunnelEvents[i - 1].configuration
                  /\ Story[i + 1] = tunnelEvents[i].configuration
                BY <1>2, <4>1
            <4> QED
                BY <4>1, <4>2, <4>3
        <3> QED
            BY <3>1, <3>2
    <2> QED
        BY <2>1, <2>2
<1> QED
    BY <1>2, <1>3, <1>4 DEF EventsTellTheTunnel, LastTold, ToldUp

(* Nobody else's step changes what has been told and what there is to tell. *)
StoryStands ==
    \/ stopped'
    \/ UNCHANGED <<Told, tunnelEvents, LastTold, stopped>>

LEMMA StoryStep ==
    LifecycleInv /\ [Next]_vars => StoryStands \/ PublishTunnelEvent \/ DispatcherLooks
<1> SUFFICES ASSUME LifecycleInv, [Next]_vars
             PROVE  StoryStands \/ PublishTunnelEvent \/ DispatcherLooks
    OBVIOUS
<1> USE DEF LifecycleInv, StoryStands, LastTold, ToldUp, vars, sessionVars, endVars,
   tunnelVars, supVars, suspendVars, eventVars, dispVars, closeVars, callVars, waitVars
<1>1. CASE Top
    BY <1>1 DEF Top, Moves, Told
<1>2. CASE Gate
    BY <1>2 DEF Gate, Moves, Told
<1>3. CASE ReleaseForSuspension
    BY <1>3 DEF ReleaseForSuspension, Logout, Told
<1>4. CASE WaitResumed
    BY <1>4 DEF WaitResumed, Moves, Resumed, Told
<1>5. CASE ResumeCancelled
    BY <1>5 DEF ResumeCancelled, Told
<1>6. CASE AuthenticateFails
    BY <1>6 DEF AuthenticateFails, SupervisorResult, Told
<1>7. CASE LoggedIn
    BY <1>7 DEF LoggedIn, SupervisorResult, Told
<1>8. CASE Authenticated
    BY <1>8 DEF Authenticated, SupervisorResult, Told
<1>9. CASE HandleAuthenticateError
    BY <1>9 DEF HandleAuthenticateError, Moves, SupervisorFails, RecordTerminalError,
       SignalStateChanged, Told
<1>10. CASE AfterAuthenticate
    BY <1>10 DEF AfterAuthenticate, Moves, Told
<1>11. CASE ConnectFails
    BY <1>11 DEF ConnectFails, Told
<1>12. CASE Connected
    BY <1>12 DEF Connected, Told
<1>13. CASE SetCurrentSession
    BY <1>13 DEF SetCurrentSession, Moves, SignalStateChanged, Told
<1>14. CASE RunStart
    BY <1>14 DEF RunStart, StartSession, Told
<1>15. CASE SetTunnelConfiguration
    BY <1>15 DEF SetTunnelConfiguration, Told
<1>16. CASE PublishCurrentSession
    BY <1>16 DEF PublishCurrentSession, Moves, SignalStateChanged, Told
<1>17. CASE ClearCurrentSession
    BY <1>17 DEF ClearCurrentSession, SignalStateChanged, Told
<1>18. CASE PublishTunnelEvent
    BY <1>18
<1>19. CASE WakeDispatcher
    BY <1>19 DEF WakeDispatcher, SendWake, Told
<1>20. CASE RecheckSuspended
    BY <1>20 DEF RecheckSuspended, FailSession, Told
<1>21. CASE RunEnds
    BY <1>21 DEF RunEnds, Told
<1>22. CASE CloseSession
    BY <1>22 DEF CloseSession, BeginClose, CloseLabels, Told
<1>23. CASE SessionClosed
    BY <1>23 DEF SessionClosed, CloseLabels, Told
<1>24. CASE AfterAttempt
    BY <1>24 DEF AfterAttempt, Moves, Told
<1>25. CASE AfterSuspended
    BY <1>25 DEF AfterSuspended, Moves, SupervisorFails, RecordTerminalError,
       SignalStateChanged, Told
<1>26. CASE DropForSuspension
    BY <1>26 DEF DropForSuspension, Logout, Told
<1>27. CASE DiscardWebSession
    BY <1>27 DEF DiscardWebSession, Logout, Told
<1>28. CASE Backoff
    BY <1>28 DEF Backoff, Moves, SupervisorFails, RecordTerminalError, SignalStateChanged,
       Told
<1>29. CASE BackoffEnds
    BY <1>29 DEF BackoffEnds, Told
<1>30. CASE BackoffCancelled
    BY <1>30 DEF BackoffCancelled, Moves, Told
<1>31. CASE ExitReleases
    BY <1>31 DEF ExitReleases, Logout, Told
<1>32. CASE closeSupervisorState
    BY <1>32 DEF closeSupervisorState, SignalStateChanged, Told
<1>33. CASE SessionLost
    BY <1>33 DEF SessionLost, FailSession, Told
<1>34. CASE SessionCloses
    BY <1>34 DEF SessionCloses, EndClose, Told
<1>35. CASE FailCall
    BY <1>35 DEF FailCall, FailSession, Told
<1>36. CASE DispatcherLooks
    BY <1>36
<1>37. CASE DispatcherWakes
    BY <1>37 DEF DispatcherWakes, Told
<1>38. CASE CallbackReturns
    BY <1>38 DEF CallbackReturns, Told
<1>39. CASE DispatcherStops
    BY <1>39 DEF DispatcherStops, Told
<1>40. CASE DispatcherReadsSession
    BY <1>40 DEF DispatcherReadsSession, Told
<1>41. CASE DispatcherFails
    BY <1>41 DEF DispatcherFails, RecordTerminalError, SignalStateChanged, Told
<1>42. CASE DispatcherCancels
    BY <1>42 DEF DispatcherCancels, Told
<1>43. CASE DispatcherFailsSession
    BY <1>43 DEF DispatcherFailsSession, FailSession, Told
<1>44. CASE Start
    BY <1>44 DEF Start, Told, EndInv
<1>45. CASE ContextDone
    BY <1>45 DEF ContextDone, Told
<1>46. CASE RestartSession
    BY <1>46 DEF RestartSession, Told
<1>47. CASE Suspend
    BY <1>47 DEF Suspend, Told
<1>48. CASE Resume
    BY <1>48 DEF Resume, Told
<1>49. CASE WaitReady
    BY <1>49 DEF WaitReady, Told
<1>50. CASE CloseLocks
    BY <1>50 DEF CloseLocks, SignalStateChanged, Told
<1>51. CASE CloseStopsEvents
    BY <1>51 DEF CloseStopsEvents, Told
<1>52. CASE CloseWakesDispatcher
    BY <1>52 DEF CloseWakesDispatcher, SendWake, Told
<1>53. CASE CloseClosesSession
    BY <1>53 DEF CloseClosesSession, BeginClose, Told
<1>54. CASE CloseReturns
    BY <1>54 DEF CloseReturns, Told
<1>55. CASE UNCHANGED vars
    BY <1>55 DEF Told
<1> QED
    BY <1>1, <1>2, <1>3, <1>4, <1>5, <1>6, <1>7, <1>8, <1>9, <1>10, <1>11, <1>12, <1>13,
       <1>14, <1>15, <1>16, <1>17, <1>18, <1>19, <1>20, <1>21, <1>22, <1>23, <1>24, <1>25,
       <1>26, <1>27, <1>28, <1>29, <1>30, <1>31, <1>32, <1>33, <1>34, <1>35, <1>36, <1>37,
       <1>38, <1>39, <1>40, <1>41, <1>42, <1>43, <1>44, <1>45, <1>46, <1>47, <1>48, <1>49,
       <1>50, <1>51, <1>52, <1>53, <1>54, <1>55 DEF Next, SupervisorStep, GatewayStep,
       DispatcherStep, CloserStep, CallerStep

(* An event is appended when what it tells is news, and taken from the front. *)
LEMMA StoryPreserved ==
    LifecycleInv /\ EventsTellTheTunnel /\ [Next]_vars => EventsTellTheTunnel'
<1> SUFFICES ASSUME LifecycleInv, EventsTellTheTunnel, [Next]_vars, HasCallback, ~stopped'
             PROVE  EventsTellTheTunnel'
    BY DEF EventsTellTheTunnel
<1>1. /\ Told \in Sessions \cup {0} /\ tunnelEvents \in Seq(Events)
      /\ latest \in Sessions \cup {0} /\ Len(tunnelEvents) \in Nat
    BY DEF LifecycleInv, TypeOK, Told, Events
<1>2. Told' \in Sessions \cup {0} /\ tunnelEvents' \in Seq(Events)
    BY LifecycleInductive DEF LifecycleInv, TypeOK, Told, Events
<1> DEFINE Tells(told, q, last) ==
               /\ Len(q) = 0 => told = last
               /\ Len(q) > 0 => /\ (told = 0) # (q[1].configuration = 0)
                                /\ q[Len(q)].configuration = last
               /\ \A i \in 1..(Len(q) - 1) :
                      (q[i].configuration = 0) # (q[i + 1].configuration = 0)
<1>3. ~stopped => Tells(Told, tunnelEvents, LastTold)
    BY <1>1, StoryTold
<1>4. SUFFICES Tells(Told', tunnelEvents', LastTold')
    <2>1. (Told \in Sessions \cup {0} /\ tunnelEvents \in Seq(Events)
              /\ Tells(Told, tunnelEvents, LastTold) => EventsTellTheTunnel)'
        BY StoryTold, PTL
    <2> QED
        BY <1>2, <1>4, <2>1
<1>5. CASE StoryStands
    BY <1>3, <1>5 DEF StoryStands
<1>6. CASE PublishTunnelEvent
    <2>1. /\ sup \in {"up", "down"} /\ ~stopped
          /\ tunnelEvents' = Append(tunnelEvents, TunnelEvent)
          /\ sup' = IF sup = "up" THEN "upWake" ELSE "downWake"
          /\ UNCHANGED <<Told, latest>>
        BY <1>6 DEF PublishTunnelEvent, EventsWith, eventVars, dispVars, supVars, Told
    <2>2. latest # 0
        BY <2>1 DEF LifecycleInv, ClosedInv, Inside, ToldUp
    <2>3. /\ LastTold = IF sup = "up" THEN 0 ELSE latest
          /\ LastTold' = IF sup = "up" THEN latest ELSE 0
          /\ TunnelEvent.configuration = LastTold'
        BY <2>1 DEF LastTold, ToldUp, TunnelEvent, Disconnect
    <2>4. TunnelEvent \in Events
        BY <1>1 DEF TunnelEvent, Disconnect, Events
    <2> DEFINE n == Len(tunnelEvents)
    <2>5. /\ Len(tunnelEvents') = n + 1 /\ tunnelEvents'[n + 1] = TunnelEvent
          /\ \A i \in 1..n : tunnelEvents'[i] = tunnelEvents[i]
        BY <1>1, <2>1, <2>4, AppendProperties
    <2>6. (LastTold = 0) # (LastTold' = 0)
        BY <2>2, <2>3
    <2>7. CASE n = 0
        BY <1>3, <2>1, <2>3, <2>5, <2>6, <2>7
    <2>8. CASE n > 0
        <3>1. /\ (Told = 0) # (tunnelEvents[1].configuration = 0)
              /\ tunnelEvents[n].configuration = LastTold
              /\ \A i \in 1..(n - 1) : (tunnelEvents[i].configuration = 0)
                                           # (tunnelEvents[i + 1].configuration = 0)
            BY <1>3, <2>1, <2>8
        <3>2. ASSUME NEW i \in 1..n
              PROVE  (tunnelEvents'[i].configuration = 0)
                         # (tunnelEvents'[i + 1].configuration = 0)
            <4>1. CASE i = n
                BY <1>1, <2>3, <2>5, <2>6, <2>8, <3>1, <4>1
            <4>2. CASE i # n
                <5>1. i \in 1..(n - 1) /\ i + 1 \in 1..n
                    BY <1>1, <4>2
                <5> QED
                    BY <2>5, <3>1, <5>1
            <4> QED
                BY <4>1, <4>2
        <3>3. tunnelEvents'[1] = tunnelEvents[1]
            BY <1>1, <2>5, <2>8
        <3> QED
            BY <1>1, <2>1, <2>3, <2>5, <2>8, <3>1, <3>2, <3>3
    <2> QED
        BY <1>1, <2>7, <2>8
<1>7. CASE DispatcherLooks
    <2>1. CASE tunnelEvents = <<>>
        <3>1. UNCHANGED <<Told, tunnelEvents, LastTold, stopped>>
            BY <1>7, <2>1 DEF DispatcherLooks, Told, LastTold, supVars
        <3> QED
            BY <1>3, <3>1
    <2>2. CASE tunnelEvents # <<>>
        <3>1. /\ ~stopped /\ tunnelEvents' = Tail(tunnelEvents)
              /\ Told' = Head(tunnelEvents).configuration /\ UNCHANGED LastTold
            BY <1>7, <2>2 DEF DispatcherLooks, Told, LastTold, supVars
        <3>2. /\ Len(tunnelEvents) > 0 /\ Head(tunnelEvents) = tunnelEvents[1]
              /\ Len(tunnelEvents') = Len(tunnelEvents) - 1
              /\ \A i \in 1..(Len(tunnelEvents) - 1) : tunnelEvents'[i] = tunnelEvents[i + 1]
            BY <1>1, <2>2, <3>1, HeadTailProperties
        <3>3. CASE Len(tunnelEvents) = 1
            <4>1. tunnelEvents[1].configuration = LastTold /\ Len(tunnelEvents') = 0
                BY <1>3, <3>1, <3>2, <3>3
            <4>2. Told' = LastTold'
                BY <3>1, <3>2, <4>1
            <4> QED
                BY <4>1, <4>2
        <3>4. CASE Len(tunnelEvents) > 1
            <4>1. /\ \A i \in 1..(Len(tunnelEvents) - 1) :
                         (tunnelEvents[i].configuration = 0)
                             # (tunnelEvents[i + 1].configuration = 0)
                  /\ tunnelEvents[Len(tunnelEvents)].configuration = LastTold
                BY <1>3, <3>1, <3>2
            <4>2. (Told' = 0) # (tunnelEvents'[1].configuration = 0)
                <5>1. 1 \in 1..(Len(tunnelEvents) - 1) /\ 1 + 1 = 2
                    BY <1>1, <3>4
                <5>2. (tunnelEvents[1].configuration = 0) # (tunnelEvents[2].configuration = 0)
                    BY <4>1, <5>1
                <5> QED
                    BY <3>1, <3>2, <5>1, <5>2
            <4>3. tunnelEvents'[Len(tunnelEvents')] = tunnelEvents[Len(tunnelEvents)]
                BY <1>1, <3>2, <3>4
            <4>4. ASSUME NEW i \in 1..(Len(tunnelEvents') - 1)
                  PROVE  (tunnelEvents'[i].configuration = 0)
                             # (tunnelEvents'[i + 1].configuration = 0)
                <5>1. i \in 1..(Len(tunnelEvents) - 1) /\ i + 1 \in 1..(Len(tunnelEvents) - 1)
                    BY <1>1, <3>2
                <5> QED
                    BY <3>2, <4>1, <5>1
            <4> QED
                BY <1>1, <3>1, <3>2, <3>4, <4>1, <4>2, <4>3, <4>4
        <3> QED
            BY <1>1, <3>2, <3>3, <3>4
    <2> QED
        BY <2>1, <2>2
<1> QED
    BY <1>5, <1>6, <1>7, StoryStep

-----------------------------------------------------------------------------
(* Every field of the client and of its supervisor keeps its type: no      *)
(* session is made beyond the bound, the reconnect state of                *)
(* client_supervisor.go never overdraws its timeout.                       *)
THEOREM LifecycleTypeOK == Spec => []TypeOK
<1>1. LifecycleInv => TypeOK
    BY DEF LifecycleInv
<1> QED
    BY <1>1, LifecycleInvariant, PTL

(* On every path out of runSession the session is closed before the web    *)
(* session is logged out and before the next connectTunnel: a session that *)
(* is not closed is the latest, and its login is held.                     *)
THEOREM TunnelsStayInsideLogin == Spec => []TunnelInsideLogin
<1>1. LifecycleInv => TunnelInsideLogin
    <2> SUFFICES ASSUME LifecycleInv, NEW s \in 1..latest, life[s] # "closed"
                 PROVE  s = latest /\ web = "held"
        BY DEF TunnelInsideLogin
    <2>1. s = latest /\ sup \in Inside
        BY DEF LifecycleInv, ClosedInv
    <2> QED
        BY <2>1 DEF LifecycleInv, LoginInv
<1> QED
    BY <1>1, LifecycleInvariant, PTL

(* When Client.Close has returned the supervisor has ended, or was never   *)
(* started, the login is released and every session is closed.             *)
THEOREM ReturnedCloseLeavesNothing == Spec => []CloseLeavesNothing
<1>1. LifecycleInv => CloseLeavesNothing
    <2> SUFFICES ASSUME LifecycleInv, closer = "returned"
                 PROVE  /\ sup \in {"off", "done"}
                        /\ current = 0 /\ published = 0 /\ web = "none"
                        /\ \A s \in 1..latest : life[s] = "closed"
        BY DEF CloseLeavesNothing
    <2>1. sup \in {"off", "done"}
        BY DEF LifecycleInv, EndInv
    <2> QED
        BY <2>1 DEF LifecycleInv, LoginInv, ClosedInv, PointerInv, Inside, Current, Published
<1> QED
    BY <1>1, LifecycleInvariant, PTL

(* The reconnect timeout is metered exactly, and waitClientReconnectBackoff *)
(* gives up only when all of it has been waited.                            *)
THEOREM ReconnectBudgetIsExact == Spec => []ReconnectBudget
<1>1. LifecycleInv => ReconnectBudget
    BY DEF LifecycleInv
<1> QED
    BY <1>1, LifecycleInvariant, PTL

(* A WaitReady that waits has nothing to return for: every change it looks *)
(* at, of whichever goroutine, is signalled under the same lock.           *)
THEOREM WaitersAreSignalled == Spec => []NoForgottenWaiter
<1>1. Init => NoForgottenWaiter
    BY DEF Init, NoForgottenWaiter
<1> QED
    BY <1>1, WaiterRemembered, LifecycleInvariant, PTL DEF Spec

(* publishTunnelEvent and stopTunnelEvents send the wake-up token after    *)
(* they have let go of tunnelEventAccess, and still the dispatcher never   *)
(* sleeps on an event or on the order to stop.                             *)
THEOREM EventWakeIsNeverLost == Spec => []NoLostEventWake
<1>1. Init => NoLostEventWake
    BY DEF Init, NoLostEventWake
<1> QED
    BY <1>1, EventWakeKept, LifecycleInvariant, PTL DEF Spec

(* OnTunnelEvent hears up and down in turn, and what it has heard and will *)
(* hear ends with the tunnel there is, however far the dispatcher lags.    *)
THEOREM EventsAlternate == Spec => []EventsTellTheTunnel
<1>1. Init => EventsTellTheTunnel
    <2> SUFFICES ASSUME Init PROVE EventsTellTheTunnel
        OBVIOUS
    <2>1. Told = 0 /\ tunnelEvents = <<>> /\ LastTold = 0
        BY DEF Init, Told, LastTold, ToldUp
    <2> QED
        BY <2>1, EmptySeq, StoryTold
<1> QED
    BY <1>1, StoryPreserved, LifecycleInvariant, PTL DEF Spec
=============================================================================
