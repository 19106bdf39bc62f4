---------------------------- MODULE ClientSession ----------------------------
(***************************************************************************)
(* What the client relies on of a tunnel session: the clientSession        *)
(* interface of src/client_supervisor.go as tunnelSession answers it.      *)
(*                                                                         *)
(* Fail records its first error and no other (failOnce), Close runs once   *)
(* (closeOnce) and whoever calls it again waits for the first to finish,   *)
(* and Start makes the session ready whatever happened to it before: its   *)
(* flag, its error and its Close are not guarded by one another.           *)
(***************************************************************************)
EXTENDS Naturals

CONSTANT Sessions      \* the tunnel sessions of one client

VARIABLES ready,       \* Ready()
          failure,     \* what Done() delivers: "none" until the first Fail
          running,     \* Start was called
          life         \* closeOnce: "open", "closing", "closed"

sessionVars == <<ready, failure, running, life>>

(* "lost" is whatever the network or the gateway does to a running tunnel. *)
Failures == {"closed", "suspended", "restart", "event", "lost"}

SessionTypeOK ==
    /\ ready \in [Sessions -> BOOLEAN]
    /\ failure \in [Sessions -> Failures \cup {"none"}]
    /\ running \in [Sessions -> BOOLEAN]
    /\ life \in [Sessions -> {"open", "closing", "closed"}]

SessionInit ==
    /\ ready = [s \in Sessions |-> FALSE]
    /\ failure = [s \in Sessions |-> "none"]
    /\ running = [s \in Sessions |-> FALSE]
    /\ life = [s \in Sessions |-> "open"]

(* Start *)
StartSession(s) ==
    /\ ~running[s]
    /\ running' = [running EXCEPT ![s] = TRUE]
    /\ ready' = [ready EXCEPT ![s] = TRUE]
    /\ UNCHANGED <<failure, life>>

(* Fail(err): only the first call does anything. *)
FailSession(s, why) ==
    /\ IF failure[s] = "none"
       THEN /\ failure' = [failure EXCEPT ![s] = why]
            /\ ready' = [ready EXCEPT ![s] = FALSE]
       ELSE UNCHANGED <<failure, ready>>
    /\ UNCHANGED <<running, life>>

(* The first call of Close ends the session and begins to take it apart. *)
BeginClose(s) ==
    /\ life[s] = "open"
    /\ life' = [life EXCEPT ![s] = "closing"]
    /\ ready' = [ready EXCEPT ![s] = FALSE]
    /\ failure' = [failure EXCEPT ![s] = IF @ = "none" THEN "closed" ELSE @]
    /\ UNCHANGED running

(* The channels are closed and the goroutines Close waits for have ended. *)
EndClose(s) ==
    /\ life[s] = "closing"
    /\ life' = [life EXCEPT ![s] = "closed"]
    /\ UNCHANGED <<ready, failure, running>>

SessionNext ==
    \E s \in Sessions :
        \/ StartSession(s)
        \/ \E why \in Failures : FailSession(s, why)
        \/ BeginClose(s)
        \/ EndClose(s)

SessionSpec == SessionInit /\ [][SessionNext]_sessionVars
=============================================================================
